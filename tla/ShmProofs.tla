------------------------------ MODULE ShmProofs ------------------------------
(***************************************************************************)
(* Proofs about module Shm: for any numbers of processes, structures,      *)
(* table entries and pages, a segment lives as long as it should and the   *)
(* totals count its pages.                                                 *)
(*                                                                         *)
(* Both need what a process holds on to while shm_lock is dropped: the     *)
(* slot of newseg() is its own, what killseg() frees is in nobody's table  *)
(* and freed once, what shmat() maps cannot be killed since it is counted, *)
(* and the page of a fault stays as it was found.                          *)
(***************************************************************************)
EXTENDS Shm, DataLaws, TLAPS

(***************************************************************************)
(* No simple type fits None \in None.  A leaf that has it among its facts is *)
(* given to the SMT solver in the untyped translation, which is the same   *)
(* wherever the leaf stands; it says nothing else.                         *)
(***************************************************************************)
LEMMA Untyped == None \in None => TRUE
  OBVIOUS
USE Untyped

In(a) == seg[a] # None /\ shm_segs[seg[a].id] = a

Key == Keys \cup {Private}

ArgOK(p) ==
    /\ pc[p] \in {"wait", "alloc"} => arg[p] \in [key : Key, id : Ids]
    /\ pc[p] = "expand" => arg[p] \in [key : Key]
    /\ pc[p] \in {"vma", "map"} => arg[p] \in [h : Nat \X Ids, shp : Seg]
    /\ pc[p] = "fault" => arg[p] \in [page : Page, was : {"none", "out"}]
    /\ pc[p] = "kill" => arg[p] \in Seg

Types ==
    /\ shm_segs \in [Ids -> Seg \cup {Unused, NoId}]
    /\ seg \in [Seg -> Segment \cup {None}]
    /\ max_shmid \in Int /\ shm_seq \in Nat
    /\ shm_tot \in Int /\ shm_rss \in Int /\ shm_swp \in Int /\ used_segs \in Int
    /\ attached \in [Proc -> Seg \cup {None}]
    /\ pc \in [Proc -> Pc] /\ DOMAIN arg = Proc /\ raced \in BOOLEAN
    /\ \A p \in Proc : ArgOK(p)

(* The table: a segment knows its slot.                                    *)
Table ==
    \A id \in Ids : Holds(id) => /\ seg[shm_segs[id]] # None
                                 /\ seg[shm_segs[id]].id = id /\ id <= max_shmid

(* A structure in use is in the table or being freed.                      *)
Kills(p, a) == pc[p] = "kill" /\ arg[p] = a
Used == \A a \in Seg : seg[a] # None => In(a) \/ \E p \in Proc : Kills(p, a)

(* What a process may rely on when it takes shm_lock again.                *)
Relies(p) ==
    /\ attached[p] # None => In(attached[p])
    /\ pc[p] = "alloc" => shm_segs[arg[p].id] = NoId
    /\ pc[p] \in {"vma", "map"} => attached[p] = None
    /\ pc[p] = "map" => In(arg[p].shp) /\ seg[arg[p].shp].seq = arg[p].h[1]
    /\ pc[p] = "kill" => seg[arg[p]] # None /\ ~In(arg[p])
    /\ pc[p] = "fault" => attached[p] # None /\ seg[attached[p]].sem = p

(* No two processes fill one slot or free one structure.                   *)
Apart ==
    \A p, q \in Proc : p # q =>
        /\ pc[p] = "alloc" /\ pc[q] = "alloc" => arg[p].id # arg[q].id
        /\ pc[p] = "kill" /\ pc[q] = "kill" => arg[p] # arg[q]

Counted ==
    \A a \in Seg : In(a) => /\ seg[a].nattch = Cardinality(Attaching(a))
                            /\ seg[a].dest => Attaching(a) # {}

(* The page of a fault is as it was found.                                 *)
Found ==
    raced \/ \A p \in Proc : pc[p] = "fault" => seg[attached[p]].pte[arg[p].page] = arg[p].was

-----------------------------------------------------------------------------
(***************************************************************************)
(* The kinds of step.                                                      *)
(***************************************************************************)

Fields(r, id, sq, d, n, t, m) ==
    /\ r \in Segment
    /\ r.id = id /\ r.seq = sq /\ r.dest = d /\ r.nattch = n /\ r.pte = t /\ r.sem = m

(* Structure a has new fields; its slot stays.                             *)
Becomes(a, sq, d, n, t, m) ==
    /\ a \in Seg /\ seg[a] # None
    /\ \E r : Fields(r, seg[a].id, sq, d, n, t, m) /\ seg' = [seg EXCEPT ![a] = r]

others == <<shm_segs, max_shmid, shm_seq, raced>>

(* Steps that find nothing to do, begin a call or give it up.              *)
Outside == {"user", "wait", "expand", "vma"}
Idles(p) ==
    /\ pc[p] \in Outside /\ (\E at, a : Go(p, at, a)) /\ pc'[p] \in Outside /\ ArgOK(p)'
    /\ pc'[p] = "vma" => attached[p] = None
    /\ UNCHANGED <<others, seg, counts, attached>>

TakesSlot(p, id) ==
    /\ pc[p] = "expand" /\ id \in Ids /\ shm_segs[id] = Unused
    /\ shm_segs' = [shm_segs EXCEPT ![id] = NoId]
    /\ Go(p, "alloc", [key |-> arg[p].key, id |-> id])
    /\ UNCHANGED <<seg, max_shmid, shm_seq, counts, attached, raced>>

GivesBack(p) ==
    /\ pc[p] = "alloc" /\ Done(p)
    /\ shm_segs' = [shm_segs EXCEPT ![arg[p].id] = Unused]
    /\ UNCHANGED <<seg, max_shmid, shm_seq, counts, attached, raced>>

Creates(p, a) ==
    /\ pc[p] = "alloc" /\ Done(p)
    /\ a \in Seg /\ seg[a] = None
    /\ \E r \in Segment :
         /\ r.id = arg[p].id /\ r.dest = FALSE /\ r.nattch = 0 /\ r.pte = [i \in Page |-> "none"]
         /\ seg' = [seg EXCEPT ![a] = r]
    /\ shm_segs' = [shm_segs EXCEPT ![arg[p].id] = a]
    /\ max_shmid' \in Int /\ max_shmid' >= max_shmid /\ max_shmid' >= arg[p].id
    /\ shm_tot' = shm_tot + Size /\ used_segs' = used_segs + 1
    /\ UNCHANGED <<shm_rss, shm_swp, shm_seq, attached, raced>>

(* killseg() begins: a has no attach, but for the one p gives up.          *)
KillBegins(p, a) ==
    /\ pc[p] \in {"user", "map"} /\ In(a) /\ Attaching(a) \subseteq {p}
    /\ \E sq, d, n : Becomes(a, sq, d, n, seg[a].pte, seg[a].sem)
    /\ shm_segs' = [shm_segs EXCEPT ![seg[a].id] = Unused]
    /\ \A id \in Ids : Holds(id) /\ id # seg[a].id => id <= max_shmid'
    /\ max_shmid' \in Int /\ shm_seq' \in Nat
    /\ Go(p, "kill", a)
    /\ attached' = [attached EXCEPT ![p] = attached'[p]]
    /\ attached'[p] \in {None, attached[p]} /\ attached'[p] # a
    /\ (attached[p] \in Seg \ {a} => attached'[p] = attached[p]) /\ (pc[p] = "map" => arg[p].shp = a)
    /\ used_segs' = used_segs - 1
    /\ UNCHANGED <<shm_tot, shm_rss, shm_swp, raced>>

Attaches(p, a) ==
    /\ pc[p] = "vma" /\ a = arg[p].shp /\ In(a) /\ seg[a].seq = arg[p].h[1]
    /\ Becomes(a, seg[a].seq, seg[a].dest, seg[a].nattch + 1, seg[a].pte, seg[a].sem)
    /\ Go(p, "map", arg[p])
    /\ UNCHANGED <<others, counts, attached>>

Maps(p) ==
    /\ pc[p] = "map" /\ Done(p)
    /\ attached' = [attached EXCEPT ![p] = arg[p].shp]
    /\ UNCHANGED <<others, seg, counts>>

(* An attach goes, others stay or the segment is not to be removed.        *)
Leaves(p, a) ==
    /\ (pc[p] = "user" /\ attached[p] = a) \/ (pc[p] = "map" /\ arg[p].shp = a)
    /\ ~(seg[a].nattch - 1 <= 0 /\ seg[a].dest)
    /\ Becomes(a, seg[a].seq, seg[a].dest, seg[a].nattch - 1, seg[a].pte, seg[a].sem)
    /\ Done(p)
    /\ attached' = [attached EXCEPT ![p] = None]
    /\ UNCHANGED <<others, counts>>

Forks(p, q) ==
    /\ pc[p] = "user" /\ pc[q] = "user" /\ attached[p] # None /\ attached[q] = None
    /\ LET a == attached[p]
       IN Becomes(a, seg[a].seq, seg[a].dest, seg[a].nattch + 1, seg[a].pte, seg[a].sem)
    /\ attached' = [attached EXCEPT ![q] = attached[p]]
    /\ UNCHANGED <<others, counts, pc, arg>>

Marks(a) ==
    /\ In(a) /\ seg[a].nattch > 0
    /\ Becomes(a, seg[a].seq, TRUE, seg[a].nattch, seg[a].pte, seg[a].sem)
    /\ UNCHANGED <<others, counts, attached, pc, arg>>

Faults(p, i) ==
    /\ pc[p] = "user" /\ attached[p] # None /\ i \in Page
    /\ LET a == attached[p]
       IN /\ seg[a].sem = None /\ seg[a].pte[i] \in {"none", "out"}
          /\ Becomes(a, seg[a].seq, seg[a].dest, seg[a].nattch, seg[a].pte, p)
          /\ Go(p, "fault", [page |-> i, was |-> seg[a].pte[i]])
    /\ UNCHANGED <<others, counts, attached>>

FaultFails(p) ==
    /\ pc[p] = "fault" /\ Done(p)
    /\ LET a == attached[p]
       IN Becomes(a, seg[a].seq, seg[a].dest, seg[a].nattch, seg[a].pte, None)
    /\ UNCHANGED <<others, counts, attached>>

FaultEnters(p) ==
    /\ pc[p] = "fault" /\ Done(p)
    /\ LET a == attached[p]
       IN Becomes(a, seg[a].seq, seg[a].dest, seg[a].nattch, [seg[a].pte EXCEPT ![arg[p].page] = "in"], None)
    /\ shm_swp' = IF arg[p].was = "out" THEN shm_swp - 1 ELSE shm_swp
    /\ shm_rss' = shm_rss + 1
    /\ UNCHANGED <<others, shm_tot, used_segs, attached>>

(* shm_swap() and shm_unuse() on page i of a.                              *)
Turns(a, i, what, n) ==
    /\ In(a) /\ i \in Page
    /\ Becomes(a, seg[a].seq, seg[a].dest, seg[a].nattch, [seg[a].pte EXCEPT ![i] = what], seg[a].sem)
    /\ shm_swp' = shm_swp + n /\ shm_rss' = shm_rss - n
    /\ UNCHANGED <<shm_segs, max_shmid, shm_seq, shm_tot, used_segs, attached, pc, arg>>
Swaps(a, i) == seg[a].pte[i] = "in" /\ Turns(a, i, "out", 1) /\ raced' = raced
Unuses(a, i) ==
    /\ seg[a].pte[i] = "out" /\ Turns(a, i, "in", -1) /\ raced' \in BOOLEAN
    /\ raced' \/ (~raced /\ \A p \in Proc : pc[p] = "fault" /\ attached[p] = a => arg[p].page # i)

Step ==
    \/ \E p \in Proc :
         \/ Idles(p) \/ (\E id : TakesSlot(p, id)) \/ GivesBack(p) \/ (\E a : Creates(p, a))
         \/ (\E a : KillBegins(p, a)) \/ KillEnd(p)
         \/ (\E a : Attaches(p, a)) \/ Maps(p) \/ (\E a : Leaves(p, a)) \/ (\E q \in Proc : Forks(p, q))
         \/ (\E i : Faults(p, i)) \/ FaultFails(p) \/ FaultEnters(p)
    \/ \E a : Marks(a) \/ (\E i : Swaps(a, i) \/ Unuses(a, i))

LifeInv == Types /\ Table /\ Used /\ (\A p \in Proc : Relies(p)) /\ Apart /\ Counted

-----------------------------------------------------------------------------
LEMMA Consts ==
  /\ Seg \cap {Unused, NoId, None} = {} /\ Unused # NoId /\ None \notin Proc /\ None \notin Segment
  /\ IsFiniteSet(Proc) /\ IsFiniteSet(Seg) /\ SHMMNI \in Nat /\ Size \in Nat /\ SeqMod \in Nat \ {0}
  /\ Ids \subseteq Nat /\ Page \subseteq Nat
<1>1. Ids \subseteq Nat /\ Page \subseteq Nat
  BY SizeAssumption DEF Ids, Page
<1> QED
  BY <1>1, AddressAssumption, NullAssumption, SizeAssumption

LEMMA PageFinite ==
  ASSUME FiniteLaws
  PROVE  IsFiniteSet(Page)
<1>1. IntervalFinite /\ 0 \in Int /\ Size - 1 \in Int
  BY Consts DEF FiniteLaws
<1> QED
  BY <1>1, Zenon DEF Page, IntervalFinite

LEMMA FieldTypes ==
  ASSUME NEW s \in Segment
  PROVE  /\ s.key \in Key /\ s.seq \in Nat /\ s.dest \in BOOLEAN /\ s.nattch \in Int /\ s.id \in Ids
         /\ s.pte \in [Page -> {"none", "in", "out"}] /\ s.sem \in Proc \cup {None}
BY DEF Segment, Key

LEMMA SetNattch ==
  ASSUME NEW s \in Segment, NEW n \in Int
  PROVE  Fields([s EXCEPT !.nattch = n], s.id, s.seq, s.dest, n, s.pte, s.sem)
BY DEF Segment, Fields

LEMMA SetSeq ==
  ASSUME NEW s \in Segment, NEW n \in Nat
  PROVE  Fields([s EXCEPT !.seq = n], s.id, n, s.dest, s.nattch, s.pte, s.sem)
BY DEF Segment, Fields

LEMMA SetDest ==
  ASSUME NEW s \in Segment
  PROVE  Fields([s EXCEPT !.dest = TRUE], s.id, s.seq, TRUE, s.nattch, s.pte, s.sem)
BY Zenon DEF Segment, Fields

LEMMA SetSem ==
  ASSUME NEW s \in Segment, NEW m \in Proc \cup {None}
  PROVE  Fields([s EXCEPT !.sem = m], s.id, s.seq, s.dest, s.nattch, s.pte, m)
BY DEF Segment, Fields

LEMMA SetPte ==
  ASSUME NEW s \in Segment, NEW i \in Page, NEW w \in {"none", "in", "out"}
  PROVE  Fields([s EXCEPT !.pte = [s.pte EXCEPT ![i] = w]],
                s.id, s.seq, s.dest, s.nattch, [s.pte EXCEPT ![i] = w], s.sem)
<1>1. [s.pte EXCEPT ![i] = w] \in [Page -> {"none", "in", "out"}]
  BY FieldTypes
<1> QED
  BY <1>1 DEF Segment, Fields

LEMMA BecomesFacts ==
  ASSUME Types, NEW a, NEW sq, NEW d, NEW n, NEW t, NEW m, Becomes(a, sq, d, n, t, m)
  PROVE  /\ seg' \in [Seg -> Segment \cup {None}] /\ a \in Seg /\ seg[a] # None /\ seg'[a] # None
         /\ \A b \in Seg \ {a} : seg'[b] = seg[b]
         /\ seg'[a].id = seg[a].id /\ seg'[a].seq = sq /\ seg'[a].dest = d
         /\ seg'[a].nattch = n /\ seg'[a].pte = t /\ seg'[a].sem = m
<1>1. PICK r : Fields(r, seg[a].id, sq, d, n, t, m) /\ seg' = [seg EXCEPT ![a] = r]
  BY Zenon DEF Becomes
<1>2. r \in Segment /\ a \in Seg /\ seg[a] # None /\ seg \in [Seg -> Segment \cup {None}] /\ r # None
  BY <1>1, Consts DEF Becomes, Fields, Types
<1>3. seg'[a] = r /\ seg' \in [Seg -> Segment \cup {None}] /\ \A b \in Seg \ {a} : seg'[b] = seg[b]
  BY <1>1, <1>2
<1> QED
  BY <1>1, <1>2, <1>3 DEF Fields

(* The greatest of a bounded set.                                          *)
LEMMA MaxIs ==
  ASSUME FiniteLaws, NEW n \in Nat, NEW S \in SUBSET ((0 - 1)..n), S # {}
  PROVE  Max(S) \in S /\ \A y \in S : Max(S) >= y
<1> DEFINE T == {k \in Nat : n - k \in S}
<1>1. T # {}
  <2>1. PICK y \in S : TRUE
    BY Zenon
  <2>2. y \in Int /\ n - y \in Nat /\ n - (n - y) = y
    BY <2>1
  <2> QED
    BY <2>1, <2>2
<1>2. PICK k \in T : \A j \in T : k <= j
  BY <1>1, Zenon DEF FiniteLaws, LeastNumber
<1>3. n - k \in S
  BY <1>2
<1>4. ASSUME NEW y \in S PROVE n - k >= y
  <2>1. y \in Int /\ n - y \in Nat /\ n - (n - y) = y
    OBVIOUS
  <2>2. k <= n - y
    BY <1>2, <2>1, Zenon
  <2> QED
    BY <1>2, <2>1, <2>2
<1> HIDE DEF T
<1> QED
  BY <1>3, <1>4, Zenon DEF Max

-----------------------------------------------------------------------------
LEMMA AttachingFinite ==
  ASSUME FiniteLaws, NEW a
  PROVE  IsFiniteSet(Attaching(a)) /\ Cardinality(Attaching(a)) \in Nat /\ Attaching(a) \subseteq Proc
<1>1. Attaching(a) \in SUBSET Proc
  BY DEF Attaching
<1>2. IsFiniteSet(Attaching(a))
  BY <1>1, Consts, Zenon DEF FiniteLaws, SubsetSize
<1> QED
  BY <1>1, <1>2 DEF FiniteLaws, SizeIsNat

(* A structure in the table.                                               *)
LEMMA InFacts ==
  ASSUME Types, NEW a \in Seg, seg[a] # None
  PROVE  seg[a] \in Segment /\ seg[a].id \in Ids
<1>1. seg[a] \in Segment
  BY DEF Types
<1> QED
  BY <1>1, FieldTypes, Zenon

LEMMA HeldIn ==
  ASSUME Types, Table, NEW id \in Ids, Holds(id)
  PROVE  shm_segs[id] \in Seg /\ In(shm_segs[id]) /\ seg[shm_segs[id]].id = id
BY DEF Types, Table, Holds, In

LEMMA KillSegFacts ==
  ASSUME FiniteLaws, Types, Table, NEW p \in Proc, NEW a \in Seg, In(a), NEW r, NEW g, NEW sq \in Nat, NEW d, NEW n,
         Fields(r, seg[a].id, sq, d, n, seg[a].pte, seg[a].sem), g = [seg EXCEPT ![a] = r],
         KillSeg(p, a, g)
  PROVE  /\ \E x, y, z : Becomes(a, x, y, z, seg[a].pte, seg[a].sem)
         /\ shm_segs' = [shm_segs EXCEPT ![seg[a].id] = Unused]
         /\ \A id \in Ids : Holds(id) /\ id # seg[a].id => id <= max_shmid'
         /\ max_shmid' \in Int /\ shm_seq' \in Nat /\ Go(p, "kill", a)
         /\ used_segs' = used_segs - 1 /\ UNCHANGED <<shm_tot, shm_rss, shm_swp>>
<1>1. g[a] = r /\ r.id = seg[a].id /\ r.seq = sq /\ r \in Segment /\ seg[a] # None /\ seg[a].id \in Ids
  <2>1. g[a] = r /\ seg[a] # None
    BY DEF Types, In
  <2> QED
    BY <2>1, InFacts DEF Fields
<1> DEFINE s == [r EXCEPT !.seq = sq + 1]
<1>2. seg' = [seg EXCEPT ![a] = s]
  <2>1. seg' = [g EXCEPT ![a] = [g[a] EXCEPT !.seq = g[a].seq + 1]]
    BY Zenon DEF KillSeg
  <2>2. seg' = [g EXCEPT ![a] = s]
    BY <1>1, <2>1, Zenon
  <2> HIDE DEF s
  <2> QED
    BY <2>2, Zenon DEF Types
<1>3. Fields(s, seg[a].id, sq + 1, d, n, seg[a].pte, seg[a].sem)
  <2>1. Fields(s, r.id, sq + 1, r.dest, r.nattch, r.pte, r.sem)
    <3>1. sq + 1 \in Nat
      OBVIOUS
    <3> QED
      BY <1>1, <3>1, SetSeq, Zenon
  <2> QED
    BY <2>1, Zenon DEF Fields
<1>4. Becomes(a, sq + 1, d, n, seg[a].pte, seg[a].sem)
  BY <1>1, <1>2, <1>3, Zenon DEF Becomes
<1> HIDE DEF s
<1>5. /\ shm_segs' = [shm_segs EXCEPT ![seg[a].id] = Unused] /\ Go(p, "kill", a)
      /\ used_segs' = used_segs - 1 /\ UNCHANGED <<shm_tot, shm_rss, shm_swp>>
      /\ shm_seq' = (shm_seq + 1) % SeqMod
  BY <1>1, Zenon DEF KillSeg
<1>6. shm_seq' \in Nat
  BY <1>5, Consts DEF Types
<1>7. max_shmid' \in Int /\ \A id \in Ids : Holds(id) /\ id # seg[a].id => id <= max_shmid'
  <2> DEFINE top == seg[a].id
             S == {-1} \cup {i \in Ids : i < top /\ shm_segs[i] # Unused}
  <2>1. max_shmid' = IF top # max_shmid THEN max_shmid ELSE Max(S)
    BY <1>1, Zenon DEF KillSeg
  <2>2. \A id \in Ids : Holds(id) => id <= max_shmid
    BY DEF Table
  <2>3. CASE top # max_shmid
    BY <2>1, <2>2, <2>3 DEF Types
  <2>4. CASE top = max_shmid
    <3>1. S \in SUBSET ((0 - 1)..top) /\ S # {} /\ top \in Nat
      <4>1. top \in Nat /\ \A i \in Ids : i \in Nat
        BY <1>1, Consts, Zenon
      <4> HIDE DEF top
      <4> QED
        BY <4>1
    <3>2. Max(S) \in S /\ \A y \in S : Max(S) >= y
      BY <3>1, MaxIs, Zenon
    <3>3. ASSUME NEW id \in Ids, Holds(id), id # top PROVE id \in S /\ id \in Nat
      BY <2>2, <2>4, <3>1, <3>3, Consts DEF Holds
    <3>4. max_shmid' = Max(S) /\ \A y \in S : y \in Int
      BY <2>1, <2>4, <3>1
    <3> HIDE DEF S, top
    <3>5. max_shmid' \in Int /\ \A id \in Ids : Holds(id) /\ id # top => id <= max_shmid'
      BY <3>2, <3>3, <3>4
    <3> QED
      BY <3>5 DEF top
  <2> QED
    BY <2>3, <2>4
<1> QED
  BY <1>4, <1>5, <1>6, <1>7, Zenon

LEMMA DropCases ==
  ASSUME FiniteLaws, LifeInv, NEW p \in Proc, NEW a \in Seg,
         (pc[p] = "user" /\ attached[p] = a) \/ (pc[p] = "map" /\ arg[p].shp = a),
         Drop(p, a), attached' = [attached EXCEPT ![p] = None], raced' = raced
  PROVE  KillBegins(p, a) \/ Leaves(p, a)
<1>0. Types /\ Table /\ Relies(p) /\ Counted
  BY DEF LifeInv
<1>1. In(a) /\ p \in Attaching(a) /\ seg[a] # None
  BY <1>0, Consts DEF Relies, Attaching, In
<1>2. seg[a] \in Segment /\ seg[a].nattch \in Int /\ seg[a].seq \in Nat
  BY <1>0, <1>1, InFacts, FieldTypes, Zenon
<1> DEFINE r == [seg[a] EXCEPT !.nattch = seg[a].nattch - 1]
           g == [seg EXCEPT ![a].nattch = @ - 1]
<1>3. Fields(r, seg[a].id, seg[a].seq, seg[a].dest, seg[a].nattch - 1, seg[a].pte, seg[a].sem)
  <2>1. seg[a].nattch - 1 \in Int
    BY <1>2
  <2> QED
    BY <1>2, <2>1, SetNattch, Zenon
<1>4. g = [seg EXCEPT ![a] = r] /\ g[a] = r
  BY <1>0 DEF Types
<1>5. r.nattch = seg[a].nattch - 1 /\ r.dest = seg[a].dest
  BY <1>3, Zenon DEF Fields
<1>6. IF g[a].nattch <= 0 /\ g[a].dest THEN KillSeg(p, a, g)
      ELSE seg' = g /\ Done(p) /\ UNCHANGED <<shm_segs, max_shmid, shm_seq, counts>>
  BY Zenon DEF Drop
<1> HIDE DEF r, g
<1>7. CASE seg[a].nattch - 1 <= 0 /\ seg[a].dest
  <2>1. KillSeg(p, a, g)
    BY <1>4, <1>5, <1>6, <1>7, Zenon
  <2>2. Attaching(a) \subseteq {p}
    <3>1. Cardinality(Attaching(a) \ {p}) = Cardinality(Attaching(a)) - 1 /\ IsFiniteSet(Attaching(a) \ {p})
      BY <1>1, AttachingFinite DEF FiniteLaws, RemoveSize
    <3>2. Cardinality(Attaching(a)) = seg[a].nattch
      BY <1>0, <1>1 DEF Counted
    <3>3. Cardinality(Attaching(a) \ {p}) \in Nat
      BY <3>1 DEF FiniteLaws, SizeIsNat
    <3>4. Cardinality(Attaching(a) \ {p}) = 0
      BY <1>2, <1>7, <3>1, <3>2, <3>3
    <3>5. Attaching(a) \ {p} = {}
      BY <3>1, <3>4 DEF FiniteLaws, EmptySize
    <3> QED
      BY <3>5
  <2>3. /\ \E x, y, z : Becomes(a, x, y, z, seg[a].pte, seg[a].sem)
        /\ shm_segs' = [shm_segs EXCEPT ![seg[a].id] = Unused]
        /\ \A id \in Ids : Holds(id) /\ id # seg[a].id => id <= max_shmid'
        /\ max_shmid' \in Int /\ shm_seq' \in Nat /\ Go(p, "kill", a)
        /\ used_segs' = used_segs - 1 /\ UNCHANGED <<shm_tot, shm_rss, shm_swp>>
    <3> HIDE DEF r
    <3> QED
      BY <1>0, <1>1, <1>2, <1>3, <1>4, <2>1, KillSegFacts, Zenon
  <2>4. /\ attached'[p] = None /\ None # a /\ attached[p] \notin Seg \ {a}
        /\ pc[p] \in {"user", "map"} /\ (pc[p] = "map" => arg[p].shp = a)
    BY <1>0, Consts DEF Types, Relies
  <2> QED
    BY <1>1, <2>2, <2>3, <2>4, Zenon DEF KillBegins
<1>8. CASE ~(seg[a].nattch - 1 <= 0 /\ seg[a].dest)
  <2>1. seg' = [seg EXCEPT ![a] = r] /\ Done(p) /\ UNCHANGED <<shm_segs, max_shmid, shm_seq, counts>>
    BY <1>4, <1>5, <1>6, <1>8, Zenon
  <2>2. Becomes(a, seg[a].seq, seg[a].dest, seg[a].nattch - 1, seg[a].pte, seg[a].sem)
    BY <1>1, <1>3, <2>1, Zenon DEF Becomes
  <2> QED
    BY <1>8, <2>1, <2>2, Zenon DEF Leaves, others
<1> QED
  BY <1>7, <1>8

-----------------------------------------------------------------------------
LEMMA GoIdles ==
  ASSUME Types, NEW p \in Proc, pc[p] \in Outside, NEW at \in Outside, NEW a, Go(p, at, a),
         at = "wait" => a \in [key : Key, id : Ids], at = "expand" => a \in [key : Key],
         at = "vma" => a \in [h : Nat \X Ids, shp : Seg] /\ attached[p] = None,
         UNCHANGED <<shm_segs, seg, max_shmid, shm_seq, counts, attached, raced>>
  PROVE  Idles(p)
<1>1. pc'[p] = at /\ arg'[p] = a
  BY DEF Go, Types
<1>2. ArgOK(p)'
  BY <1>1 DEF ArgOK, Outside
<1> QED
  BY <1>1, <1>2, Zenon DEF Idles, others

LEMMA MinIs ==
  ASSUME FiniteLaws, NEW S \in SUBSET Nat, S # {}
  PROVE  Min(S) \in S
<1>1. \E x \in S : \A y \in S : x <= y
  BY DEF FiniteLaws, LeastNumber
<1> QED
  BY <1>1, Zenon DEF Min

LEMMA NewSegIdles ==
  ASSUME Types, NEW p \in Proc, pc[p] \in Outside, NEW key \in Key, NewSegBegin(p, key),
         UNCHANGED <<shm_segs, seg, max_shmid, shm_seq, counts, attached, raced>>
  PROVE  Idles(p)
<1>1. CASE Done(p)
  BY <1>1, GoIdles DEF Done, Outside
<1>2. CASE Go(p, "expand", [key |-> key])
  <2>1. [key |-> key] \in [key : Key]
    OBVIOUS
  <2> QED
    BY <1>2, <2>1, GoIdles DEF Outside
<1> QED
  BY <1>1, <1>2, Zenon DEF NewSegBegin

LEMMA FindKeyIdles ==
  ASSUME FiniteLaws, Types, NEW p \in Proc, pc[p] \in Outside, NEW key \in Key, NEW from, FindKey(p, key, from),
         UNCHANGED <<shm_segs, seg, max_shmid, shm_seq, counts, attached, raced>>
  PROVE  Idles(p)
<1> DEFINE seen == {id \in Ids : from <= id /\ id <= max_shmid /\ (shm_segs[id] = NoId \/ Match(key, id))}
<1>1. \/ NewSegBegin(p, key) \/ Done(p)
      \/ seen # {} /\ Go(p, "wait", [key |-> key, id |-> Min(seen)])
  BY Zenon DEF FindKey
<1>2. CASE NewSegBegin(p, key)
  BY <1>2, NewSegIdles
<1>3. CASE Done(p)
  BY <1>3, GoIdles DEF Done, Outside
<1>4. CASE seen # {} /\ Go(p, "wait", [key |-> key, id |-> Min(seen)])
  <2>1. seen \in SUBSET Nat /\ seen \subseteq Ids
    BY Consts, Zenon
  <2> HIDE DEF seen
  <2>2. Min(seen) \in Ids
    BY <1>4, <2>1, MinIs, Zenon
  <2>3. [key |-> key, id |-> Min(seen)] \in [key : Key, id : Ids]
    BY <2>2
  <2> QED
    BY <1>4, <2>3, GoIdles DEF Outside
<1> QED
  BY <1>1, <1>2, <1>3, <1>4

LEMMA CreateCases ==
  ASSUME FiniteLaws, Types, NEW p \in Proc, TakeSlot(p) \/ NewSeg(p)
  PROVE  Idles(p) \/ (\E id : TakesSlot(p, id)) \/ GivesBack(p) \/ (\E a : Creates(p, a))
<1>0. ArgOK(p)
  BY DEF Types
<1>1. CASE TakeSlot(p)
  <2> DEFINE free == {id \in Ids : shm_segs[id] = Unused}
  <2>1. pc[p] = "expand" /\ UNCHANGED <<seg, max_shmid, shm_seq, counts, attached, raced>>
    BY <1>1 DEF TakeSlot
  <2>2. \/ Done(p) /\ UNCHANGED shm_segs
        \/ /\ free # {} /\ shm_segs' = [shm_segs EXCEPT ![Min(free)] = NoId]
           /\ Go(p, "alloc", [key |-> arg[p].key, id |-> Min(free)])
    BY <1>1 DEF TakeSlot
  <2>3. CASE Done(p) /\ UNCHANGED shm_segs
    BY <2>1, <2>3, GoIdles DEF Done, Outside
  <2>4. CASE free # {} /\ shm_segs' = [shm_segs EXCEPT ![Min(free)] = NoId]
             /\ Go(p, "alloc", [key |-> arg[p].key, id |-> Min(free)])
    <3>1. Min(free) \in free
      BY <2>4, Consts, MinIs, Zenon
    <3> QED
      BY <2>1, <2>4, <3>1, Zenon DEF TakesSlot
  <2> QED
    BY <2>2, <2>3, <2>4
<1>2. CASE NewSeg(p)
  <2> DEFINE id == arg[p].id
  <2>1. pc[p] = "alloc" /\ Done(p) /\ UNCHANGED <<shm_seq, attached, raced>> /\ id \in Ids /\ arg[p].key \in Key
    BY <1>0, <1>2 DEF NewSeg, ArgOK
  <2>2. CASE shm_segs' = [shm_segs EXCEPT ![id] = Unused] /\ UNCHANGED <<seg, max_shmid, counts>>
    BY <2>1, <2>2 DEF GivesBack
  <2>3. ASSUME NEW a \in Seg, seg[a] = None,
               seg' = [seg EXCEPT ![a] = [key |-> arg[p].key, seq |-> shm_seq, dest |-> FALSE, nattch |-> 0,
                                          pte |-> [i \in Page |-> "none"], id |-> id, sem |-> None]],
               shm_segs' = [shm_segs EXCEPT ![id] = a],
               max_shmid' = Max({id, max_shmid}),
               shm_tot' = shm_tot + Size, used_segs' = used_segs + 1, UNCHANGED <<shm_rss, shm_swp>>
        PROVE  Creates(p, a)
    <3> DEFINE r == [key |-> arg[p].key, seq |-> shm_seq, dest |-> FALSE, nattch |-> 0,
                     pte |-> [i \in Page |-> "none"], id |-> id, sem |-> None]
    <3>1. r \in Segment /\ r.id = arg[p].id /\ r.dest = FALSE /\ r.nattch = 0 /\ r.pte = [i \in Page |-> "none"]
      <4>1. shm_seq \in Nat /\ [i \in Page |-> "none"] \in [Page -> {"none", "in", "out"}]
        BY DEF Types
      <4> QED
        BY <2>1, <4>1 DEF Segment, Key
    <3>2. max_shmid' \in Int /\ max_shmid' >= max_shmid /\ max_shmid' >= id
      <4>1. id \in Int /\ max_shmid \in Int
        <5>1. id \in Nat
          BY <2>1, Consts, Zenon
        <5>2. max_shmid \in Int
          BY DEF Types
        <5> HIDE DEF id
        <5> QED
          BY <5>1, <5>2
      <4> HIDE DEF id
      <4>2. \E x \in {id, max_shmid} : \A y \in {id, max_shmid} : x >= y
        BY <4>1
      <4>3. Max({id, max_shmid}) \in {id, max_shmid} /\ \A y \in {id, max_shmid} : Max({id, max_shmid}) >= y
        BY <4>2, Zenon DEF Max
      <4> QED
        BY <2>3, <4>1, <4>3
    <3> HIDE DEF r
    <3>3. seg' = [seg EXCEPT ![a] = r]
      BY <2>3, Zenon DEF r
    <3> QED
      BY <2>1, <2>3, <3>1, <3>2, <3>3, Zenon DEF Creates
  <2> QED
    BY <1>2, <2>2, <2>3, Zenon DEF NewSeg
<1> QED
  BY <1>1, <1>2

LEMMA AttachCases ==
  ASSUME FiniteLaws, LifeInv, NEW p \in Proc,
         Rmid(p) \/ Shmat(p) \/ ShmatAllocated(p) \/ ShmatMapped(p) \/ Detach(p)
  PROVE  \/ Idles(p) \/ (\E a : KillBegins(p, a)) \/ (\E a : Attaches(p, a)) \/ Maps(p)
         \/ (\E a : Leaves(p, a)) \/ (\E a : Marks(a))
<1>0. Types /\ Table /\ Relies(p) /\ Counted /\ ArgOK(p)
  BY DEF LifeInv, Types
<1>1. CASE Rmid(p)
  <2>1. PICK id \in Ids :
          /\ Holds(id)
          /\ LET a == shm_segs[id]
                 g == [seg EXCEPT ![a].dest = TRUE]
             IN IF g[a].nattch <= 0 THEN KillSeg(p, a, g)
                ELSE seg' = g /\ UNCHANGED <<shm_segs, max_shmid, shm_seq, counts, pc, arg>>
    BY <1>1, Zenon DEF Rmid
  <2>2. pc[p] = "user" /\ UNCHANGED <<attached, raced>>
    BY <1>1 DEF Rmid
  <2> DEFINE a == shm_segs[id]
             g == [seg EXCEPT ![a].dest = TRUE]
             r == [seg[a] EXCEPT !.dest = TRUE]
  <2>3. a \in Seg /\ In(a) /\ seg[a] # None
    BY <1>0, <2>1, HeldIn, Zenon DEF In
  <2>4. IF g[a].nattch <= 0 THEN KillSeg(p, a, g)
        ELSE seg' = g /\ UNCHANGED <<shm_segs, max_shmid, shm_seq, counts, pc, arg>>
    BY <2>1, Zenon
  <2> HIDE DEF a
  <2>5. seg[a] \in Segment /\ seg[a].nattch \in Int /\ seg[a].seq \in Nat
    BY <1>0, <2>3, InFacts, FieldTypes, Zenon
  <2>6. g = [seg EXCEPT ![a] = r] /\ g[a] = r
    BY <1>0, <2>3, Zenon DEF Types
  <2>7. Fields(r, seg[a].id, seg[a].seq, TRUE, seg[a].nattch, seg[a].pte, seg[a].sem)
    BY <2>5, SetDest, Zenon
  <2>8. r.nattch = seg[a].nattch
    BY <2>7, Zenon DEF Fields
  <2> HIDE DEF g, r
  <2>9. CASE seg[a].nattch <= 0
    <3>1. KillSeg(p, a, g)
      BY <2>4, <2>6, <2>8, <2>9, Zenon
    <3>2. Attaching(a) = {}
      <4>1. Cardinality(Attaching(a)) = seg[a].nattch
        BY <1>0, <2>3 DEF Counted
      <4>2. Cardinality(Attaching(a)) = 0
        BY <2>9, <4>1, AttachingFinite
      <4> QED
        BY <4>2, AttachingFinite DEF FiniteLaws, EmptySize
    <3>3. /\ \E x, y, z : Becomes(a, x, y, z, seg[a].pte, seg[a].sem)
          /\ shm_segs' = [shm_segs EXCEPT ![seg[a].id] = Unused]
          /\ \A i \in Ids : Holds(i) /\ i # seg[a].id => i <= max_shmid'
          /\ max_shmid' \in Int /\ shm_seq' \in Nat /\ Go(p, "kill", a)
          /\ used_segs' = used_segs - 1 /\ UNCHANGED <<shm_tot, shm_rss, shm_swp>>
      BY <1>0, <2>3, <2>5, <2>6, <2>7, <3>1, KillSegFacts, Zenon
    <3>4. attached'[p] = attached[p] /\ attached[p] # a /\ attached' = [attached EXCEPT ![p] = attached'[p]]
      <4>1. p \notin Attaching(a)
        BY <3>2
      <4>2. attached[p] # a
        BY <4>1 DEF Attaching
      <4> QED
        BY <1>0, <2>2, <4>2 DEF Types
    <3>5. pc[p] \in {"user", "map"} /\ pc[p] # "map"
      BY <2>2
    <3>6. KillBegins(p, a)
      BY <2>2, <2>3, <3>2, <3>3, <3>4, <3>5, Zenon DEF KillBegins
    <3> QED
      BY <3>6, Zenon
  <2>10. CASE ~(seg[a].nattch <= 0)
    <3>1. seg' = [seg EXCEPT ![a] = r] /\ UNCHANGED <<shm_segs, max_shmid, shm_seq, counts, pc, arg>>
      BY <2>4, <2>6, <2>8, <2>10, Zenon
    <3>2. Becomes(a, seg[a].seq, TRUE, seg[a].nattch, seg[a].pte, seg[a].sem)
      BY <2>3, <2>7, <3>1, Zenon DEF Becomes
    <3>3. seg[a].nattch > 0
      BY <2>5, <2>10
    <3>4. Marks(a)
      BY <2>2, <2>3, <3>1, <3>2, <3>3, Zenon DEF Marks, others
    <3> QED
      BY <3>4, Zenon
  <2> QED
    BY <2>9, <2>10
<1>2. CASE Shmat(p)
  <2>1. PICK h \in (0..SeqMod-1) \X Ids : Named(h) /\ Go(p, "vma", [h |-> h, shp |-> shm_segs[h[2]]])
    BY <1>2, Zenon DEF Shmat
  <2>2. h \in Nat \X Ids /\ h[2] \in Ids
    BY <2>1
  <2>3. shm_segs[h[2]] \in Seg
    BY <1>0, <2>1, <2>2, HeldIn, Zenon DEF Named
  <2>4. [h |-> h, shp |-> shm_segs[h[2]]] \in [h : Nat \X Ids, shp : Seg]
    BY <2>2, <2>3
  <2>5. pc[p] = "user" /\ attached[p] = None /\ UNCHANGED <<shm_segs, seg, max_shmid, shm_seq, counts, attached, raced>>
    BY <1>2, Zenon DEF Shmat
  <2>6. Idles(p)
    BY <1>0, <2>1, <2>4, <2>5, GoIdles DEF Outside
  <2> QED
    BY <2>6
<1>3. CASE ShmatAllocated(p)
  <2>1. pc[p] = "vma" /\ UNCHANGED <<shm_segs, max_shmid, shm_seq, counts, attached, raced>>
    BY <1>3, Zenon DEF ShmatAllocated
  <2>2. CASE Done(p) /\ UNCHANGED seg
    <3>1. Idles(p)
      BY <1>0, <2>1, <2>2, GoIdles DEF Outside, Done
    <3> QED
      BY <3>1
  <2>3. CASE /\ StillThere(arg[p].h, arg[p].shp)
             /\ seg' = [seg EXCEPT ![arg[p].shp].nattch = @ + 1] /\ Go(p, "map", arg[p])
    <3> DEFINE a == arg[p].shp
               h == arg[p].h
               r == [seg[a] EXCEPT !.nattch = seg[a].nattch + 1]
    <3>1. h[2] \in Ids /\ a \in Seg
      BY <1>0, <2>1 DEF ArgOK
    <3>2. In(a) /\ seg[a].seq = h[1] /\ seg[a] # None
      BY <1>0, <2>3, <3>1, HeldIn, ZenonT(30) DEF StillThere, Named, In
    <3>3. seg' = [seg EXCEPT ![a] = r]
      BY <2>3, Zenon
    <3> HIDE DEF a, h
    <3>4. seg[a] \in Segment /\ seg[a].nattch \in Int
      BY <1>0, <3>1, <3>2, InFacts, FieldTypes, Zenon
    <3>5. seg[a].nattch + 1 \in Int
      BY <3>4
    <3>6. Fields(r, seg[a].id, seg[a].seq, seg[a].dest, seg[a].nattch + 1, seg[a].pte, seg[a].sem)
      BY <3>4, <3>5, SetNattch, Zenon
    <3>7. Becomes(a, seg[a].seq, seg[a].dest, seg[a].nattch + 1, seg[a].pte, seg[a].sem)
      BY <3>1, <3>2, <3>3, <3>6, Zenon DEF Becomes
    <3> HIDE DEF r
    <3>8. Attaches(p, a)
      BY <2>1, <2>3, <3>2, <3>7, Zenon DEF Attaches, others, a, h
    <3> QED
      BY <3>8, Zenon
  <2> QED
    BY <1>3, <2>2, <2>3, Zenon DEF ShmatAllocated
<1>4. CASE ShmatMapped(p)
  <2>1. pc[p] = "map" /\ raced' = raced /\ arg[p].shp \in Seg
    BY <1>0, <1>4 DEF ShmatMapped, ArgOK
  <2>2. CASE /\ attached' = [attached EXCEPT ![p] = arg[p].shp] /\ Done(p)
             /\ UNCHANGED <<shm_segs, seg, max_shmid, shm_seq, counts>>
    <3>1. Maps(p)
      BY <2>1, <2>2, Zenon DEF Maps, others
    <3> QED
      BY <3>1
  <2>3. CASE Drop(p, arg[p].shp) /\ UNCHANGED attached
    <3>1. attached' = [attached EXCEPT ![p] = None]
      BY <1>0, <2>1, <2>3 DEF Relies, Types
    <3> QED
      BY <2>1, <2>3, <3>1, DropCases, Zenon
  <2> QED
    BY <1>4, <2>2, <2>3, Zenon DEF ShmatMapped
<1>5. CASE Detach(p)
  <2>1. pc[p] = "user" /\ attached[p] \in Seg /\ attached' = [attached EXCEPT ![p] = None]
        /\ Drop(p, attached[p]) /\ raced' = raced
    BY <1>0, <1>5 DEF Detach, Types
  <2> QED
    BY <2>1, DropCases, Zenon
<1> QED
  BY <1>1, <1>2, <1>3, <1>4, <1>5

LEMMA PageCases ==
  ASSUME LifeInv, NEW p \in Proc, Fault(p) \/ FaultEnd(p) \/ (\E q \in Proc : Fork(p, q))
  PROVE  (\E i : Faults(p, i)) \/ FaultFails(p) \/ FaultEnters(p) \/ (\E q \in Proc : Forks(p, q))
<1>0. Types /\ Relies(p) /\ ArgOK(p)
  BY DEF LifeInv, Types
<1> DEFINE a == attached[p]
<1>1. attached[p] # None
  BY <1>0 DEF Fault, FaultEnd, Fork, Relies
<1>2. a \in Seg /\ In(a) /\ seg[a] # None
  BY <1>0, <1>1 DEF Relies, Types, In
<1>3. /\ seg[a] \in Segment /\ seg[a].nattch \in Int /\ seg[a].nattch + 1 \in Int
      /\ seg[a].pte \in [Page -> {"none", "in", "out"}] /\ seg \in [Seg -> Segment \cup {None}]
  <2>1. seg[a] \in Segment /\ seg[a].nattch \in Int /\ seg[a].pte \in [Page -> {"none", "in", "out"}]
    BY <1>0, <1>2, InFacts, FieldTypes, Zenon
  <2> QED
    BY <1>0, <2>1 DEF Types
<1>4. ASSUME NEW q \in Proc, Fork(p, q) PROVE Forks(p, q)
  <2> DEFINE r == [seg[a] EXCEPT !.nattch = seg[a].nattch + 1]
  <2>1. Fields(r, seg[a].id, seg[a].seq, seg[a].dest, seg[a].nattch + 1, seg[a].pte, seg[a].sem)
    BY <1>3, SetNattch, Zenon
  <2>2. seg' = [seg EXCEPT ![a] = r]
    BY <1>4, Zenon DEF Fork
  <2>3. Becomes(a, seg[a].seq, seg[a].dest, seg[a].nattch + 1, seg[a].pte, seg[a].sem)
    BY <1>2, <2>1, <2>2, Zenon DEF Becomes
  <2> QED
    BY <1>4, <2>3, Zenon DEF Fork, Forks, others
<1>5. CASE Fault(p)
  <2>1. PICK i \in Page : /\ seg[a].pte[i] # "in" /\ seg' = [seg EXCEPT ![a].sem = p]
                          /\ Go(p, "fault", [page |-> i, was |-> seg[a].pte[i]])
    BY <1>5, Zenon DEF Fault
  <2> DEFINE r == [seg[a] EXCEPT !.sem = p]
  <2>2. Fields(r, seg[a].id, seg[a].seq, seg[a].dest, seg[a].nattch, seg[a].pte, p)
    <3>1. p \in Proc \cup {None}
      OBVIOUS
    <3> QED
      BY <1>3, <3>1, SetSem, Zenon
  <2>3. Becomes(a, seg[a].seq, seg[a].dest, seg[a].nattch, seg[a].pte, p)
    BY <1>2, <2>1, <2>2, Zenon DEF Becomes
  <2>4. seg[a].pte[i] \in {"none", "out"}
    BY <1>3, <2>1
  <2>5. Faults(p, i)
    BY <1>1, <1>5, <2>1, <2>3, <2>4, Zenon DEF Faults, Fault, Free, others
  <2> QED
    BY <2>5, Zenon
<1>6. CASE FaultEnd(p)
  <2>0. /\ pc[p] = "fault" /\ Done(p) /\ arg[p].page \in Page
        /\ UNCHANGED <<shm_segs, max_shmid, shm_seq, shm_tot, used_segs, attached, raced>>
    BY <1>0, <1>6 DEF FaultEnd, ArgOK
  <2> DEFINE i == arg[p].page
             r == [seg[a] EXCEPT !.sem = None]
             s == [r EXCEPT !.pte = [r.pte EXCEPT ![i] = "in"]]
  <2>1. Fields(r, seg[a].id, seg[a].seq, seg[a].dest, seg[a].nattch, seg[a].pte, None)
    <3>1. None \in Proc \cup {None}
      OBVIOUS
    <3> QED
      BY <1>3, <3>1, SetSem, Zenon
  <2>2. CASE seg' = [seg EXCEPT ![a].sem = None] /\ UNCHANGED <<shm_rss, shm_swp>>
    <3>1. Becomes(a, seg[a].seq, seg[a].dest, seg[a].nattch, seg[a].pte, None)
      BY <1>2, <2>1, <2>2, Zenon DEF Becomes
    <3> QED
      BY <2>0, <2>2, <3>1, Zenon DEF FaultFails, others, counts
  <2>3. CASE /\ seg' = [seg EXCEPT ![a].sem = None, ![a].pte[i] = "in"]
             /\ shm_swp' = (IF arg[p].was = "out" THEN shm_swp - 1 ELSE shm_swp) /\ shm_rss' = shm_rss + 1
    <3>1. Fields(s, r.id, r.seq, r.dest, r.nattch, [r.pte EXCEPT ![i] = "in"], r.sem)
      <4>1. r \in Segment /\ "in" \in {"none", "in", "out"} /\ i \in Page
        BY <2>0, <2>1, Zenon DEF Fields
      <4> HIDE DEF r, i
      <4> QED
        BY <4>1, SetPte, Zenon
    <3>2. Fields(s, seg[a].id, seg[a].seq, seg[a].dest, seg[a].nattch, [seg[a].pte EXCEPT ![i] = "in"], None)
      <4> HIDE DEF r, s
      <4> QED
        BY <2>1, <3>1, Zenon DEF Fields
    <3>3. seg' = [seg EXCEPT ![a] = s]
      <4> DEFINE g == [seg EXCEPT ![a] = r]
      <4>1. seg' = [g EXCEPT ![a] = [g[a] EXCEPT !.pte = [g[a].pte EXCEPT ![i] = "in"]]]
        BY <2>3, Zenon
      <4> HIDE DEF r
      <4>2. g[a] = r
        BY <1>2, <1>3, Zenon
      <4>3. seg' = [g EXCEPT ![a] = s]
        BY <4>1, <4>2, Zenon
      <4> HIDE DEF s
      <4> QED
        BY <1>2, <1>3, <4>3, Zenon
    <3>4. Becomes(a, seg[a].seq, seg[a].dest, seg[a].nattch, [seg[a].pte EXCEPT ![i] = "in"], None)
      BY <1>2, <3>2, <3>3, Zenon DEF Becomes
    <3> QED
      BY <2>0, <2>3, <3>4, Zenon DEF FaultEnters, others
  <2> QED
    BY <1>6, <2>2, <2>3, Zenon DEF FaultEnd
<1> QED
  BY <1>4, <1>5, <1>6

LEMMA TurnCases ==
  ASSUME LifeInv, Swap \/ Unuse, ~raced
  PROVE  \E a, i : Swaps(a, i) \/ Unuses(a, i)
<1>0. Types /\ Table
  BY DEF LifeInv
<1>1. ASSUME NEW id \in Ids, NEW i \in Page, Holds(id), NEW w \in {"none", "in", "out"}, NEW n,
             seg' = [seg EXCEPT ![shm_segs[id]].pte[i] = w],
             shm_swp' = shm_swp + n /\ shm_rss' = shm_rss - n,
             UNCHANGED <<shm_segs, max_shmid, shm_seq, shm_tot, used_segs, attached, pc, arg>>
      PROVE  Turns(shm_segs[id], i, w, n)
  <2> DEFINE a == shm_segs[id]
             r == [seg[a] EXCEPT !.pte = [seg[a].pte EXCEPT ![i] = w]]
  <2>1. a \in Seg /\ In(a) /\ seg[a] # None
    BY <1>0, <1>1, HeldIn, Zenon DEF In
  <2>2. seg[a] \in Segment
    BY <1>0, <2>1, InFacts, Zenon
  <2>3. Fields(r, seg[a].id, seg[a].seq, seg[a].dest, seg[a].nattch, [seg[a].pte EXCEPT ![i] = w], seg[a].sem)
    BY <2>2, SetPte, Zenon
  <2>4. seg' = [seg EXCEPT ![a] = r]
    BY <1>1, Zenon
  <2>5. Becomes(a, seg[a].seq, seg[a].dest, seg[a].nattch, [seg[a].pte EXCEPT ![i] = w], seg[a].sem)
    BY <2>1, <2>3, <2>4, Zenon DEF Becomes
  <2> HIDE DEF r
  <2> QED
    BY <1>1, <2>1, <2>5, Zenon DEF Turns
<1>2. CASE Swap
  <2>1. PICK id \in Ids, i \in Page : /\ Holds(id) /\ seg[shm_segs[id]].pte[i] = "in"
                                      /\ seg' = [seg EXCEPT ![shm_segs[id]].pte[i] = "out"]
    BY <1>2, Zenon DEF Swap
  <2>2. /\ shm_swp' = shm_swp + 1 /\ shm_rss' = shm_rss - 1 /\ raced' = raced
        /\ UNCHANGED <<shm_segs, max_shmid, shm_seq, shm_tot, used_segs, attached, pc, arg>>
    BY <1>2, Zenon DEF Swap
  <2>3. Turns(shm_segs[id], i, "out", 1)
    BY <1>1, <2>1, <2>2, Zenon
  <2> QED
    BY <2>1, <2>2, <2>3, Zenon DEF Swaps
<1>3. CASE Unuse
  <2>1. PICK id \in Ids, i \in Page :
          /\ Holds(id) /\ seg[shm_segs[id]].pte[i] = "out"
          /\ seg' = [seg EXCEPT ![shm_segs[id]].pte[i] = "in"]
          /\ raced' = (raced \/ \E p \in Proc : pc[p] = "fault" /\ attached[p] = shm_segs[id] /\ arg[p].page = i)
    BY <1>3, Zenon DEF Unuse
  <2>2. /\ shm_swp' = shm_swp - 1 /\ shm_rss' = shm_rss + 1
        /\ UNCHANGED <<shm_segs, max_shmid, shm_seq, shm_tot, used_segs, attached, pc, arg>>
    BY <1>3, Zenon DEF Unuse
  <2>3. shm_swp' = shm_swp + (-1) /\ shm_rss' = shm_rss - (-1)
    BY <1>0, <2>2 DEF Types
  <2>4. Turns(shm_segs[id], i, "in", -1)
    BY <1>1, <2>1, <2>2, <2>3, Zenon
  <2>5. /\ raced' \in BOOLEAN
        /\ raced' \/ (~raced /\ \A p \in Proc : pc[p] = "fault" /\ attached[p] = shm_segs[id] => arg[p].page # i)
    BY <2>1, Zenon
  <2>6. Unuses(shm_segs[id], i)
    BY <2>1, <2>4, <2>5 DEF Unuses
  <2> QED
    BY <2>6, Zenon
<1> QED
  BY <1>2, <1>3

LEMMA Cases ==
  ASSUME FiniteLaws, LifeInv, Next
  PROVE  Step
<1>0. Types
  BY DEF LifeInv
<1>1. CASE Swap \/ Unuse
  BY <1>1, TurnCases, Zenon DEF Next, Step
<1>2. ASSUME NEW p \in Proc,
             \/ Shmget(p) \/ FindKeyWoken(p) \/ TakeSlot(p) \/ NewSeg(p) \/ Rmid(p) \/ KillEnd(p)
             \/ Shmat(p) \/ ShmatAllocated(p) \/ ShmatMapped(p) \/ Detach(p) \/ Fault(p) \/ FaultEnd(p)
             \/ \E q \in Proc : Fork(p, q)
      PROVE  Step
  <2>1. ASSUME Shmget(p) PROVE Idles(p)
    <3>1. pc[p] \in Outside /\ UNCHANGED <<shm_segs, seg, max_shmid, shm_seq, counts, attached, raced>>
      BY <2>1 DEF Shmget, Outside
    <3>2. (\E key \in Keys : FindKey(p, key, 0)) \/ NewSegBegin(p, Private)
      BY <2>1, Zenon DEF Shmget
    <3>3. Private \in Key /\ \A key \in Keys : key \in Key
      BY DEF Key
    <3> QED
      BY <1>0, <3>1, <3>2, <3>3, FindKeyIdles, NewSegIdles, Zenon
  <2>2. ASSUME FindKeyWoken(p) PROVE Idles(p)
    <3>1. /\ pc[p] \in Outside /\ UNCHANGED <<shm_segs, seg, max_shmid, shm_seq, counts, attached, raced>>
          /\ FindKey(p, arg[p].key, arg[p].id) /\ arg[p].key \in Key
      BY <1>0, <2>2 DEF FindKeyWoken, Outside, Types, ArgOK
    <3> QED
      BY <1>0, <3>1, FindKeyIdles, Zenon
  <2> QED
    BY <1>0, <1>2, <2>1, <2>2, CreateCases, AttachCases, PageCases, Zenon DEF Step
<1> QED
  BY <1>1, <1>2, Zenon DEF Next
-----------------------------------------------------------------------------
(***************************************************************************)
(* Steps that leave the table alone.                                       *)
(***************************************************************************)

Quiet ==
    /\ UNCHANGED <<shm_segs, max_shmid, shm_seq>> /\ seg' \in [Seg -> Segment \cup {None}]
    /\ \A b \in Seg : /\ seg'[b] = None <=> seg[b] = None
                      /\ seg[b] # None => seg'[b].id = seg[b].id /\ seg'[b].seq = seg[b].seq

CountTypes == shm_tot \in Int /\ shm_rss \in Int /\ shm_swp \in Int /\ used_segs \in Int

(* Process p, if it is one, goes on; the others do not notice.             *)
Alone(p) ==
    /\ pc' \in [Proc -> Pc] /\ DOMAIN arg' = Proc /\ attached' \in [Proc -> Seg \cup {None}]
    /\ \A q \in Proc \ {p} : pc'[q] = pc[q] /\ arg'[q] = arg[q] /\ attached'[q] = attached[q]

Calm(p) ==
    /\ Quiet /\ Alone(p) /\ CountTypes' /\ raced' \in BOOLEAN
    /\ \A q \in Proc \ {p} : pc[q] = "fault" => seg'[attached[q]].sem = seg[attached[q]].sem
    /\ p \in Proc => ArgOK(p)' /\ Relies(p)' /\ pc[p] # "kill" /\ pc'[p] \notin {"alloc", "kill"}

LEMMA QuietIn ==
  ASSUME Types, Quiet, NEW b \in Seg
  PROVE  In(b)' <=> In(b)
<1>1. shm_segs' = shm_segs /\ (seg'[b] = None <=> seg[b] = None) /\ (seg[b] # None => seg'[b].id = seg[b].id)
  BY DEF Quiet
<1> QED
  BY <1>1, Zenon DEF In

LEMMA GoFacts ==
  ASSUME Types, NEW p \in Proc, NEW at \in Pc, NEW x, Go(p, at, x)
  PROVE  /\ pc' \in [Proc -> Pc] /\ DOMAIN arg' = Proc /\ pc'[p] = at /\ arg'[p] = x
         /\ \A q \in Proc \ {p} : pc'[q] = pc[q] /\ arg'[q] = arg[q]
BY DEF Go, Types

LEMMA GoAlone ==
  ASSUME Types, NEW p \in Proc, NEW at \in Pc, NEW x, Go(p, at, x), attached' = attached
  PROVE  Alone(p) /\ pc'[p] = at
<1>1. /\ pc' \in [Proc -> Pc] /\ DOMAIN arg' = Proc /\ pc'[p] = at
      /\ \A q \in Proc \ {p} : pc'[q] = pc[q] /\ arg'[q] = arg[q]
  BY GoFacts, Zenon
<1>2. attached' \in [Proc -> Seg \cup {None}]
  BY DEF Types
<1> QED
  BY <1>1, <1>2, Zenon DEF Alone

(* What is kept of the others in a step that is theirs in nothing.         *)
LEMMA OtherArgs ==
  ASSUME Types, NEW p, Alone(p), NEW q \in Proc \ {p}
  PROVE  ArgOK(q)'
<1>1. pc'[q] = pc[q] /\ arg'[q] = arg[q]
  BY DEF Alone
<1>2. ArgOK(q)
  BY DEF Types
<1> QED
  BY <1>1, <1>2, Zenon DEF ArgOK

LEMMA CalmStep ==
  ASSUME LifeInv, NEW p, Calm(p)
  PROVE  Types' /\ Table' /\ Used' /\ (\A q \in Proc : Relies(q)') /\ Apart'
<1>0. Types /\ Table /\ Used /\ (\A q \in Proc : Relies(q)) /\ Apart
  BY DEF LifeInv
<1>1. Quiet /\ Alone(p)
  BY DEF Calm
<1>2. \A b \in Seg : In(b)' <=> In(b)
  BY <1>0, <1>1, QuietIn, Zenon
<1>3. ASSUME NEW q \in Proc PROVE q = p \/ (pc'[q] = pc[q] /\ arg'[q] = arg[q] /\ attached'[q] = attached[q])
  BY <1>1 DEF Alone
<1>4. \A q \in Proc : ArgOK(q)'
  BY <1>0, <1>1, OtherArgs, Zenon DEF Calm
<1>5. Types'
  <2>1. shm_segs' = shm_segs /\ max_shmid' = max_shmid /\ shm_seq' = shm_seq
    BY <1>1 DEF Quiet
  <2> QED
    BY <1>0, <1>1, <1>4, <2>1, Zenon DEF Types, Quiet, Alone, Calm, CountTypes
<1>6. Table'
  <2>1. shm_segs' = shm_segs /\ max_shmid' = max_shmid
    BY <1>1 DEF Quiet
  <2>2. ASSUME NEW id \in Ids, Holds(id)'
        PROVE  /\ seg'[shm_segs[id]] # None /\ seg'[shm_segs[id]].id = id /\ id <= max_shmid
    <3>1. Holds(id)
      BY <2>1, <2>2, Zenon DEF Holds
    <3>2. shm_segs[id] \in Seg /\ seg[shm_segs[id]] # None /\ seg[shm_segs[id]].id = id /\ id <= max_shmid
      BY <1>0, <3>1, HeldIn DEF Table
    <3> QED
      BY <1>1, <3>2 DEF Quiet
  <2> QED
    BY <2>1, <2>2, Zenon DEF Table
<1>7. Used'
  <2>1. ASSUME NEW a \in Seg, seg'[a] # None PROVE In(a)' \/ \E q \in Proc : Kills(q, a)'
    <3>1. In(a) \/ \E q \in Proc : Kills(q, a)
      BY <1>0, <1>1, <2>1, Zenon DEF Used, Quiet
    <3>2. ASSUME NEW q \in Proc, Kills(q, a) PROVE Kills(q, a)'
      BY <1>3, <3>2, Zenon DEF Kills, Calm
    <3> QED
      BY <1>2, <3>1, <3>2, Zenon
  <2> QED
    BY <2>1, Zenon DEF Used
<1>8. ASSUME NEW q \in Proc PROVE Relies(q)'
  <2>1. CASE q = p
    BY <2>1 DEF Calm
  <2>2. CASE q # p
    <3>1. pc'[q] = pc[q] /\ arg'[q] = arg[q] /\ attached'[q] = attached[q]
      BY <1>3, <2>2
    <3>2. Relies(q) /\ ArgOK(q) /\ attached[q] \in Seg \cup {None} /\ shm_segs' = shm_segs
      BY <1>0, <1>1 DEF Types, Quiet
    <3>3. pc[q] = "map" => arg[q].shp \in Seg
      BY <3>2 DEF ArgOK
    <3>4. \A b \in Seg : seg'[b] # None /\ shm_segs'[seg'[b].id] = b <=> In(b)
      BY <1>2 DEF In
    <3>5. attached[q] # None => seg'[attached[q]] # None /\ shm_segs'[seg'[attached[q]].id] = attached[q]
      BY <3>2, <3>4, Zenon DEF Relies
    <3>6. pc[q] = "map" => /\ seg'[arg[q].shp] # None /\ shm_segs'[seg'[arg[q].shp].id] = arg[q].shp
                           /\ seg'[arg[q].shp].seq = arg[q].h[1]
      <4> SUFFICES ASSUME pc[q] = "map"
                   PROVE  /\ seg'[arg[q].shp] # None /\ shm_segs'[seg'[arg[q].shp].id] = arg[q].shp
                          /\ seg'[arg[q].shp].seq = arg[q].h[1]
        OBVIOUS
      <4>1. arg[q].shp \in Seg /\ In(arg[q].shp) /\ seg[arg[q].shp].seq = arg[q].h[1]
        BY <3>2, <3>3 DEF Relies
      <4>2. seg'[arg[q].shp].seq = seg[arg[q].shp].seq
        BY <1>1, <4>1 DEF Quiet, In
      <4> QED
        BY <3>4, <4>1, <4>2, Zenon
    <3>7. pc[q] = "kill" => /\ seg'[arg[q]] # None
                            /\ ~(seg'[arg[q]] # None /\ shm_segs'[seg'[arg[q]].id] = arg[q])
      <4> SUFFICES ASSUME pc[q] = "kill"
                   PROVE  /\ seg'[arg[q]] # None
                          /\ ~(seg'[arg[q]] # None /\ shm_segs'[seg'[arg[q]].id] = arg[q])
        OBVIOUS
      <4>1. arg[q] \in Seg /\ seg[arg[q]] # None /\ ~In(arg[q])
        BY <3>2 DEF Relies, ArgOK
      <4>2. seg'[arg[q]] # None
        BY <1>1, <4>1 DEF Quiet
      <4> QED
        BY <3>4, <4>1, <4>2, Zenon
    <3>8. pc[q] = "fault" => attached[q] # None /\ seg'[attached[q]].sem = q
      BY <2>2, <3>2, Zenon DEF Relies, Calm
    <3> QED
      BY <3>1, <3>2, <3>5, <3>6, <3>7, <3>8, Zenon DEF Relies, In
  <2> QED
    BY <2>1, <2>2
<1>9. Apart'
  <2>1. ASSUME NEW q \in Proc, pc'[q] \in {"alloc", "kill"} PROVE pc'[q] = pc[q] /\ arg'[q] = arg[q]
    BY <1>3, <2>1, Zenon DEF Calm
  <2>2. ASSUME NEW q \in Proc, NEW r \in Proc, q # r
        PROVE  /\ pc'[q] = "alloc" /\ pc'[r] = "alloc" => arg'[q].id # arg'[r].id
               /\ pc'[q] = "kill" /\ pc'[r] = "kill" => arg'[q] # arg'[r]
    <3>1. CASE pc'[q] = "alloc" /\ pc'[r] = "alloc"
      BY <1>0, <2>1, <2>2, <3>1 DEF Apart
    <3>2. CASE pc'[q] = "kill" /\ pc'[r] = "kill"
      BY <1>0, <2>1, <2>2, <3>2 DEF Apart
    <3> QED
      BY <3>1, <3>2
  <2> QED
    BY <2>2, Zenon DEF Apart
<1> QED
  BY <1>5, <1>6, <1>7, <1>8, <1>9

LEMMA BecomesQuiet ==
  ASSUME LifeInv, NEW p, NEW a, NEW d, NEW n, NEW t, NEW m, Becomes(a, seg[a].seq, d, n, t, m),
         m = seg[a].sem \/ seg[a].sem \notin Proc \ {p}, UNCHANGED <<shm_segs, max_shmid, shm_seq>>
  PROVE  /\ Quiet /\ seg'[a].sem = m
         /\ \A q \in Proc \ {p} : pc[q] = "fault" => seg'[attached[q]].sem = seg[attached[q]].sem
<1>0. Types /\ \A q \in Proc : Relies(q)
  BY DEF LifeInv
<1>1. /\ seg' \in [Seg -> Segment \cup {None}] /\ a \in Seg /\ seg[a] # None /\ seg'[a] # None
      /\ \A b \in Seg \ {a} : seg'[b] = seg[b]
      /\ seg'[a].id = seg[a].id /\ seg'[a].seq = seg[a].seq /\ seg'[a].sem = m
  BY <1>0, BecomesFacts
<1>2. Quiet
  BY <1>1 DEF Quiet
<1>3. ASSUME NEW q \in Proc \ {p}, pc[q] = "fault" PROVE seg'[attached[q]].sem = seg[attached[q]].sem
  <2>1. attached[q] \in Seg /\ seg[attached[q]].sem = q
    BY <1>0, <1>3 DEF Relies, Types
  <2>2. CASE attached[q] = a
    BY <1>1, <1>3, <2>1, <2>2, Zenon
  <2>3. CASE attached[q] # a
    BY <1>1, <2>1, <2>3
  <2> QED
    BY <2>2, <2>3
<1> QED
  BY <1>1, <1>2, <1>3

LEMMA CalmGo ==
  ASSUME LifeInv, NEW p \in Proc, NEW at \in Pc \ {"alloc", "kill"}, NEW x, Go(p, at, x), pc[p] # "kill",
         NEW v \in Seg \cup {None}, attached' = [attached EXCEPT ![p] = v], v # None => In(v),
         Quiet, CountTypes', raced' = raced, ArgOK(p)',
         \A q \in Proc \ {p} : pc[q] = "fault" => seg'[attached[q]].sem = seg[attached[q]].sem,
         at \in {"vma", "map"} => v = None,
         at = "map" => x.shp \in Seg /\ In(x.shp) /\ seg[x.shp].seq = x.h[1],
         at = "fault" => v # None /\ seg'[v].sem = p
  PROVE  Calm(p)
<1>0. Types
  BY DEF LifeInv
<1>1. /\ pc' \in [Proc -> Pc] /\ DOMAIN arg' = Proc /\ pc'[p] = at /\ arg'[p] = x
      /\ \A q \in Proc \ {p} : pc'[q] = pc[q] /\ arg'[q] = arg[q]
  <2>1. at \in Pc
    OBVIOUS
  <2> QED
    BY <1>0, <2>1, GoFacts, Zenon
<1>2. attached' \in [Proc -> Seg \cup {None}] /\ attached'[p] = v /\ \A q \in Proc \ {p} : attached'[q] = attached[q]
  BY <1>0 DEF Types
<1>3. Alone(p)
  BY <1>1, <1>2, Zenon DEF Alone
<1>4. \A b \in Seg : In(b) => seg'[b] # None /\ shm_segs'[seg'[b].id] = b /\ seg'[b].seq = seg[b].seq
  BY <1>0 DEF Quiet, In
<1>5. Relies(p)'
  <2>1. v # None => seg'[v] # None /\ shm_segs'[seg'[v].id] = v
    BY <1>4, Zenon
  <2>2. at = "map" => /\ seg'[x.shp] # None /\ shm_segs'[seg'[x.shp].id] = x.shp
                      /\ seg'[x.shp].seq = x.h[1]
    BY <1>4, Zenon
  <2>3. at # "alloc" /\ at # "kill"
    OBVIOUS
  <2> QED
    BY <1>1, <1>2, <2>1, <2>2, <2>3, Zenon DEF Relies, In
<1>6. raced' \in BOOLEAN
  BY <1>0, Zenon DEF Types
<1> QED
  BY <1>1, <1>3, <1>5, <1>6, Zenon DEF Calm

LEMMA UserArg ==
  ASSUME NEW p, pc'[p] = "user"
  PROVE  ArgOK(p)'
BY DEF ArgOK

(* A process stays attached, or not, as it was.                            *)
LEMMA SameAttached ==
  ASSUME LifeInv, NEW p \in Proc, attached' = attached
  PROVE  /\ attached[p] \in Seg \cup {None}
         /\ attached[p] # None => In(attached[p])
         /\ attached' = [attached EXCEPT ![p] = attached[p]]
BY DEF LifeInv, Relies, Types

LEMMA SeqStays ==
  ASSUME Types, UNCHANGED <<others, seg>>
  PROVE  Quiet /\ raced' = raced /\ \A q \in Proc : seg'[attached[q]].sem = seg[attached[q]].sem
BY DEF Types, others, Quiet

LEMMA CallsCalm ==
  ASSUME LifeInv, NEW p \in Proc, Idles(p) \/ (\E a : Attaches(p, a)) \/ Maps(p) \/ \E a : Leaves(p, a)
  PROVE  Calm(p)
<1>0. Types /\ Relies(p) /\ ArgOK(p)
  BY DEF LifeInv, Types
<1>1. CASE Idles(p)
  <2>1. PICK at, x : Go(p, at, x)
    BY <1>1, Zenon DEF Idles
  <2>2. pc'[p] = at /\ pc'[p] \in Outside /\ ArgOK(p)' /\ pc[p] \in Outside /\ (pc'[p] = "vma" => attached[p] = None)
    BY <1>0, <1>1, <2>1 DEF Idles, Go, Types
  <2>3. at \in Pc \ {"alloc", "kill"} /\ at # "map" /\ at # "fault" /\ pc[p] # "kill"
    BY <2>2 DEF Outside, Pc
  <2>4. UNCHANGED <<others, seg>> /\ attached' = attached /\ CountTypes'
    BY <1>0, <1>1 DEF Idles, counts, Types, CountTypes
  <2>5. Quiet /\ raced' = raced /\ \A q \in Proc : seg'[attached[q]].sem = seg[attached[q]].sem
    BY <1>0, <2>4, SeqStays, Zenon
  <2>6. /\ attached[p] \in Seg \cup {None}
        /\ attached[p] # None => In(attached[p])
        /\ attached' = [attached EXCEPT ![p] = attached[p]]
    BY <2>4, SameAttached, Zenon
  <2> QED
    BY <2>1, <2>2, <2>3, <2>4, <2>5, <2>6, CalmGo, Zenon
<1>2. ASSUME NEW a, Attaches(p, a) PROVE Calm(p)
  <2>1. /\ pc[p] = "vma" /\ a = arg[p].shp /\ In(a) /\ seg[a].seq = arg[p].h[1]
        /\ Becomes(a, seg[a].seq, seg[a].dest, seg[a].nattch + 1, seg[a].pte, seg[a].sem)
        /\ Go(p, "map", arg[p]) /\ attached' = attached /\ raced' = raced /\ CountTypes'
        /\ UNCHANGED <<shm_segs, max_shmid, shm_seq>>
    BY <1>0, <1>2 DEF Attaches, others, counts, Types, CountTypes
  <2>2. arg[p] \in [h : Nat \X Ids, shp : Seg] /\ a \in Seg /\ attached[p] = None
    BY <1>0, <2>1 DEF ArgOK, Relies
  <2>3. Quiet /\ \A q \in Proc \ {p} : pc[q] = "fault" => seg'[attached[q]].sem = seg[attached[q]].sem
    BY <2>1, BecomesQuiet, Zenon
  <2>4. pc'[p] = "map" /\ arg'[p] = arg[p]
    BY <1>0, <2>1 DEF Go, Types
  <2>5. ArgOK(p)'
    BY <2>2, <2>4 DEF ArgOK
  <2>6. /\ attached[p] \in Seg \cup {None}
        /\ attached[p] # None => In(attached[p])
        /\ attached' = [attached EXCEPT ![p] = attached[p]]
    BY <2>1, SameAttached, Zenon
  <2>7. "map" \in Pc \ {"alloc", "kill"} /\ pc[p] # "kill" /\ "map" # "fault"
    BY <2>1 DEF Pc
  <2>8. arg[p].shp \in Seg /\ In(arg[p].shp) /\ seg[arg[p].shp].seq = arg[p].h[1]
    BY <2>1, <2>2, Zenon
  <2> QED
    BY <2>1, <2>2, <2>3, <2>5, <2>6, <2>7, <2>8, CalmGo, ZenonT(30)
<1>3. CASE Maps(p)
  <2>1. /\ pc[p] = "map" /\ Go(p, "user", None) /\ attached' = [attached EXCEPT ![p] = arg[p].shp]
        /\ UNCHANGED <<others, seg>> /\ CountTypes'
    BY <1>0, <1>3 DEF Maps, Done, counts, Types, CountTypes
  <2>2. Quiet /\ raced' = raced /\ \A q \in Proc : seg'[attached[q]].sem = seg[attached[q]].sem
    BY <1>0, <2>1, SeqStays, Zenon
  <2>3. arg[p].shp \in Seg \cup {None} /\ In(arg[p].shp)
    BY <1>0, <2>1 DEF ArgOK, Relies
  <2>4. ArgOK(p)'
    BY <1>0, <2>1, UserArg DEF Go, Types
  <2>5. "user" \in Pc \ {"alloc", "kill"} /\ pc[p] # "kill" /\ "user" \notin {"vma", "map"} /\ "user" # "fault"
    BY <2>1 DEF Pc
  <2> QED
    BY <2>1, <2>2, <2>3, <2>4, <2>5, CalmGo, Zenon
<1>4. ASSUME NEW a, Leaves(p, a) PROVE Calm(p)
  <2>1. /\ pc[p] \in {"user", "map"} /\ Go(p, "user", None) /\ attached' = [attached EXCEPT ![p] = None]
        /\ Becomes(a, seg[a].seq, seg[a].dest, seg[a].nattch - 1, seg[a].pte, seg[a].sem)
        /\ UNCHANGED <<shm_segs, max_shmid, shm_seq, raced>> /\ CountTypes'
    BY <1>0, <1>4 DEF Leaves, Done, others, counts, Types, CountTypes
  <2>2. Quiet /\ \A q \in Proc \ {p} : pc[q] = "fault" => seg'[attached[q]].sem = seg[attached[q]].sem
    BY <2>1, BecomesQuiet, Zenon
  <2>3. ArgOK(p)'
    BY <1>0, <2>1, UserArg DEF Go, Types
  <2>4. "user" \in Pc \ {"alloc", "kill"} /\ pc[p] # "kill" /\ "user" \notin {"vma", "map"} /\ "user" # "fault"
    BY <2>1 DEF Pc
  <2>5. None \in Seg \cup {None} /\ raced' = raced
    BY <2>1
  <2> QED
    BY <2>1, <2>2, <2>3, <2>4, <2>5, CalmGo, Zenon
<1> QED
  BY <1>1, <1>2, <1>3, <1>4

LEMMA FaultsCalm ==
  ASSUME LifeInv, NEW p \in Proc, (\E i : Faults(p, i)) \/ FaultFails(p) \/ FaultEnters(p)
  PROVE  Calm(p)
<1>0. Types /\ Relies(p) /\ ArgOK(p)
  BY DEF LifeInv, Types
<1> DEFINE a == attached[p]
<1>1. ASSUME attached' = attached
      PROVE  /\ attached[p] \in Seg \cup {None}
             /\ attached[p] # None => In(attached[p])
             /\ attached' = [attached EXCEPT ![p] = attached[p]]
  BY <1>1, SameAttached, Zenon
<1>2. ASSUME NEW i, Faults(p, i) PROVE Calm(p)
  <2>1. /\ pc[p] = "user" /\ a # None /\ i \in Page /\ seg[a].sem = None /\ seg[a].pte[i] \in {"none", "out"}
        /\ Becomes(a, seg[a].seq, seg[a].dest, seg[a].nattch, seg[a].pte, p)
        /\ Go(p, "fault", [page |-> i, was |-> seg[a].pte[i]])
        /\ attached' = attached /\ raced' = raced /\ CountTypes' /\ UNCHANGED <<shm_segs, max_shmid, shm_seq>>
    BY <1>0, <1>2 DEF Faults, others, counts, Types, CountTypes
  <2>2. seg[a].sem \notin Proc \ {p}
    BY <2>1, Consts
  <2>3. /\ Quiet /\ seg'[a].sem = p
        /\ \A q \in Proc \ {p} : pc[q] = "fault" => seg'[attached[q]].sem = seg[attached[q]].sem
    BY <2>1, <2>2, BecomesQuiet, Zenon
  <2>4. pc'[p] = "fault" /\ arg'[p] = [page |-> i, was |-> seg[a].pte[i]]
    BY <1>0, <2>1 DEF Go, Types
  <2>5. ArgOK(p)'
    BY <2>1, <2>4 DEF ArgOK
  <2>6. "fault" \in Pc \ {"alloc", "kill"} /\ pc[p] # "kill" /\ "fault" \notin {"vma", "map"}
    BY <2>1 DEF Pc
  <2> QED
    BY <1>1, <2>1, <2>3, <2>5, <2>6, CalmGo
<1>3. ASSUME pc[p] = "fault", Done(p), NEW t, Becomes(a, seg[a].seq, seg[a].dest, seg[a].nattch, t, None),
             attached' = attached, raced' = raced, CountTypes', UNCHANGED <<shm_segs, max_shmid, shm_seq>>
      PROVE  Calm(p)
  <2>1. seg[a].sem \notin Proc \ {p} /\ Go(p, "user", None)
    BY <1>0, <1>3 DEF Relies, Done
  <2>2. Quiet /\ \A q \in Proc \ {p} : pc[q] = "fault" => seg'[attached[q]].sem = seg[attached[q]].sem
    BY <1>3, <2>1, BecomesQuiet, Zenon
  <2>3. ArgOK(p)'
    BY <1>0, <2>1, UserArg DEF Go, Types
  <2>4. "user" \in Pc \ {"alloc", "kill"} /\ pc[p] # "kill" /\ "user" \notin {"vma", "map"} /\ "user" # "fault"
    BY <1>3 DEF Pc
  <2> QED
    BY <1>1, <1>3, <2>1, <2>2, <2>3, <2>4, CalmGo
<1>4. CASE FaultFails(p)
  <2>1. CountTypes' /\ UNCHANGED <<shm_segs, max_shmid, shm_seq>> /\ attached' = attached /\ raced' = raced
    BY <1>0, <1>4 DEF FaultFails, others, counts, Types, CountTypes
  <2> HIDE DEF a
  <2> QED
    BY <1>3, <1>4, <2>1, Zenon DEF FaultFails, a
<1>5. CASE FaultEnters(p)
  <2>1. CountTypes' /\ UNCHANGED <<shm_segs, max_shmid, shm_seq>> /\ attached' = attached /\ raced' = raced
    BY <1>0, <1>5 DEF FaultEnters, others, Types, CountTypes
  <2> HIDE DEF a
  <2> QED
    BY <1>3, <1>5, <2>1, Zenon DEF FaultEnters, a
<1> QED
  BY <1>2, <1>4, <1>5

LEMMA ForkCalm ==
  ASSUME LifeInv, NEW p \in Proc, NEW q \in Proc, Forks(p, q)
  PROVE  Calm(q)
<1>0. Types
  BY DEF LifeInv
<1> DEFINE a == attached[p]
<1>1. /\ pc[q] = "user" /\ a # None /\ attached[q] = None
      /\ Becomes(a, seg[a].seq, seg[a].dest, seg[a].nattch + 1, seg[a].pte, seg[a].sem)
      /\ attached' = [attached EXCEPT ![q] = a] /\ pc' = pc /\ arg' = arg
      /\ UNCHANGED <<shm_segs, max_shmid, shm_seq>> /\ raced' = raced /\ CountTypes'
  BY <1>0 DEF Forks, others, counts, Types, CountTypes
<1>2. a \in Seg /\ In(a)
  BY <1>1 DEF LifeInv, Relies, Types
<1>3. Quiet /\ \A r \in Proc \ {q} : pc[r] = "fault" => seg'[attached[r]].sem = seg[attached[r]].sem
  BY <1>1, BecomesQuiet, Zenon
<1>4. ArgOK(q)'
  BY <1>1, UserArg
<1>5. Alone(q) /\ attached'[q] = a
  BY <1>0, <1>1, <1>2 DEF Types, Alone
<1>6. seg'[a] # None /\ shm_segs'[seg'[a].id] = a
  BY <1>2, <1>3 DEF Quiet, In
<1>7. Relies(q)'
  BY <1>1, <1>5, <1>6 DEF Relies, In
<1>8. pc[q] # "kill" /\ pc'[q] \notin {"alloc", "kill"} /\ raced' \in BOOLEAN
  BY <1>0, <1>1 DEF Types
<1> QED
  BY <1>1, <1>3, <1>4, <1>5, <1>7, <1>8, Zenon DEF Calm

LEMMA OthersCalm ==
  ASSUME LifeInv, \E a : Marks(a) \/ \E i : Swaps(a, i) \/ Unuses(a, i)
  PROVE  Calm(None)
<1>0. Types
  BY DEF LifeInv
<1>1. ASSUME NEW a, NEW d, NEW n, NEW t, Becomes(a, seg[a].seq, d, n, t, seg[a].sem), CountTypes', raced' \in BOOLEAN,
             UNCHANGED <<shm_segs, max_shmid, shm_seq, attached, pc, arg>>
      PROVE  Calm(None)
  <2>1. Quiet /\ \A q \in Proc \ {None} : pc[q] = "fault" => seg'[attached[q]].sem = seg[attached[q]].sem
    BY <1>1, BecomesQuiet, Zenon
  <2>2. Alone(None)
    BY <1>0, <1>1 DEF Alone, Types
  <2> QED
    BY <1>1, <2>1, <2>2, Consts, Zenon DEF Calm
<1>2. ASSUME NEW a, Marks(a) PROVE Calm(None)
  <2>1. /\ Becomes(a, seg[a].seq, TRUE, seg[a].nattch, seg[a].pte, seg[a].sem)
        /\ CountTypes' /\ raced' \in BOOLEAN /\ UNCHANGED <<shm_segs, max_shmid, shm_seq, attached, pc, arg>>
    BY <1>0, <1>2, Zenon DEF Marks, others, counts, Types, CountTypes
  <2> QED
    BY <1>1, <2>1, Zenon
<1>3. ASSUME NEW a, NEW i, Swaps(a, i) \/ Unuses(a, i) PROVE Calm(None)
  <2>1. PICK w, n : n \in Int /\ Turns(a, i, w, n) /\ raced' \in BOOLEAN
    <3>1. -1 \in Int /\ 1 \in Int /\ raced \in BOOLEAN
      BY <1>0 DEF Types
    <3>2. CASE Swaps(a, i)
      BY <3>1, <3>2, Zenon DEF Swaps
    <3>3. CASE Unuses(a, i)
      <4>1. Turns(a, i, "in", -1) /\ raced' \in BOOLEAN
        BY <3>3 DEF Unuses
      <4> QED
        BY <3>1, <4>1
    <3> QED
      BY <1>3, <3>2, <3>3
  <2>2. /\ Becomes(a, seg[a].seq, seg[a].dest, seg[a].nattch, [seg[a].pte EXCEPT ![i] = w], seg[a].sem)
        /\ CountTypes' /\ UNCHANGED <<shm_segs, max_shmid, shm_seq, attached, pc, arg>>
    BY <1>0, <2>1 DEF Turns, Types, CountTypes
  <2> QED
    BY <1>1, <2>1, <2>2, Zenon
<1> QED
  BY <1>2, <1>3, Zenon
-----------------------------------------------------------------------------
(***************************************************************************)
(* Steps that change the table, on account of structure a.                 *)
(***************************************************************************)

AllBut(a) ==
    /\ seg' \in [Seg -> Segment \cup {None}]
    /\ \A b \in Seg \ {a} : seg'[b] = seg[b] /\ (In(b)' <=> In(b))

LEMMA SlotIn ==
  ASSUME Types, NEW k \in Ids, NEW v, shm_segs' = [shm_segs EXCEPT ![k] = v],
         NEW b \in Seg, seg'[b] = seg[b], v # b, shm_segs[k] # b
  PROVE  In(b)' <=> In(b)
<1>1. CASE seg[b] = None
  BY <1>1, Zenon DEF In
<1>2. CASE seg[b] # None
  <2>1. seg[b].id \in Ids
    BY <1>2, InFacts, Zenon
  <2>2. shm_segs'[seg[b].id] = b <=> shm_segs[seg[b].id] = b
    BY <2>1 DEF Types
  <2> QED
    BY <2>2, Zenon DEF In
<1> QED
  BY <1>1, <1>2

LEMMA SlotTable ==
  ASSUME Types, Table, NEW a, AllBut(a), NEW k \in Ids, NEW v, shm_segs' = [shm_segs EXCEPT ![k] = v],
         \A id \in Ids \ {k} : Holds(id) => shm_segs[id] # a /\ id <= max_shmid',
         v \notin {Unused, NoId} => seg'[v] # None /\ seg'[v].id = k /\ k <= max_shmid'
  PROVE  Table'
<1>1. ASSUME NEW id \in Ids, Holds(id)'
      PROVE  seg'[shm_segs'[id]] # None /\ seg'[shm_segs'[id]].id = id /\ id <= max_shmid'
  <2>1. CASE id = k
    <3>1. shm_segs'[id] = v
      BY <2>1 DEF Types
    <3> QED
      BY <1>1, <2>1, <3>1, Zenon DEF Holds
  <2>2. CASE id # k
    <3>1. shm_segs'[id] = shm_segs[id]
      BY <2>2 DEF Types
    <3>2. Holds(id)
      BY <1>1, <3>1, Zenon DEF Holds
    <3>3. shm_segs[id] \in Seg \ {a} /\ seg[shm_segs[id]] # None /\ seg[shm_segs[id]].id = id
      BY <2>2, <3>2, HeldIn DEF In
    <3>4. seg'[shm_segs[id]] = seg[shm_segs[id]]
      BY <3>3, Zenon DEF AllBut
    <3> QED
      BY <2>2, <3>1, <3>2, <3>3, <3>4
  <2> QED
    BY <2>1, <2>2
<1> QED
  BY <1>1, Zenon DEF Table

LEMMA SlotStep ==
  ASSUME LifeInv, NEW p \in Proc, NEW a, AllBut(a), Alone(p),
         a \in Seg /\ In(a) => Attaching(a) \subseteq {p},
         a \in Seg /\ seg'[a] # None => In(a)' \/ Kills(p, a)',
         pc[p] = "kill" => arg[p] = a,
         \A q \in Proc \ {p} : /\ pc[q] = "kill" => arg[q] # a
                               /\ pc[q] = "alloc" => shm_segs'[arg[q].id] = NoId
                               /\ pc'[p] = "alloc" /\ pc[q] = "alloc" => arg'[p].id # arg[q].id
                               /\ pc'[p] = "kill" /\ pc[q] = "kill" => arg'[p] # arg[q]
  PROVE  Used' /\ Apart' /\ \A q \in Proc \ {p} : Relies(q)'
<1>0. Types /\ Used /\ (\A q \in Proc : Relies(q)) /\ Apart
  BY DEF LifeInv
<1>1. \A q \in Proc \ {p} : pc'[q] = pc[q] /\ arg'[q] = arg[q] /\ attached'[q] = attached[q]
  BY DEF Alone
<1>2. \A b \in Seg \ {a} : seg'[b] = seg[b] /\ (In(b)' <=> In(b))
  BY DEF AllBut
<1>3. Used'
  <2>1. ASSUME NEW b \in Seg, seg'[b] # None PROVE In(b)' \/ \E q \in Proc : Kills(q, b)'
    <3>1. CASE b = a
      BY <2>1, <3>1, Zenon
    <3>2. CASE b # a
      <4>1. In(b) \/ \E q \in Proc : Kills(q, b)
        BY <1>0, <1>2, <2>1, <3>2, Zenon DEF Used
      <4>2. ASSUME NEW q \in Proc, Kills(q, b) PROVE Kills(q, b)'
        BY <1>1, <3>2, <4>2, Zenon DEF Kills
      <4> QED
        BY <1>2, <3>2, <4>1, <4>2, Zenon
    <3> QED
      BY <3>1, <3>2
  <2> QED
    BY <2>1, Zenon DEF Used
<1>4. Apart'
  <2>1. ASSUME NEW q \in Proc, NEW r \in Proc, q # r
        PROVE  /\ pc'[q] = "alloc" /\ pc'[r] = "alloc" => arg'[q].id # arg'[r].id
               /\ pc'[q] = "kill" /\ pc'[r] = "kill" => arg'[q] # arg'[r]
    <3>1. CASE q # p /\ r # p
      BY <1>0, <1>1, <2>1, <3>1 DEF Apart
    <3>2. CASE q = p
      <4>1. r \in Proc \ {p} /\ pc'[r] = pc[r] /\ arg'[r] = arg[r]
        BY <1>1, <2>1, <3>2
      <4>2. /\ pc'[p] = "alloc" /\ pc[r] = "alloc" => arg'[p].id # arg[r].id
            /\ pc'[p] = "kill" /\ pc[r] = "kill" => arg'[p] # arg[r]
        BY <4>1
      <4> QED
        BY <3>2, <4>1, <4>2
    <3>3. CASE r = p
      <4>1. q \in Proc \ {p} /\ pc'[q] = pc[q] /\ arg'[q] = arg[q]
        BY <1>1, <2>1, <3>3
      <4>2. /\ pc'[p] = "alloc" /\ pc[q] = "alloc" => arg'[p].id # arg[q].id
            /\ pc'[p] = "kill" /\ pc[q] = "kill" => arg'[p] # arg[q]
        BY <4>1
      <4> QED
        BY <3>3, <4>1, <4>2
    <3> QED
      BY <3>1, <3>2, <3>3
  <2> QED
    BY <2>1, Zenon DEF Apart
<1>5. ASSUME NEW q \in Proc \ {p} PROVE Relies(q)'
  <2>1. pc'[q] = pc[q] /\ arg'[q] = arg[q] /\ attached'[q] = attached[q]
    BY <1>1
  <2>2. Relies(q) /\ ArgOK(q) /\ attached[q] \in Seg \cup {None}
    BY <1>0 DEF Types
  <2>3. ASSUME NEW b \in Seg, q \in Attaching(b), In(b)
        PROVE  seg'[b] = seg[b] /\ seg'[b] # None /\ shm_segs'[seg'[b].id] = b
    <3>1. b # a
      BY <2>3
    <3> QED
      BY <1>2, <2>3, <3>1, Zenon DEF In
  <2>4. attached[q] # None => /\ seg'[attached[q]] # None /\ shm_segs'[seg'[attached[q]].id] = attached[q]
                              /\ seg'[attached[q]] = seg[attached[q]]
    <3>1. ASSUME attached[q] # None PROVE attached[q] \in Seg /\ q \in Attaching(attached[q]) /\ In(attached[q])
      BY <2>2, <3>1 DEF Relies, Attaching
    <3> QED
      BY <2>3, <3>1, Zenon
  <2>5. pc[q] = "map" => /\ seg'[arg[q].shp] # None /\ shm_segs'[seg'[arg[q].shp].id] = arg[q].shp
                         /\ seg'[arg[q].shp].seq = arg[q].h[1]
    <3>1. ASSUME pc[q] = "map"
          PROVE  /\ arg[q].shp \in Seg /\ q \in Attaching(arg[q].shp) /\ In(arg[q].shp)
                 /\ seg[arg[q].shp].seq = arg[q].h[1]
      BY <2>2, <3>1 DEF Relies, Attaching, ArgOK
    <3> QED
      BY <2>3, <3>1, Zenon
  <2>6. pc[q] = "kill" => /\ seg'[arg[q]] # None
                          /\ ~(seg'[arg[q]] # None /\ shm_segs'[seg'[arg[q]].id] = arg[q])
    <3>1. ASSUME pc[q] = "kill" PROVE arg[q] \in Seg \ {a} /\ seg[arg[q]] # None /\ ~In(arg[q])
      BY <2>2, <3>1 DEF Relies, ArgOK
    <3>2. \A b \in Seg \ {a} : seg'[b] = seg[b] /\ ((seg'[b] # None /\ shm_segs'[seg'[b].id] = b) <=> In(b))
      BY <1>2 DEF In
    <3> QED
      BY <3>1, <3>2, Zenon
  <2> QED
    BY <2>1, <2>2, <2>4, <2>5, <2>6, Zenon DEF Relies, In
<1> QED
  BY <1>3, <1>4, <1>5

LEMMA TypesSlot ==
  ASSUME Types, NEW p \in Proc, Alone(p), ArgOK(p)', seg' \in [Seg -> Segment \cup {None}],
         shm_segs' \in [Ids -> Seg \cup {Unused, NoId}], max_shmid' \in Int, shm_seq' \in Nat, CountTypes',
         raced' = raced
  PROVE  Types'
<1>1. \A q \in Proc : ArgOK(q)'
  BY OtherArgs, Zenon
<1> QED
  BY <1>1, Zenon DEF Types, Alone, CountTypes

(* The attach of p, and what it maps, is kept.                             *)
LEMMA StaysIn ==
  ASSUME LifeInv, NEW p \in Proc, NEW a, AllBut(a), attached[p] # None, attached[p] # a
  PROVE  seg'[attached[p]] # None /\ shm_segs'[seg'[attached[p]].id] = attached[p]
<1>1. attached[p] \in Seg \ {a} /\ In(attached[p])
  BY DEF LifeInv, Relies, Types
<1>2. \A b \in Seg \ {a} : In(b) => seg'[b] # None /\ shm_segs'[seg'[b].id] = b
  BY DEF AllBut, In
<1> QED
  BY <1>1, <1>2, Zenon

LEMMA SlotChange ==
  ASSUME LifeInv, NEW p \in Proc, (\E id : TakesSlot(p, id)) \/ GivesBack(p)
  PROVE  Types' /\ Table' /\ Used' /\ (\A q \in Proc : Relies(q)') /\ Apart' /\ AllBut(None)
<1>0. Types /\ Table /\ ArgOK(p) /\ Relies(p) /\ Apart /\ \A q \in Proc : Relies(q) /\ ArgOK(q)
  BY DEF LifeInv, Types
<1>1. PICK id \in Ids, v \in {Unused, NoId} :
            /\ shm_segs[id] \in {Unused, NoId} /\ shm_segs' = [shm_segs EXCEPT ![id] = v]
            /\ \/ pc[p] = "expand" /\ shm_segs[id] = Unused /\ Go(p, "alloc", [key |-> arg[p].key, id |-> id]) /\ v = NoId
               \/ pc[p] = "alloc" /\ id = arg[p].id /\ Go(p, "user", None)
  <2>1. ASSUME NEW id, TakesSlot(p, id)
        PROVE  /\ id \in Ids /\ shm_segs[id] = Unused /\ shm_segs' = [shm_segs EXCEPT ![id] = NoId] /\ pc[p] = "expand"
               /\ Go(p, "alloc", [key |-> arg[p].key, id |-> id])
    BY <2>1 DEF TakesSlot
  <2>2. ASSUME GivesBack(p)
        PROVE  /\ arg[p].id \in Ids /\ shm_segs[arg[p].id] = NoId /\ pc[p] = "alloc" /\ Go(p, "user", None)
               /\ shm_segs' = [shm_segs EXCEPT ![arg[p].id] = Unused]
    BY <1>0, <2>2 DEF GivesBack, Done, Relies, ArgOK
  <2> QED
    BY <2>1, <2>2, Zenon
<1>2. /\ seg' = seg /\ max_shmid' = max_shmid /\ shm_seq' = shm_seq /\ CountTypes' /\ attached' = attached
      /\ raced' = raced
  BY <1>0, Zenon DEF TakesSlot, GivesBack, counts, CountTypes, Types
<1>3. "alloc" \in Pc /\ "user" \in Pc
  BY DEF Pc
<1>4. /\ Alone(p)
      /\ \/ /\ pc'[p] = "alloc" /\ arg'[p] = [key |-> arg[p].key, id |-> id] /\ pc[p] = "expand"
            /\ shm_segs[id] = Unused /\ v = NoId
         \/ pc'[p] = "user" /\ pc[p] = "alloc" /\ id = arg[p].id
  <2>1. \A at \in Pc : \A x : Go(p, at, x) =>
            /\ pc' \in [Proc -> Pc] /\ DOMAIN arg' = Proc /\ pc'[p] = at /\ arg'[p] = x
            /\ \A q \in Proc \ {p} : pc'[q] = pc[q] /\ arg'[q] = arg[q]
    BY <1>0, GoFacts, Zenon
  <2> QED
    BY <1>0, <1>1, <1>2, <1>3, <2>1, Zenon DEF Alone, Types
<1>5. AllBut(None)
  <2>1. seg' \in [Seg -> Segment \cup {None}]
    BY <1>0, <1>2 DEF Types
  <2>2. ASSUME NEW b \in Seg \ {None} PROVE seg'[b] = seg[b] /\ (In(b)' <=> In(b))
    <3>1. v # b /\ shm_segs[id] # b /\ seg'[b] = seg[b]
      BY <1>1, <1>2, Consts
    <3> QED
      BY <1>0, <1>1, <3>1, SlotIn, Zenon
  <2> QED
    BY <2>1, <2>2, Zenon DEF AllBut
<1>6. Table'
  <2>1. \A k \in Ids : Holds(k) => shm_segs[k] # None /\ k <= max_shmid'
    BY <1>0, <1>2, HeldIn, Consts, Zenon DEF Table
  <2> QED
    BY <1>0, <1>1, <1>5, <2>1, SlotTable, Zenon
<1>7. ASSUME NEW q \in Proc \ {p}, pc[q] = "alloc"
      PROVE  shm_segs'[arg[q].id] = NoId /\ (pc'[p] = "alloc" => arg'[p].id # arg[q].id)
  <2>1. arg[q].id \in Ids /\ shm_segs[arg[q].id] = NoId
    BY <1>0, <1>7 DEF Relies, ArgOK
  <2>2. CASE pc[p] = "alloc"
    <3>1. arg[q].id # id /\ pc'[p] # "alloc"
      BY <1>0, <1>4, <1>7, <2>2 DEF Apart
    <3> QED
      BY <1>0, <1>1, <2>1, <3>1 DEF Types
  <2>3. CASE pc[p] # "alloc"
    <3>1. arg[q].id # id /\ arg'[p].id = id
      BY <1>4, <2>1, <2>3, Consts
    <3> QED
      BY <1>0, <1>1, <2>1, <3>1 DEF Types
  <2> QED
    BY <2>2, <2>3
<1>8. Used' /\ Apart' /\ \A q \in Proc \ {p} : Relies(q)'
  <2>1. pc[p] # "kill" /\ pc'[p] # "kill" /\ None \notin Seg
    BY <1>4, Consts
  <2>2. \A q \in Proc \ {p} : pc[q] = "kill" => arg[q] # None
    BY <1>0, <2>1, Zenon DEF ArgOK
  <2> QED
    BY <1>4, <1>5, <1>7, <2>1, <2>2, SlotStep
<1>9. ArgOK(p)' /\ Relies(p)'
  <2>1. attached[p] # None => seg'[attached[p]] # None /\ shm_segs'[seg'[attached[p]].id] = attached[p]
    BY <1>5, StaysIn, Zenon
  <2>2. CASE pc'[p] = "user"
    BY <1>2, <2>1, <2>2 DEF ArgOK, Relies, In
  <2>3. CASE pc'[p] # "user"
    <3>1. pc'[p] = "alloc" /\ arg'[p] = [key |-> arg[p].key, id |-> id] /\ arg[p] \in [key : Key] /\ v = NoId
      BY <1>0, <1>4, <2>3 DEF ArgOK
    <3>2. arg'[p] \in [key : Key, id : Ids] /\ arg'[p].id = id /\ shm_segs'[id] = NoId
      BY <1>0, <1>1, <3>1 DEF Types
    <3> QED
      BY <1>2, <2>1, <3>1, <3>2 DEF ArgOK, Relies, In
  <2> QED
    BY <2>2, <2>3
<1>10. Types'
  <2>1. shm_segs' \in [Ids -> Seg \cup {Unused, NoId}] /\ max_shmid' \in Int /\ shm_seq' \in Nat
    BY <1>0, <1>1, <1>2 DEF Types
  <2>2. seg' \in [Seg -> Segment \cup {None}]
    BY <1>5 DEF AllBut
  <2> QED
    BY <1>0, <1>2, <1>4, <1>9, <2>1, <2>2, TypesSlot, Zenon
<1> QED
  BY <1>5, <1>6, <1>8, <1>9, <1>10

LEMMA Creation ==
  ASSUME LifeInv, NEW p \in Proc, NEW a, Creates(p, a)
  PROVE  /\ Types' /\ Table' /\ Used' /\ (\A q \in Proc : Relies(q)') /\ Apart'
         /\ a \in Seg /\ AllBut(a) /\ seg[a] = None /\ In(a)'
         /\ seg'[a].dest = FALSE /\ seg'[a].nattch = 0 /\ seg'[a].pte = [i \in Page |-> "none"]
<1>0. Types /\ Table /\ ArgOK(p) /\ Relies(p) /\ Apart /\ \A q \in Proc : Relies(q) /\ ArgOK(q)
  BY DEF LifeInv, Types
<1>1. PICK r \in Segment :
         /\ r.id = arg[p].id /\ r.dest = FALSE /\ r.nattch = 0 /\ r.pte = [i \in Page |-> "none"]
         /\ seg' = [seg EXCEPT ![a] = r]
  BY Zenon DEF Creates
<1>2. PICK k \in Ids : k = arg[p].id /\ shm_segs[k] = NoId
  BY <1>0 DEF Creates, ArgOK, Relies
<1>3. /\ a \in Seg /\ seg[a] = None /\ pc[p] = "alloc" /\ shm_segs' = [shm_segs EXCEPT ![k] = a]
      /\ max_shmid' \in Int /\ max_shmid' >= max_shmid /\ max_shmid' >= k
      /\ attached' = attached /\ raced' = raced /\ shm_seq' = shm_seq /\ Go(p, "user", None)
  BY <1>2 DEF Creates, Done
<1>4. CountTypes'
  BY <1>0, Consts DEF Creates, CountTypes, Types
<1>5. Alone(p) /\ pc'[p] = "user"
  <2>1. "user" \in Pc
    BY DEF Pc
  <2> QED
    BY <1>0, <1>3, <2>1, GoAlone, Zenon
<1>6. seg'[a] = r /\ seg' \in [Seg -> Segment \cup {None}] /\ (\A b \in Seg \ {a} : seg'[b] = seg[b]) /\ r # None
  BY <1>0, <1>1, <1>3, Consts DEF Types
<1>7. AllBut(a)
  <2>1. ASSUME NEW b \in Seg \ {a} PROVE seg'[b] = seg[b] /\ (In(b)' <=> In(b))
    <3>1. a # b /\ shm_segs[k] # b /\ seg'[b] = seg[b]
      BY <1>2, <1>6, Consts
    <3> QED
      BY <1>0, <1>3, <3>1, SlotIn, Zenon
  <2> QED
    BY <1>6, <2>1, Zenon DEF AllBut
<1>8. shm_segs'[k] = a /\ shm_segs' \in [Ids -> Seg \cup {Unused, NoId}] /\ \A i \in Ids \ {k} : shm_segs'[i] = shm_segs[i]
  BY <1>0, <1>3 DEF Types
<1>9. In(a)'
  BY <1>1, <1>2, <1>6, <1>8, Zenon DEF In
<1>10. Table'
  <2>1. \A i \in Ids : Holds(i) => shm_segs[i] # a /\ i <= max_shmid
    BY <1>0, <1>3 DEF Table
  <2>2. \A i \in Ids : i <= max_shmid => i <= max_shmid'
    BY <1>0, <1>3, Consts DEF Types
  <2>3. seg'[a] # None /\ seg'[a].id = k /\ k <= max_shmid'
    BY <1>1, <1>2, <1>3, <1>6, Consts
  <2> QED
    BY <1>0, <1>3, <1>7, <2>1, <2>2, <2>3, SlotTable, Zenon
<1>11. ASSUME NEW q \in Proc \ {p}, pc[q] = "alloc" PROVE shm_segs'[arg[q].id] = NoId
  <2>1. arg[q].id \in Ids /\ shm_segs[arg[q].id] = NoId /\ arg[q].id # k
    BY <1>0, <1>2, <1>3, <1>11 DEF Relies, ArgOK, Apart
  <2> QED
    BY <1>8, <2>1
<1>12. Used' /\ Apart' /\ \A q \in Proc \ {p} : Relies(q)'
  <2>1. ~In(a) /\ pc[p] # "kill" /\ pc'[p] # "kill" /\ pc'[p] # "alloc"
    BY <1>3, <1>5 DEF In
  <2>2. \A q \in Proc \ {p} : pc[q] = "kill" => arg[q] # a
    BY <1>0, <1>3, Zenon DEF Relies
  <2> QED
    BY <1>5, <1>7, <1>9, <1>11, <2>1, <2>2, SlotStep, Zenon
<1>13. ArgOK(p)' /\ Relies(p)'
  <2>1. attached[p] # None => attached[p] # a
    BY <1>0, <1>3 DEF Relies, In
  <2>2. attached[p] # None => seg'[attached[p]] # None /\ shm_segs'[seg'[attached[p]].id] = attached[p]
    BY <1>7, <2>1, StaysIn, Zenon
  <2> QED
    BY <1>3, <1>5, <2>2 DEF ArgOK, Relies, In
<1>14. Types'
  BY <1>0, <1>3, <1>4, <1>5, <1>6, <1>8, <1>13, TypesSlot DEF Types
<1> QED
  BY <1>1, <1>3, <1>6, <1>7, <1>9, <1>10, <1>12, <1>13, <1>14

LEMMA Killing ==
  ASSUME LifeInv, NEW p \in Proc, NEW a, KillBegins(p, a)
  PROVE  /\ Types' /\ Table' /\ Used' /\ (\A q \in Proc : Relies(q)') /\ Apart'
         /\ a \in Seg /\ AllBut(a) /\ In(a) /\ ~In(a)' /\ seg'[a] # None /\ seg'[a].pte = seg[a].pte
<1>0. Types /\ Table /\ ArgOK(p) /\ Relies(p) /\ Apart /\ \A q \in Proc : Relies(q) /\ ArgOK(q)
  BY DEF LifeInv, Types
<1>1. PICK sq, d, n : Becomes(a, sq, d, n, seg[a].pte, seg[a].sem)
  BY DEF KillBegins
<1>2. /\ seg' \in [Seg -> Segment \cup {None}] /\ a \in Seg /\ seg[a] # None /\ seg'[a] # None
      /\ \A b \in Seg \ {a} : seg'[b] = seg[b]
      /\ seg'[a].id = seg[a].id /\ seg'[a].pte = seg[a].pte
  BY <1>0, <1>1, BecomesFacts
<1>3. PICK k \in Ids : k = seg[a].id /\ shm_segs[k] = a
  BY <1>0, <1>2, InFacts DEF KillBegins, In
<1>4. /\ pc[p] \in {"user", "map"} /\ In(a) /\ Attaching(a) \subseteq {p}
      /\ shm_segs' = [shm_segs EXCEPT ![k] = Unused]
      /\ \A id \in Ids : Holds(id) /\ id # k => id <= max_shmid'
      /\ max_shmid' \in Int /\ shm_seq' \in Nat /\ Go(p, "kill", a)
      /\ attached' = [attached EXCEPT ![p] = attached'[p]]
      /\ attached'[p] \in {None, attached[p]} /\ attached'[p] # a /\ raced' = raced
  BY <1>3, Zenon DEF KillBegins
<1>5. CountTypes'
  BY <1>0 DEF KillBegins, CountTypes, Types
<1>6. Alone(p) /\ pc'[p] = "kill" /\ arg'[p] = a
  <2>1. "kill" \in Pc
    BY DEF Pc
  <2>2. attached' \in [Proc -> Seg \cup {None}] /\ \A q \in Proc \ {p} : attached'[q] = attached[q]
    BY <1>0, <1>4 DEF Types
  <2> QED
    BY <1>0, <1>4, <2>1, <2>2, GoFacts, Zenon DEF Alone
<1>7. AllBut(a)
  <2>1. ASSUME NEW b \in Seg \ {a} PROVE seg'[b] = seg[b] /\ (In(b)' <=> In(b))
    <3>1. Unused # b /\ shm_segs[k] # b /\ seg'[b] = seg[b]
      BY <1>2, <1>3, Consts
    <3> QED
      BY <1>0, <1>4, <3>1, SlotIn, Zenon
  <2> QED
    BY <1>2, <2>1, Zenon DEF AllBut
<1>8. shm_segs'[k] = Unused /\ shm_segs' \in [Ids -> Seg \cup {Unused, NoId}] /\ \A i \in Ids \ {k} : shm_segs'[i] = shm_segs[i]
  BY <1>0, <1>4 DEF Types
<1>9. ~In(a)'
  BY <1>2, <1>3, <1>8, Consts DEF In
<1>10. Table'
  <2>1. \A i \in Ids \ {k} : Holds(i) => shm_segs[i] # a /\ i <= max_shmid'
    BY <1>0, <1>3, <1>4 DEF Table
  <2> QED
    BY <1>0, <1>4, <1>7, <2>1, SlotTable, Zenon
<1>11. ASSUME NEW q \in Proc \ {p}, pc[q] = "alloc" PROVE shm_segs'[arg[q].id] = NoId
  <2>1. arg[q].id \in Ids /\ shm_segs[arg[q].id] = NoId /\ arg[q].id # k
    BY <1>0, <1>2, <1>3, <1>11, Consts DEF Relies, ArgOK
  <2> QED
    BY <1>8, <2>1
<1>12. Used' /\ Apart' /\ \A q \in Proc \ {p} : Relies(q)'
  <2>1. pc[p] # "kill" /\ pc'[p] # "alloc" /\ Kills(p, a)'
    BY <1>4, <1>6 DEF Kills
  <2>2. \A q \in Proc \ {p} : pc[q] = "kill" => arg[q] # a
    BY <1>0, <1>4, Zenon DEF Relies
  <2> QED
    BY <1>4, <1>6, <1>7, <1>11, <2>1, <2>2, SlotStep, Zenon
<1>13. ArgOK(p)' /\ Relies(p)'
  <2>1. attached'[p] # None => seg'[attached'[p]] # None /\ shm_segs'[seg'[attached'[p]].id] = attached'[p]
    <3>1. ASSUME attached'[p] # None PROVE attached'[p] = attached[p] /\ attached[p] # None /\ attached[p] # a
      BY <1>4, <3>1, Zenon
    <3> QED
      BY <1>7, <3>1, StaysIn, Zenon
  <2>2. ~(seg'[a] # None /\ shm_segs'[seg'[a].id] = a)
    BY <1>9, Zenon DEF In
  <2> QED
    BY <1>2, <1>6, <2>1, <2>2 DEF ArgOK, Relies, In
<1>14. Types'
  BY <1>0, <1>2, <1>4, <1>5, <1>6, <1>8, <1>13, TypesSlot, Zenon
<1> QED
  BY <1>2, <1>4, <1>7, <1>9, <1>10, <1>12, <1>13, <1>14

LEMMA Freeing ==
  ASSUME FiniteLaws, LifeInv, NEW p \in Proc, KillEnd(p)
  PROVE  /\ Types' /\ Table' /\ Used' /\ (\A q \in Proc : Relies(q)') /\ Apart'
         /\ arg[p] \in Seg /\ AllBut(arg[p]) /\ ~In(arg[p]) /\ seg[arg[p]] # None /\ seg'[arg[p]] = None
<1>0. Types /\ Table /\ ArgOK(p) /\ Relies(p) /\ Apart /\ \A q \in Proc : Relies(q) /\ ArgOK(q)
  BY DEF LifeInv, Types
<1>1. PICK a \in Seg : a = arg[p] /\ seg[a] # None /\ ~In(a)
  BY <1>0 DEF KillEnd, ArgOK, Relies
<1>2. /\ pc[p] = "kill" /\ seg' = [seg EXCEPT ![a] = None] /\ shm_segs' = shm_segs /\ max_shmid' = max_shmid
      /\ attached' = attached /\ raced' = raced /\ shm_seq' = shm_seq /\ Go(p, "user", None)
  BY <1>1, Zenon DEF KillEnd, Done
<1>3. CountTypes'
  <2>1. Number(a, "in") \in Int /\ Number(a, "out") \in Int
    <3>1. ASSUME NEW w PROVE Number(a, w) \in Nat
      <4>1. {i \in Page : seg[a].pte[i] = w} \in SUBSET Page
        OBVIOUS
      <4>2. IsFiniteSet(Page)
        BY PageFinite
      <4> QED
        BY <4>1, <4>2, Zenon DEF Number, FiniteLaws, SubsetSize, SizeIsNat
    <3> QED
      BY <3>1
  <2>2. /\ shm_rss' = shm_rss - Number(a, "in") /\ shm_swp' = shm_swp - Number(a, "out")
        /\ shm_tot' = shm_tot - Size /\ used_segs' = used_segs
    BY <1>1, Zenon DEF KillEnd
  <2> QED
    BY <1>0, <2>1, <2>2, Consts DEF CountTypes, Types
<1>4. Alone(p) /\ pc'[p] = "user"
  <2>1. "user" \in Pc
    BY DEF Pc
  <2> QED
    BY <1>0, <1>2, <2>1, GoAlone, Zenon
<1>5. seg'[a] = None /\ seg' \in [Seg -> Segment \cup {None}] /\ \A b \in Seg \ {a} : seg'[b] = seg[b]
  BY <1>0, <1>2 DEF Types
<1>6. AllBut(a)
  BY <1>2, <1>5, Zenon DEF AllBut, In
<1>7. Table'
  <2>1. ASSUME NEW i \in Ids, Holds(i)'
        PROVE  seg'[shm_segs[i]] # None /\ seg'[shm_segs[i]].id = i /\ i <= max_shmid
    <3>1. Holds(i)
      BY <1>2, <2>1, Zenon DEF Holds
    <3>2. shm_segs[i] \in Seg /\ In(shm_segs[i])
      BY <1>0, <3>1, HeldIn, Zenon
    <3>3. shm_segs[i] # a
      BY <1>1, <3>2, Zenon
    <3> QED
      BY <1>0, <1>5, <3>1, <3>2, <3>3 DEF Table
  <2> QED
    BY <1>2, <2>1, Zenon DEF Table
<1>8. Used' /\ Apart' /\ \A q \in Proc \ {p} : Relies(q)'
  <2>1. pc'[p] # "kill" /\ pc'[p] # "alloc"
    BY <1>4
  <2>2. \A q \in Proc \ {p} : pc[q] = "kill" => arg[q] # a
    BY <1>0, <1>1, <1>2, Zenon DEF Apart
  <2>3. \A q \in Proc \ {p} : pc[q] = "alloc" => shm_segs'[arg[q].id] = NoId
    BY <1>0, <1>2, Zenon DEF Relies
  <2> QED
    BY <1>1, <1>4, <1>5, <1>6, <2>1, <2>2, <2>3, SlotStep, Zenon
<1>9. ArgOK(p)' /\ Relies(p)'
  <2>1. attached[p] # None => attached[p] # a
    BY <1>0, <1>1, Zenon DEF Relies
  <2>2. attached[p] # None => seg'[attached[p]] # None /\ shm_segs'[seg'[attached[p]].id] = attached[p]
    BY <1>6, <2>1, StaysIn, Zenon
  <2> QED
    BY <1>2, <1>4, <2>2 DEF ArgOK, Relies, In
<1>10. Types'
  BY <1>0, <1>2, <1>3, <1>4, <1>5, <1>9, TypesSlot DEF Types
<1> QED
  BY <1>1, <1>5, <1>6, <1>7, <1>8, <1>9, <1>10

-----------------------------------------------------------------------------
(***************************************************************************)
(* The count of attaches.                                                  *)
(***************************************************************************)

LEMMA AttachingIs ==
  ASSUME NEW p \in Proc, NEW b
  PROVE  p \in Attaching(b) <=> (attached[p] = b \/ (pc[p] = "map" /\ arg[p].shp = b))
BY DEF Attaching

(* A segment whose attaches and whose fields about them are as they were.  *)
SameCount(b) == Attaching(b)' = Attaching(b) /\ seg'[b].nattch = seg[b].nattch /\ seg'[b].dest = seg[b].dest

LEMMA AttachingStays ==
  ASSUME NEW p, Alone(p), NEW b,
         p \in Proc => ((attached'[p] = b \/ (pc'[p] = "map" /\ arg'[p].shp = b))
                          <=> (attached[p] = b \/ (pc[p] = "map" /\ arg[p].shp = b)))
  PROVE  Attaching(b)' = Attaching(b)
<1>1. ASSUME NEW q \in Proc
      PROVE  (attached'[q] = b \/ (pc'[q] = "map" /\ arg'[q].shp = b))
               <=> (attached[q] = b \/ (pc[q] = "map" /\ arg[q].shp = b))
  BY Zenon DEF Alone
<1> QED
  BY <1>1, Zenon DEF Attaching

LEMMA AttachingMore ==
  ASSUME FiniteLaws, NEW p \in Proc, Alone(p), NEW b, p \notin Attaching(b),
         attached'[p] = b \/ (pc'[p] = "map" /\ arg'[p].shp = b)
  PROVE  /\ Attaching(b)' = Attaching(b) \cup {p}
         /\ Cardinality(Attaching(b)') = Cardinality(Attaching(b)) + 1
<1>1. Attaching(b)' = Attaching(b) \cup {p}
  BY DEF Attaching, Alone
<1> QED
  BY <1>1, AttachingFinite, Zenon DEF FiniteLaws, AddSize

LEMMA AttachingLess ==
  ASSUME FiniteLaws, NEW p \in Proc, Alone(p), NEW b, p \in Attaching(b),
         ~(attached'[p] = b \/ (pc'[p] = "map" /\ arg'[p].shp = b))
  PROVE  /\ Attaching(b)' = Attaching(b) \ {p}
         /\ Cardinality(Attaching(b)') = Cardinality(Attaching(b)) - 1
<1>1. Attaching(b)' = Attaching(b) \ {p}
  BY DEF Attaching, Alone
<1> QED
  BY <1>1, AttachingFinite, Zenon DEF FiniteLaws, RemoveSize

CountOK(b) == seg[b].nattch = Cardinality(Attaching(b)) /\ (seg[b].dest => Attaching(b) # {})

LEMMA CountedBut ==
  ASSUME Counted, NEW a, \A b \in Seg \ {a} : In(b)' => In(b) /\ SameCount(b), a \in Seg /\ In(a)' => CountOK(a)'
  PROVE  Counted'
<1>1. ASSUME NEW b \in Seg, In(b)' PROVE CountOK(b)'
  <2>1. CASE b = a
    BY <1>1, <2>1, Zenon
  <2>2. CASE b # a
    <3>1. In(b) /\ SameCount(b)
      BY <1>1, <2>2
    <3>2. CountOK(b)
      BY <3>1 DEF Counted, CountOK
    <3> QED
      BY <3>1, <3>2, Zenon DEF CountOK, SameCount
  <2> QED
    BY <2>1, <2>2
<1> QED
  BY <1>1, Zenon DEF Counted, CountOK

(* Steps of a process that gains no attach and loses none.                 *)
LEMMA CountedKept ==
  ASSUME FiniteLaws, LifeInv, NEW p, Alone(p), NEW a, \A b \in Seg \ {a} : (In(b)' => In(b)) /\ seg'[b] = seg[b],
         p \in Proc => attached'[p] = attached[p] /\ pc[p] # "map" /\ pc'[p] # "map",
         a \in Seg /\ In(a)' => /\ seg'[a].nattch = seg[a].nattch
                                /\ (seg'[a].dest = seg[a].dest \/ seg[a].nattch > 0) /\ In(a)
  PROVE  Counted' /\ \A b : Attaching(b)' = Attaching(b)
<1>1. ASSUME NEW b PROVE Attaching(b)' = Attaching(b)
  BY AttachingStays, Zenon
<1>2. ASSUME NEW b \in Seg \ {a} PROVE In(b)' => In(b) /\ SameCount(b)
  BY <1>1, Zenon DEF SameCount
<1>3. ASSUME a \in Seg, In(a)' PROVE CountOK(a)'
  <2>1. seg[a].nattch = Cardinality(Attaching(a)) /\ (seg[a].dest => Attaching(a) # {})
    BY <1>3 DEF LifeInv, Counted
  <2>2. seg[a].nattch > 0 => Attaching(a) # {}
    BY <2>1 DEF FiniteLaws, EmptySize
  <2>3. seg'[a].nattch = Cardinality(Attaching(a)) /\ (seg'[a].dest => Attaching(a) # {})
    BY <1>3, <2>1, <2>2, Zenon
  <2> QED
    BY <1>1, <2>3, Zenon DEF CountOK
<1>4. Counted
  BY DEF LifeInv
<1>5. Counted'
  BY <1>2, <1>3, <1>4, CountedBut, Zenon
<1> QED
  BY <1>1, <1>5

LEMMA CountedSlot ==
  ASSUME FiniteLaws, LifeInv, NEW p \in Proc,
         (\E id : TakesSlot(p, id)) \/ GivesBack(p) \/ (\E a : Creates(p, a)) \/ (\E a : KillBegins(p, a)) \/ KillEnd(p)
  PROVE  Counted'
<1>0. Types /\ Counted /\ (\A q \in Proc : Relies(q)) /\ ArgOK(p) /\ \A q \in Proc : ArgOK(q)
  BY DEF LifeInv, Types
<1>1. ASSUME NEW at \in Pc, NEW x, Go(p, at, x), attached' = attached PROVE Alone(p) /\ pc'[p] = at
  BY <1>0, <1>1, GoAlone, Zenon
<1>2. CASE (\E id : TakesSlot(p, id)) \/ GivesBack(p)
  <2>1. attached' = attached /\ pc[p] # "map" /\ \E at \in Pc \ {"map"}, x \in {[key |-> arg[p].key, id |-> id] : id \in Ids} \cup {None} : Go(p, at, x)
    BY <1>2, Zenon DEF TakesSlot, GivesBack, Done, Pc
  <2>2. Alone(p) /\ pc'[p] # "map"
    BY <1>1, <2>1
  <2>3. AllBut(None)
    BY <1>2, SlotChange, Zenon
  <2> QED
    BY <2>1, <2>2, <2>3, CountedKept, Consts, Zenon DEF AllBut
<1>3. ASSUME NEW a, Creates(p, a) PROVE Counted'
  <2>1. a \in Seg /\ AllBut(a) /\ seg[a] = None /\ seg'[a].dest = FALSE /\ seg'[a].nattch = 0
    BY <1>3, Creation, Zenon
  <2>2. attached' = attached /\ pc[p] # "map" /\ Go(p, "user", None) /\ "user" \in Pc
    BY <1>3 DEF Creates, Done, Pc
  <2>3. Alone(p) /\ pc'[p] # "map"
    BY <1>1, <2>2
  <2>4. ASSUME NEW b PROVE Attaching(b)' = Attaching(b)
    BY <2>2, <2>3, AttachingStays, Zenon
  <2>5. Attaching(a) = {}
    <3>1. ASSUME NEW q \in Attaching(a) PROVE FALSE
      <4>1. q \in Proc /\ (attached[q] = a \/ (pc[q] = "map" /\ arg[q].shp = a))
        BY <3>1 DEF Attaching
      <4>2. In(a)
        BY <1>0, <2>1, <4>1, Consts DEF Relies
      <4> QED
        BY <2>1, <4>2, Zenon DEF In
    <3> QED
      BY <3>1, Zenon
  <2>6. CountOK(a)'
    <3>1. Cardinality({}) = 0
      BY DEF FiniteLaws, EmptySize
    <3>2. seg'[a].nattch = Cardinality(Attaching(a)) /\ ~seg'[a].dest
      BY <2>1, <2>5, <3>1
    <3> QED
      BY <2>4, <3>2, Zenon DEF CountOK
  <2> QED
    BY <1>0, <2>1, <2>4, <2>6, CountedBut, Zenon DEF AllBut, SameCount
<1>4. ASSUME NEW a, KillBegins(p, a) PROVE Counted'
  <2>1. a \in Seg /\ AllBut(a) /\ ~In(a)'
    BY <1>4, Killing, Zenon
  <2>2. /\ Go(p, "kill", a) /\ "kill" \in Pc /\ attached' = [attached EXCEPT ![p] = attached'[p]]
        /\ attached'[p] \in {None, attached[p]}
        /\ (attached[p] \in Seg \ {a} => attached'[p] = attached[p]) /\ (pc[p] = "map" => arg[p].shp = a)
    BY <1>4 DEF KillBegins, Pc
  <2>3. Alone(p) /\ pc'[p] = "kill"
    <3>1. attached' \in [Proc -> Seg \cup {None}] /\ \A q \in Proc \ {p} : attached'[q] = attached[q]
      BY <1>0, <2>2 DEF Types
    <3> QED
      BY <1>0, <2>2, <3>1, GoFacts, Zenon DEF Alone
  <2>4. ASSUME NEW b \in Seg \ {a} PROVE Attaching(b)' = Attaching(b)
    <3>1. (attached'[p] = b \/ (pc'[p] = "map" /\ arg'[p].shp = b))
            <=> (attached[p] = b \/ (pc[p] = "map" /\ arg[p].shp = b))
      BY <2>2, <2>3, Consts
    <3> QED
      BY <2>3, <3>1, AttachingStays, Zenon
  <2> QED
    BY <1>0, <2>1, <2>4, CountedBut, Zenon DEF AllBut, SameCount
<1>5. CASE KillEnd(p)
  <2>1. PICK a \in Seg : a = arg[p] /\ AllBut(a) /\ seg'[a] = None
    BY <1>5, Freeing, Zenon
  <2>2. attached' = attached /\ pc[p] # "map" /\ Go(p, "user", None) /\ "user" \in Pc
    BY <1>5 DEF KillEnd, Done, Pc
  <2>3. Alone(p) /\ pc'[p] # "map"
    BY <1>1, <2>2
  <2>4. ~In(a)'
    BY <2>1, Zenon DEF In
  <2> QED
    BY <2>1, <2>2, <2>3, <2>4, CountedKept, Zenon DEF AllBut
<1> QED
  BY <1>2, <1>3, <1>4, <1>5

LEMMA CountedCalm ==
  ASSUME FiniteLaws, LifeInv, NEW p \in Proc,
         \/ Idles(p) \/ (\E a : Attaches(p, a)) \/ Maps(p) \/ (\E a : Leaves(p, a))
         \/ (\E q \in Proc : Forks(p, q)) \/ (\E i : Faults(p, i)) \/ FaultFails(p) \/ FaultEnters(p)
  PROVE  Counted'
<1>0. Types /\ Counted /\ Relies(p) /\ ArgOK(p)
  BY DEF LifeInv, Types
<1>1. ASSUME NEW q, Calm(q) PROVE Alone(q) /\ \A b \in Seg : In(b)' <=> In(b)
  BY <1>0, <1>1, QuietIn, Zenon DEF Calm
<1>2. ASSUME NEW a \in Seg, NEW n, NEW q \in Proc, Calm(q), In(a), q \notin Attaching(a),
             Becomes(a, seg[a].seq, seg[a].dest, seg[a].nattch + 1, seg[a].pte, seg[a].sem),
             attached'[q] = a \/ (pc'[q] = "map" /\ arg'[q].shp = a),
             \A b \in Seg \ {a} : ~(attached'[q] = b \/ (pc'[q] = "map" /\ arg'[q].shp = b)),
             \A b \in Seg \ {a} : ~(attached[q] = b \/ (pc[q] = "map" /\ arg[q].shp = b))
      PROVE  Counted'
  <2>1. seg'[a].nattch = seg[a].nattch + 1 /\ \A b \in Seg \ {a} : seg'[b] = seg[b]
    BY <1>0, <1>2, BecomesFacts
  <2>2. Alone(q) /\ \A b \in Seg : In(b)' <=> In(b)
    BY <1>1, <1>2
  <2>3. Attaching(a)' = Attaching(a) \cup {q} /\ Cardinality(Attaching(a)') = Cardinality(Attaching(a)) + 1
    BY <1>2, <2>2, AttachingMore, Zenon
  <2>4. CountOK(a)'
    <3>1. seg[a].nattch = Cardinality(Attaching(a))
      BY <1>0, <1>2 DEF Counted
    <3>2. seg'[a].nattch = Cardinality(Attaching(a)') /\ Attaching(a)' # {}
      BY <2>1, <2>3, <3>1
    <3> QED
      BY <3>2, Zenon DEF CountOK
  <2>5. ASSUME NEW b \in Seg \ {a} PROVE SameCount(b)
    BY <1>2, <2>1, <2>2, <2>5, AttachingStays, Zenon DEF SameCount
  <2> QED
    BY <1>0, <2>2, <2>4, <2>5, CountedBut, Zenon
<1>3. CASE Idles(p)
  <2>1. Alone(p) /\ \A b \in Seg : In(b)' <=> In(b)
    BY <1>1, <1>3, CallsCalm, Zenon
  <2>2. attached' = attached /\ pc[p] # "map" /\ pc'[p] # "map" /\ seg' = seg
    BY <1>3 DEF Idles, Outside
  <2> QED
    BY <2>1, <2>2, CountedKept, Consts, Zenon
<1>4. ASSUME NEW a, Attaches(p, a) PROVE Counted'
  <2>1. /\ pc[p] = "vma" /\ a = arg[p].shp /\ In(a) /\ Go(p, "map", arg[p]) /\ attached' = attached
        /\ Becomes(a, seg[a].seq, seg[a].dest, seg[a].nattch + 1, seg[a].pte, seg[a].sem)
    BY <1>4 DEF Attaches
  <2>2. a \in Seg /\ attached[p] = None /\ pc'[p] = "map" /\ arg'[p] = arg[p] /\ attached'[p] = None
    BY <1>0, <2>1 DEF ArgOK, Relies, Go, Types
  <2>3. Calm(p)
    BY <1>4, CallsCalm, Zenon
  <2>4. p \notin Attaching(a)
    BY <2>1, <2>2, Consts DEF Attaching
  <2>5. \A b \in Seg \ {a} : /\ ~(attached'[p] = b \/ (pc'[p] = "map" /\ arg'[p].shp = b))
                             /\ ~(attached[p] = b \/ (pc[p] = "map" /\ arg[p].shp = b))
    BY <2>1, <2>2, Consts
  <2> QED
    BY <1>2, <2>1, <2>2, <2>3, <2>4, <2>5, ZenonT(30)
<1>5. CASE Maps(p)
  <2>1. /\ pc[p] = "map" /\ Go(p, "user", None) /\ attached' = [attached EXCEPT ![p] = arg[p].shp] /\ seg' = seg
    BY <1>5 DEF Maps, Done
  <2>2. pc'[p] = "user" /\ attached'[p] = arg[p].shp /\ attached[p] = None
    BY <1>0, <2>1 DEF Go, Types, Relies
  <2>3. Alone(p) /\ \A b \in Seg : In(b)' <=> In(b)
    BY <1>1, <1>5, CallsCalm, Zenon
  <2>4. ASSUME NEW b \in Seg PROVE SameCount(b)
    <3>1. (attached'[p] = b \/ (pc'[p] = "map" /\ arg'[p].shp = b))
            <=> (attached[p] = b \/ (pc[p] = "map" /\ arg[p].shp = b))
      BY <2>1, <2>2, Consts
    <3> QED
      BY <2>1, <2>3, <3>1, AttachingStays, Zenon DEF SameCount
  <2> QED
    BY <1>0, <2>3, <2>4, CountedBut, Consts, Zenon
<1>6. ASSUME NEW a, Leaves(p, a) PROVE Counted'
  <2>1. /\ (pc[p] = "user" /\ attached[p] = a) \/ (pc[p] = "map" /\ arg[p].shp = a)
        /\ ~(seg[a].nattch - 1 <= 0 /\ seg[a].dest) /\ Go(p, "user", None)
        /\ Becomes(a, seg[a].seq, seg[a].dest, seg[a].nattch - 1, seg[a].pte, seg[a].sem)
        /\ attached' = [attached EXCEPT ![p] = None]
    BY <1>6 DEF Leaves, Done
  <2>2. /\ a \in Seg /\ seg'[a].nattch = seg[a].nattch - 1 /\ seg'[a].dest = seg[a].dest
        /\ \A b \in Seg \ {a} : seg'[b] = seg[b]
    BY <1>0, <2>1, BecomesFacts
  <2>3. pc'[p] = "user" /\ attached'[p] = None
    BY <1>0, <2>1 DEF Go, Types
  <2>4. Alone(p) /\ \A b \in Seg : In(b)' <=> In(b)
    BY <1>1, <1>6, CallsCalm, Zenon
  <2>5. In(a) /\ p \in Attaching(a)
    BY <1>0, <2>1, <2>2, Consts DEF Relies, Attaching
  <2>6. Attaching(a)' = Attaching(a) \ {p} /\ Cardinality(Attaching(a)') = Cardinality(Attaching(a)) - 1
    <3>1. ~(attached'[p] = a \/ (pc'[p] = "map" /\ arg'[p].shp = a))
      BY <2>2, <2>3, Consts
    <3> QED
      BY <2>4, <2>5, <3>1, AttachingLess, Zenon
  <2>7. CountOK(a)'
    <3>1. seg[a].nattch = Cardinality(Attaching(a)) /\ Cardinality(Attaching(a)) \in Nat
      BY <1>0, <2>2, <2>5, AttachingFinite DEF Counted
    <3>2. Cardinality({}) = 0
      BY DEF FiniteLaws, EmptySize
    <3>3. seg'[a].nattch = Cardinality(Attaching(a)')
      BY <2>2, <2>6, <3>1
    <3>4. seg'[a].dest => Cardinality(Attaching(a)') # 0
      BY <2>1, <2>2, <3>1, <3>3
    <3> QED
      BY <3>2, <3>3, <3>4, Zenon DEF CountOK
  <2>8. ASSUME NEW b \in Seg \ {a} PROVE SameCount(b)
    <3>1. (attached'[p] = b \/ (pc'[p] = "map" /\ arg'[p].shp = b))
            <=> (attached[p] = b \/ (pc[p] = "map" /\ arg[p].shp = b))
      BY <1>0, <2>1, <2>3, <2>8, Consts DEF Relies
    <3> QED
      BY <2>2, <2>4, <3>1, AttachingStays, Zenon DEF SameCount
  <2> QED
    BY <1>0, <2>4, <2>7, <2>8, CountedBut, Zenon
<1>7. ASSUME NEW q \in Proc, Forks(p, q) PROVE Counted'
  <2>1. PICK a : a = attached[p]
    OBVIOUS
  <2>2. /\ pc[q] = "user" /\ pc' = pc /\ attached[q] = None /\ a # None /\ attached' = [attached EXCEPT ![q] = a]
        /\ Becomes(a, seg[a].seq, seg[a].dest, seg[a].nattch + 1, seg[a].pte, seg[a].sem)
    BY <1>7, <2>1 DEF Forks
  <2>3. a \in Seg /\ In(a) /\ attached'[q] = a
    BY <1>0, <2>1, <2>2 DEF Types, Relies
  <2>4. Calm(q)
    BY <1>7, ForkCalm, Zenon
  <2>5. q \notin Attaching(a)
    BY <2>2, Consts DEF Attaching
  <2>6. \A b \in Seg \ {a} : /\ ~(attached'[q] = b \/ (pc'[q] = "map" /\ arg'[q].shp = b))
                             /\ ~(attached[q] = b \/ (pc[q] = "map" /\ arg[q].shp = b))
    BY <2>2, <2>3, Consts
  <2> QED
    BY <1>2, <2>2, <2>3, <2>4, <2>5, <2>6, Zenon
<1>8. CASE (\E i : Faults(p, i)) \/ FaultFails(p) \/ FaultEnters(p)
  <2>1. PICK a, t, m : /\ Becomes(a, seg[a].seq, seg[a].dest, seg[a].nattch, t, m)
                       /\ attached' = attached /\ pc[p] # "map" /\ \E at \in Pc \ {"map"} : \E x : Go(p, at, x)
    <3>1. "user" \in Pc \ {"map"} /\ "fault" \in Pc \ {"map"} /\ "user" # "map" /\ "fault" # "map"
      BY DEF Pc
    <3> QED
      BY <1>8, <3>1, Zenon DEF Faults, FaultFails, FaultEnters, Done
  <2>2. a \in Seg /\ seg'[a].nattch = seg[a].nattch /\ seg'[a].dest = seg[a].dest /\ \A b \in Seg \ {a} : seg'[b] = seg[b]
    BY <1>0, <2>1, BecomesFacts
  <2>3. Alone(p) /\ \A b \in Seg : In(b)' <=> In(b)
    BY <1>1, <1>8, FaultsCalm, Zenon
  <2>4. pc'[p] # "map"
    BY <1>0, <2>1 DEF Go, Types
  <2> QED
    BY <2>1, <2>2, <2>3, <2>4, CountedKept, Zenon
<1> QED
  BY <1>3, <1>4, <1>5, <1>6, <1>7, <1>8

LEMMA CountedOthers ==
  ASSUME FiniteLaws, LifeInv, \E a : Marks(a) \/ \E i : Swaps(a, i) \/ Unuses(a, i)
  PROVE  Counted'
<1>0. Types /\ None \notin Proc
  BY Consts DEF LifeInv
<1>1. Calm(None)
  BY OthersCalm, Zenon
<1>2. Alone(None) /\ \A b \in Seg : In(b)' <=> In(b)
  BY <1>0, <1>1, QuietIn, Zenon DEF Calm
<1>3. PICK a, d, t : /\ Becomes(a, seg[a].seq, d, seg[a].nattch, t, seg[a].sem)
                     /\ d = seg[a].dest \/ seg[a].nattch > 0
  BY Zenon DEF Marks, Swaps, Unuses, Turns
<1>4. a \in Seg /\ seg'[a].nattch = seg[a].nattch /\ seg'[a].dest = d /\ \A b \in Seg \ {a} : seg'[b] = seg[b]
  BY <1>0, <1>3, BecomesFacts
<1> QED
  BY <1>0, <1>2, <1>3, <1>4, CountedKept, Zenon

LEMMA LifeStep ==
  ASSUME FiniteLaws, LifeInv, Next
  PROVE  LifeInv'
<1>1. ASSUME NEW p, Calm(p), Counted' PROVE LifeInv'
  BY <1>1, CalmStep, Zenon DEF LifeInv
<1>2. ASSUME NEW p \in Proc, NEW q \in Proc, Forks(p, q) PROVE LifeInv'
  BY <1>1, <1>2, ForkCalm, CountedCalm, Zenon
<1>3. ASSUME NEW p \in Proc, Idles(p) \/ (\E a : Attaches(p, a)) \/ Maps(p) \/ \E a : Leaves(p, a) PROVE LifeInv'
  BY <1>1, <1>3, CallsCalm, CountedCalm, Zenon
<1>4. ASSUME NEW p \in Proc, (\E i : Faults(p, i)) \/ FaultFails(p) \/ FaultEnters(p) PROVE LifeInv'
  BY <1>1, <1>4, FaultsCalm, CountedCalm, Zenon
<1>5. ASSUME NEW a, Marks(a) \/ \E i : Swaps(a, i) \/ Unuses(a, i) PROVE LifeInv'
  BY <1>1, <1>5, OthersCalm, CountedOthers, Zenon
<1>6. ASSUME NEW p \in Proc, (\E id : TakesSlot(p, id)) \/ GivesBack(p) PROVE LifeInv'
  BY <1>6, SlotChange, CountedSlot, Zenon DEF LifeInv
<1>7. ASSUME NEW p \in Proc, NEW a, Creates(p, a) PROVE LifeInv'
  BY <1>7, Creation, CountedSlot, Zenon DEF LifeInv
<1>8. ASSUME NEW p \in Proc, NEW a, KillBegins(p, a) PROVE LifeInv'
  BY <1>8, Killing, CountedSlot, Zenon DEF LifeInv
<1>9. ASSUME NEW p \in Proc, KillEnd(p) PROVE LifeInv'
  BY <1>9, Freeing, CountedSlot, Zenon DEF LifeInv
<1>10. Step
  BY Cases
<1> QED
  BY <1>2, <1>3, <1>4, <1>5, <1>6, <1>7, <1>8, <1>9, <1>10, Zenon DEF Step

-----------------------------------------------------------------------------
(***************************************************************************)
(* The pages.                                                              *)
(***************************************************************************)

Here == {a \in Seg : In(a)}
There == {a \in Seg : seg[a] # None}
PagesOf(w) == {x \in Seg \X Page : seg[x[1]] # None /\ seg[x[1]].pte[x[2]] = w}

CountInv ==
    /\ used_segs = Cardinality(Here) /\ shm_tot = Size * Cardinality(There)
    /\ raced \/ (shm_rss = Cardinality(PagesOf("in")) /\ shm_swp = Cardinality(PagesOf("out")))

LEMMA PagesFinite ==
  ASSUME FiniteLaws
  PROVE  /\ IsFiniteSet(Here) /\ IsFiniteSet(There) /\ Cardinality(Here) \in Nat /\ Cardinality(There) \in Nat
         /\ \A w : IsFiniteSet(PagesOf(w)) /\ Cardinality(PagesOf(w)) \in Nat
<1>1. IsFiniteSet(Seg \X Page)
  <2>1. IsFiniteSet(Page)
    BY PageFinite
  <2> QED
    BY <2>1, Consts, Zenon DEF FiniteLaws, ProductFinite
<1>2. Here \in SUBSET Seg /\ There \in SUBSET Seg /\ \A w : PagesOf(w) \in SUBSET (Seg \X Page)
  BY DEF Here, There, PagesOf
<1>3. IsFiniteSet(Here) /\ IsFiniteSet(There) /\ \A w : IsFiniteSet(PagesOf(w))
  BY <1>1, <1>2, Consts, Zenon DEF FiniteLaws, SubsetSize
<1> QED
  BY <1>3, Zenon DEF FiniteLaws, SizeIsNat

(* Steps that touch no page.                                               *)
PtesKept == \A b \in Seg : seg[b] # None /\ seg'[b] # None => seg'[b].pte = seg[b].pte

LEMMA SamePages ==
  ASSUME PtesKept, There' = There
  PROVE  \A w : PagesOf(w)' = PagesOf(w)
<1>1. ASSUME NEW b \in Seg PROVE (seg'[b] # None <=> seg[b] # None) /\ (seg[b] # None => seg'[b].pte = seg[b].pte)
  BY DEF There, PtesKept
<1>2. ASSUME NEW w, NEW x \in Seg \X Page
      PROVE  (seg'[x[1]] # None /\ seg'[x[1]].pte[x[2]] = w) <=> (seg[x[1]] # None /\ seg[x[1]].pte[x[2]] = w)
  <2>1. x[1] \in Seg
    OBVIOUS
  <2> QED
    BY <1>1, <2>1, Zenon
<1> QED
  BY <1>2, Zenon DEF PagesOf

(* Page i of a is no longer in state v but in state w.                     *)
Turned(a, i, v, w) ==
    /\ PagesOf(w)' = PagesOf(w) \cup {<<a, i>>} /\ <<a, i>> \notin PagesOf(w)
    /\ PagesOf(v)' = PagesOf(v) \ {<<a, i>>} /\ <<a, i>> \in PagesOf(v)
    /\ \A u : u \notin {v, w} => PagesOf(u)' = PagesOf(u)

LEMMA PageTurns ==
  ASSUME Types, NEW a, NEW i \in Page, NEW v, NEW w, v # w, seg[a].pte[i] = v, There' = There, NEW d, NEW n, NEW m,
         Becomes(a, seg[a].seq, d, n, [seg[a].pte EXCEPT ![i] = w], m)
  PROVE  Turned(a, i, v, w)
<1>1. /\ a \in Seg /\ seg[a] # None /\ seg'[a] # None /\ seg'[a].pte = [seg[a].pte EXCEPT ![i] = w]
      /\ \A b \in Seg \ {a} : seg'[b] = seg[b]
  BY BecomesFacts
<1>2. seg[a].pte \in [Page -> {"none", "in", "out"}]
  BY <1>1, InFacts, FieldTypes, Zenon
<1>3. seg'[a].pte[i] = w /\ \A j \in Page \ {i} : seg'[a].pte[j] = seg[a].pte[j]
  BY <1>1, <1>2
<1>4. ASSUME NEW b \in Seg, NEW j \in Page, <<b, j>> # <<a, i>>, NEW u
      PROVE  (seg'[b] # None /\ seg'[b].pte[j] = u) <=> (seg[b] # None /\ seg[b].pte[j] = u)
  <2>1. CASE b = a
    BY <1>1, <1>3, <1>4, <2>1, Zenon
  <2>2. CASE b # a
    BY <1>1, <2>2, Zenon
  <2> QED
    BY <2>1, <2>2
<1>5. ASSUME NEW u, NEW b \in Seg, NEW j \in Page
      PROVE  /\ <<b, j>> \in PagesOf(u) <=> (seg[b] # None /\ seg[b].pte[j] = u)
             /\ <<b, j>> \in PagesOf(u)' <=> (seg'[b] # None /\ seg'[b].pte[j] = u)
  BY DEF PagesOf
<1>6. ASSUME NEW u PROVE PagesOf(u) \subseteq Seg \X Page /\ PagesOf(u)' \subseteq Seg \X Page
  BY DEF PagesOf
<1>7. ASSUME NEW u, NEW b \in Seg, NEW j \in Page
      PROVE  <<b, j>> \in PagesOf(u)' <=> IF <<b, j>> = <<a, i>> THEN u = w ELSE <<b, j>> \in PagesOf(u)
  <2>1. CASE <<b, j>> = <<a, i>>
    BY <1>1, <1>3, <1>5, <2>1
  <2>2. CASE <<b, j>> # <<a, i>>
    <3>1. (seg'[b] # None /\ seg'[b].pte[j] = u) <=> (seg[b] # None /\ seg[b].pte[j] = u)
      BY <1>4, <2>2
    <3>2. <<b, j>> \in PagesOf(u)' <=> <<b, j>> \in PagesOf(u)
      BY <1>5, <3>1, Zenon
    <3> QED
      BY <2>2, <3>2
  <2> QED
    BY <2>1, <2>2
<1>8. <<a, i>> \in PagesOf(v) /\ \A u : u # v => <<a, i>> \notin PagesOf(u)
  <2>1. \A u : <<a, i>> \in PagesOf(u) <=> seg[a].pte[i] = u
    BY <1>1, <1>5
  <2> QED
    BY <1>1, <2>1
<1>9. ASSUME NEW u, NEW x
      PROVE  x \in PagesOf(u)' <=> IF x = <<a, i>> THEN u = w ELSE x \in PagesOf(u)
  <2>1. <<a, i>> \in Seg \X Page
    BY <1>1
  <2>2. CASE x \in Seg \X Page
    <3>1. PICK b \in Seg, j \in Page : x = <<b, j>>
      BY <2>2
    <3> QED
      BY <1>7, <3>1, Zenon
  <2>3. CASE x \notin Seg \X Page
    BY <1>6, <2>1, <2>3, Zenon
  <2> QED
    BY <2>2, <2>3
<1>10. PagesOf(w)' = PagesOf(w) \cup {<<a, i>>}
  <2>1. ASSUME NEW x PROVE x \in PagesOf(w)' <=> x \in PagesOf(w) \cup {<<a, i>>}
    BY <1>9, Zenon
  <2> QED
    BY <2>1, Zenon
<1>11. PagesOf(v)' = PagesOf(v) \ {<<a, i>>}
  <2>1. ASSUME NEW x PROVE x \in PagesOf(v)' <=> x \in PagesOf(v) \ {<<a, i>>}
    BY <1>9, Zenon
  <2> QED
    BY <2>1, Zenon
<1>12. ASSUME NEW u, u \notin {v, w} PROVE PagesOf(u)' = PagesOf(u)
  <2>1. ASSUME NEW x PROVE x \in PagesOf(u)' <=> x \in PagesOf(u)
    BY <1>8, <1>9, <1>12, Zenon
  <2> QED
    BY <2>1, Zenon
<1> QED
  BY <1>8, <1>10, <1>11, <1>12, Zenon DEF Turned

LEMMA FoundKept ==
  ASSUME LifeInv, LifeInv', Found, NEW p, Alone(p), raced' = raced,
         \A q \in Proc \ {p} : pc[q] = "fault" => seg'[attached[q]].pte[arg[q].page] = seg[attached[q]].pte[arg[q].page],
         p \in Proc /\ pc'[p] = "fault" => seg'[attached'[p]].pte[arg'[p].page] = arg'[p].was
  PROVE  Found'
<1>1. CASE raced
  BY <1>1, Zenon DEF Found
<1>2. CASE ~raced
  <2>1. ASSUME NEW q \in Proc, pc'[q] = "fault" PROVE seg'[attached'[q]].pte[arg'[q].page] = arg'[q].was
    <3>1. CASE q = p
      BY <2>1, <3>1, Zenon
    <3>2. CASE q # p
      <4>1. pc[q] = "fault" /\ attached'[q] = attached[q] /\ arg'[q] = arg[q]
        BY <2>1, <3>2 DEF Alone
      <4>2. seg[attached[q]].pte[arg[q].page] = arg[q].was
        BY <1>2, <4>1, Zenon DEF Found
      <4> QED
        BY <3>2, <4>1, <4>2, Zenon
    <3> QED
      BY <3>1, <3>2
  <2> QED
    BY <2>1, Zenon DEF Found
<1> QED
  BY <1>1, <1>2

LEMMA FaultPtes ==
  ASSUME LifeInv, LifeInv', PtesKept, NEW p, Alone(p), NEW q \in Proc \ {p}, pc[q] = "fault"
  PROVE  seg'[attached[q]].pte = seg[attached[q]].pte
<1>1. Relies(q) /\ Relies(q)' /\ attached[q] \in Seg \cup {None} /\ pc'[q] = pc[q] /\ attached'[q] = attached[q]
  BY DEF LifeInv, Types, Alone
<1>2. attached[q] \in Seg /\ seg[attached[q]] # None
  BY <1>1 DEF Relies, In
<1>3. seg'[attached[q]] # None
  BY <1>1, <1>2, Zenon DEF Relies, In
<1> QED
  BY <1>2, <1>3, Zenon DEF PtesKept

LEMMA NoPages ==
  ASSUME LifeInv, LifeInv', Found, CountInv, NEW p, Alone(p), Here' = Here, There' = There, PtesKept,
         UNCHANGED counts, raced' = raced,
         p \in Proc /\ pc'[p] = "fault" => seg'[attached'[p]].pte[arg'[p].page] = arg'[p].was
  PROVE  Found' /\ CountInv'
<1>1. Found'
  <2>1. \A q \in Proc \ {p} : pc[q] = "fault" => seg'[attached[q]].pte = seg[attached[q]].pte
    BY FaultPtes, Zenon
  <2> QED
    BY <2>1, FoundKept, Zenon
<1>2. \A w : PagesOf(w)' = PagesOf(w)
  BY SamePages, Zenon
<1>3. shm_tot' = shm_tot /\ shm_rss' = shm_rss /\ shm_swp' = shm_swp /\ used_segs' = used_segs
  BY DEF counts
<1>4. CountInv'
  BY <1>2, <1>3, Zenon DEF CountInv
<1> QED
  BY <1>1, <1>4

LEMMA CalmSets ==
  ASSUME LifeInv, NEW p, Calm(p)
  PROVE  Here' = Here /\ There' = There /\ Alone(p)
<1>1. \A b \in Seg : (In(b)' <=> In(b)) /\ (seg'[b] = None <=> seg[b] = None)
  BY QuietIn, Zenon DEF Calm, LifeInv, Quiet
<1>2. Here' = Here
  BY <1>1, Zenon DEF Here
<1>3. There' = There
  BY <1>1, Zenon DEF There
<1> QED
  BY <1>2, <1>3 DEF Calm

LEMMA SameBecomes ==
  ASSUME Types, NEW a, NEW sq, NEW d, NEW n, NEW m, Becomes(a, sq, d, n, seg[a].pte, m)
  PROVE  PtesKept
<1>1. a \in Seg /\ seg'[a].pte = seg[a].pte /\ \A b \in Seg \ {a} : seg'[b] = seg[b]
  BY BecomesFacts
<1> QED
  BY <1>1, Zenon DEF PtesKept

LEMMA CallPages ==
  ASSUME LifeInv, LifeInv', Found, CountInv, NEW p \in Proc,
         \/ Idles(p) \/ (\E a : Attaches(p, a)) \/ Maps(p) \/ (\E a : Leaves(p, a)) \/ (\E q \in Proc : Forks(p, q))
         \/ (\E i : Faults(p, i)) \/ FaultFails(p) \/ (\E a : Marks(a)) \/ (\E id : TakesSlot(p, id)) \/ GivesBack(p)
  PROVE  Found' /\ CountInv'
<1>0. Types /\ None \notin Proc
  BY Consts DEF LifeInv
<1>1. UNCHANGED counts /\ raced' = raced
  BY Zenon DEF Idles, Attaches, Maps, Leaves, Forks, Faults, FaultFails, Marks, TakesSlot, GivesBack, others
<1>2. PtesKept
  <2>1. CASE seg' = seg
    BY <2>1, Zenon DEF PtesKept
  <2>2. ASSUME NEW a, NEW d, NEW n, NEW m, Becomes(a, seg[a].seq, d, n, seg[a].pte, m) PROVE PtesKept
    BY <1>0, <2>2, SameBecomes, Zenon
  <2>3. CASE Idles(p) \/ Maps(p) \/ (\E id : TakesSlot(p, id)) \/ GivesBack(p)
    BY <2>1, <2>3, Zenon DEF Idles, Maps, TakesSlot, GivesBack
  <2>4. CASE (\E a : Attaches(p, a)) \/ (\E a : Leaves(p, a)) \/ (\E q \in Proc : Forks(p, q))
    BY <2>2, <2>4, Zenon DEF Attaches, Leaves, Forks
  <2>5. CASE (\E i : Faults(p, i)) \/ FaultFails(p) \/ \E a : Marks(a)
    BY <2>2, <2>5, Zenon DEF Faults, FaultFails, Marks
  <2> QED
    BY <2>3, <2>4, <2>5
<1>3. ASSUME NEW q, Calm(q), q \in Proc => pc'[q] # "fault" PROVE Found' /\ CountInv'
  BY <1>1, <1>2, <1>3, CalmSets, NoPages, Zenon
<1>4. ASSUME NEW at \in Pc, NEW x, Go(p, at, x) PROVE pc'[p] = at
  BY <1>0, <1>4 DEF Go, Types
<1>5. CASE Idles(p) \/ (\E a : Attaches(p, a)) \/ Maps(p) \/ (\E a : Leaves(p, a)) \/ FaultFails(p)
  <2>1. pc'[p] # "fault"
    <3>1. CASE Idles(p)
      BY <3>1 DEF Idles, Outside
    <3>2. CASE ~Idles(p)
      <4>1. "map" \in Pc /\ "user" \in Pc /\ "map" # "fault" /\ "user" # "fault"
        BY DEF Pc
      <4> QED
        BY <1>4, <1>5, <3>2, <4>1, Zenon DEF Attaches, Maps, Leaves, FaultFails, Done
    <3> QED
      BY <3>1, <3>2
  <2>2. Calm(p)
    BY <1>5, CallsCalm, FaultsCalm, Zenon
  <2> QED
    BY <1>3, <2>1, <2>2, Zenon
<1>6. ASSUME NEW q \in Proc, Forks(p, q) PROVE Found' /\ CountInv'
  <2>1. pc'[q] # "fault"
    BY <1>6 DEF Forks
  <2> QED
    BY <1>3, <1>6, <2>1, ForkCalm, Zenon
<1>7. ASSUME NEW i, Faults(p, i) PROVE Found' /\ CountInv'
  <2>1. PICK a : a = attached[p]
    OBVIOUS
  <2>2. /\ Becomes(a, seg[a].seq, seg[a].dest, seg[a].nattch, seg[a].pte, p) /\ attached' = attached
        /\ Go(p, "fault", [page |-> i, was |-> seg[a].pte[i]])
    BY <1>7, <2>1 DEF Faults
  <2>3. seg'[a].pte = seg[a].pte
    BY <1>0, <2>2, BecomesFacts
  <2>4. arg'[p] = [page |-> i, was |-> seg[a].pte[i]]
    BY <1>0, <2>2 DEF Go, Types
  <2>5. seg'[attached'[p]].pte[arg'[p].page] = arg'[p].was
    BY <2>1, <2>2, <2>3, <2>4
  <2>6. Calm(p)
    BY <1>7, FaultsCalm, Zenon
  <2> QED
    BY <1>1, <1>2, <2>5, <2>6, CalmSets, NoPages, Zenon
<1>8. CASE \E a : Marks(a)
  BY <1>0, <1>3, <1>8, OthersCalm, Zenon
<1>9. CASE (\E id : TakesSlot(p, id)) \/ GivesBack(p)
  <2>1. AllBut(None)
    BY <1>9, SlotChange, Zenon
  <2>2. \A b \in Seg : seg'[b] = seg[b] /\ (In(b)' <=> In(b))
    BY <2>1, Consts DEF AllBut
  <2>3. Here' = Here
    BY <2>2, Zenon DEF Here
  <2>4. There' = There
    BY <2>2, Zenon DEF There
  <2>5. attached' = attached /\ \E at \in {"alloc", "user"} : \E x : Go(p, at, x)
    BY <1>9, Zenon DEF TakesSlot, GivesBack, Done
  <2>6. Alone(p) /\ pc'[p] # "fault"
    <3>1. PICK at \in {"alloc", "user"} : \E x : Go(p, at, x)
      BY <2>5
    <3>2. at \in Pc /\ at # "fault"
      BY <3>1 DEF Pc
    <3> QED
      BY <1>0, <2>5, <3>1, <3>2, GoAlone, Zenon
  <2> QED
    BY <1>1, <1>2, <2>3, <2>4, <2>6, NoPages, Zenon
<1> QED
  BY <1>5, <1>6, <1>7, <1>8, <1>9, Zenon

(* One page of a goes from state v to state w and is counted so.           *)
LEMMA PageCounted ==
  ASSUME FiniteLaws, LifeInv, CountInv, NEW p, Calm(p), NEW a, NEW i \in Page, NEW v \in {"none", "in", "out"}, NEW w \in {"in", "out"},
         v # w, seg[a].pte[i] = v, NEW d, NEW n, NEW m, Becomes(a, seg[a].seq, d, n, [seg[a].pte EXCEPT ![i] = w], m),
         shm_rss' = shm_rss + (IF w = "in" THEN 1 ELSE 0) - (IF v = "in" THEN 1 ELSE 0),
         shm_swp' = shm_swp + (IF w = "out" THEN 1 ELSE 0) - (IF v = "out" THEN 1 ELSE 0),
         shm_tot' = shm_tot, used_segs' = used_segs, raced => raced'
  PROVE  CountInv'
<1>0. Types
  BY DEF LifeInv
<1>1. Here' = Here /\ There' = There
  BY CalmSets, Zenon
<1>2. Turned(a, i, v, w)
  BY <1>0, <1>1, PageTurns, Zenon
<1>3. PICK x : x = <<a, i>>
  BY Zenon
<1>4. /\ Cardinality(PagesOf(w)') = Cardinality(PagesOf(w)) + 1
      /\ Cardinality(PagesOf(v)') = Cardinality(PagesOf(v)) - 1
      /\ \A u : u \notin {v, w} => PagesOf(u)' = PagesOf(u)
  <2>1. /\ PagesOf(w)' = PagesOf(w) \cup {x} /\ x \notin PagesOf(w)
        /\ PagesOf(v)' = PagesOf(v) \ {x} /\ x \in PagesOf(v)
        /\ \A u : u \notin {v, w} => PagesOf(u)' = PagesOf(u)
    BY <1>2, <1>3, Zenon DEF Turned
  <2>2. IsFiniteSet(PagesOf(w)) /\ IsFiniteSet(PagesOf(v))
    BY PagesFinite, Zenon
  <2>3. Cardinality(PagesOf(w)') = Cardinality(PagesOf(w)) + 1
    BY <2>1, <2>2, Zenon DEF FiniteLaws, AddSize
  <2>4. Cardinality(PagesOf(v)') = Cardinality(PagesOf(v)) - 1
    BY <2>1, <2>2, Zenon DEF FiniteLaws, RemoveSize
  <2> QED
    BY <2>1, <2>3, <2>4
<1>5. ASSUME NEW u \in {"in", "out"}
      PROVE  /\ Cardinality(PagesOf(u)') = Cardinality(PagesOf(u)) + (IF w = u THEN 1 ELSE 0) - (IF v = u THEN 1 ELSE 0)
             /\ Cardinality(PagesOf(u)) \in Nat
  <2>1. Cardinality(PagesOf(u)) \in Nat
    BY PagesFinite, Zenon
  <2>2. CASE u = w
    BY <1>4, <2>1, <2>2
  <2>3. CASE u = v
    BY <1>4, <2>1, <2>3
  <2>4. CASE u \notin {v, w}
    <3>1. Cardinality(PagesOf(u)') = Cardinality(PagesOf(u))
      BY <1>4, <2>4, Zenon
    <3> QED
      BY <2>1, <2>4, <3>1
  <2> QED
    BY <2>2, <2>3, <2>4
<1>6. raced \/ (shm_rss = Cardinality(PagesOf("in")) /\ shm_swp = Cardinality(PagesOf("out")))
  BY Zenon DEF CountInv
<1>7. ~raced => shm_rss' = Cardinality(PagesOf("in")') /\ shm_swp' = Cardinality(PagesOf("out")')
  BY <1>5, <1>6
<1> QED
  BY <1>1, <1>7, Zenon DEF CountInv

LEMMA TurnPages ==
  ASSUME FiniteLaws, LifeInv, LifeInv', Found, CountInv,
         (\E p \in Proc : FaultEnters(p)) \/ \E a, i : Swaps(a, i) \/ Unuses(a, i)
  PROVE  Found' /\ CountInv'
<1>0. Types /\ None \notin Proc /\ \A q \in Proc : Relies(q) /\ ArgOK(q)
  BY Consts DEF LifeInv, Types
<1>1. ASSUME NEW p \in Proc, FaultEnters(p) PROVE Found' /\ CountInv'
  <2>1. PICK a, i : a = attached[p] /\ i = arg[p].page /\ i \in Page
    <3>1. arg[p].page \in Page
      BY <1>0, <1>1 DEF FaultEnters, ArgOK
    <3> QED
      BY <3>1, Zenon
  <2> DEFINE v == arg[p].was
  <2>2. /\ pc[p] = "fault" /\ Go(p, "user", None)
        /\ Becomes(a, seg[a].seq, seg[a].dest, seg[a].nattch, [seg[a].pte EXCEPT ![i] = "in"], None)
        /\ shm_swp' = (IF v = "out" THEN shm_swp - 1 ELSE shm_swp) /\ shm_rss' = shm_rss + 1
        /\ shm_tot' = shm_tot /\ used_segs' = used_segs /\ raced' = raced
    BY <1>1, <2>1 DEF FaultEnters, Done, others
  <2>3. Calm(p) /\ pc'[p] # "fault"
    <3>1. Calm(p)
      BY <1>1, FaultsCalm, Zenon
    <3> QED
      BY <1>0, <2>2, <3>1 DEF Go, Types
  <2>4. Found'
    <3>1. ASSUME NEW q \in Proc \ {p}, pc[q] = "fault"
          PROVE  seg'[attached[q]].pte[arg[q].page] = seg[attached[q]].pte[arg[q].page]
      <4>1. attached[q] \in Seg /\ seg[attached[q]].sem = q /\ seg[a].sem = p
        BY <1>0, <2>1, <2>2, <3>1 DEF Relies, Types
      <4>2. attached[q] # a
        BY <3>1, <4>1
      <4>3. \A b \in Seg \ {a} : seg'[b] = seg[b]
        BY <1>0, <2>2, BecomesFacts
      <4> QED
        BY <4>1, <4>2, <4>3
    <3> HIDE DEF v
    <3> QED
      BY <2>2, <2>3, <3>1, FoundKept, Zenon DEF Calm
  <2>5. CountInv'
    <3>1. CASE raced
      <4>1. Here' = Here /\ There' = There
        BY <2>3, CalmSets, Zenon
      <4> QED
        BY <2>2, <3>1, <4>1, Zenon DEF CountInv
    <3>2. CASE ~raced
      <4>1. seg[a].pte[i] = v /\ v \in {"none", "out"} /\ shm_swp \in Int /\ shm_rss \in Int
        BY <1>0, <2>1, <2>2, <3>2 DEF Found, ArgOK, Types
      <4> HIDE DEF v
      <4>2. PICK w \in {"in", "out"} : w = "in"
        OBVIOUS
      <4>3. /\ shm_rss' = shm_rss + (IF w = "in" THEN 1 ELSE 0) - (IF v = "in" THEN 1 ELSE 0)
            /\ shm_swp' = shm_swp + (IF w = "out" THEN 1 ELSE 0) - (IF v = "out" THEN 1 ELSE 0)
        BY <2>2, <4>1, <4>2
      <4>4. v \in {"none", "in", "out"} /\ v # w
        BY <4>1, <4>2
      <4>5. Becomes(a, seg[a].seq, seg[a].dest, seg[a].nattch, [seg[a].pte EXCEPT ![i] = w], None)
        BY <2>2, <4>2, Zenon
      <4>6. raced => raced'
        BY <2>2
      <4> QED
        BY <2>1, <2>2, <2>3, <4>1, <4>3, <4>4, <4>5, <4>6, PageCounted, ZenonT(30)
    <3> QED
      BY <3>1, <3>2
  <2> QED
    BY <2>4, <2>5
<1>2. ASSUME NEW a, NEW i, NEW v \in {"in", "out"}, NEW w \in {"in", "out"}, v # w, seg[a].pte[i] = v, i \in Page,
             Becomes(a, seg[a].seq, seg[a].dest, seg[a].nattch, [seg[a].pte EXCEPT ![i] = w], seg[a].sem),
             Calm(None), shm_tot' = shm_tot, used_segs' = used_segs, raced => raced',
             shm_rss' = shm_rss + (IF w = "in" THEN 1 ELSE 0) - (IF v = "in" THEN 1 ELSE 0),
             shm_swp' = shm_swp + (IF w = "out" THEN 1 ELSE 0) - (IF v = "out" THEN 1 ELSE 0)
      PROVE  CountInv'
  <2>1. v \in {"none", "in", "out"}
    OBVIOUS
  <2> QED
    BY <1>2, <2>1, PageCounted, Zenon
<1>3. ASSUME NEW a, NEW i, Swaps(a, i) \/ Unuses(a, i) PROVE Found' /\ CountInv'
  <2>0. Calm(None) /\ shm_swp \in Int /\ shm_rss \in Int
    BY <1>0, <1>3, OthersCalm, Zenon DEF Types
  <2>1. PICK v \in {"in", "out"}, w \in {"in", "out"} :
          /\ v # w /\ seg[a].pte[i] = v /\ i \in Page
          /\ Becomes(a, seg[a].seq, seg[a].dest, seg[a].nattch, [seg[a].pte EXCEPT ![i] = w], seg[a].sem)
          /\ shm_rss' = shm_rss + (IF w = "in" THEN 1 ELSE 0) - (IF v = "in" THEN 1 ELSE 0)
          /\ shm_swp' = shm_swp + (IF w = "out" THEN 1 ELSE 0) - (IF v = "out" THEN 1 ELSE 0)
    <3>1. CASE Swaps(a, i)
      <4>1. shm_rss' = shm_rss + 0 - 1 /\ shm_swp' = shm_swp + 1 - 0
        BY <2>0, <3>1 DEF Swaps, Turns
      <4>2. /\ seg[a].pte[i] = "in" /\ i \in Page
            /\ Becomes(a, seg[a].seq, seg[a].dest, seg[a].nattch, [seg[a].pte EXCEPT ![i] = "out"], seg[a].sem)
        BY <3>1, Zenon DEF Swaps, Turns
      <4> QED
        BY <4>1, <4>2, Zenon
    <3>2. CASE Unuses(a, i)
      <4>1. shm_rss' = shm_rss + 1 - 0 /\ shm_swp' = shm_swp + 0 - 1
        BY <2>0, <3>2 DEF Unuses, Turns
      <4>2. /\ seg[a].pte[i] = "out" /\ i \in Page
            /\ Becomes(a, seg[a].seq, seg[a].dest, seg[a].nattch, [seg[a].pte EXCEPT ![i] = "in"], seg[a].sem)
        BY <3>2, Zenon DEF Unuses, Turns
      <4> QED
        BY <4>1, <4>2, Zenon
    <3> QED
      BY <1>3, <3>1, <3>2
  <2>2. shm_tot' = shm_tot /\ used_segs' = used_segs /\ (raced => raced') /\ UNCHANGED <<attached, pc, arg>>
    BY <1>3 DEF Swaps, Unuses, Turns
  <2>3. CountInv'
    BY <1>2, <2>0, <2>1, <2>2, Zenon
  <2>4. a \in Seg /\ seg'[a].pte = [seg[a].pte EXCEPT ![i] = w] /\ \A b \in Seg \ {a} : seg'[b] = seg[b]
    BY <1>0, <2>1, BecomesFacts
  <2>5. seg[a].pte \in [Page -> {"none", "in", "out"}]
    <3>1. seg[a] # None
      BY <2>1 DEF Becomes
    <3> QED
      BY <1>0, <2>4, <3>1, InFacts, FieldTypes, Zenon
  <2>6. ASSUME NEW q \in Proc, pc[q] = "fault", ~raced', ~raced
        PROVE  seg'[attached[q]].pte[arg[q].page] = arg[q].was
    <3>1. /\ attached[q] \in Seg /\ seg[attached[q]].pte[arg[q].page] = arg[q].was
          /\ arg[q].page \in Page /\ arg[q].was \in {"none", "out"}
      BY <1>0, <2>6 DEF Relies, Found, ArgOK, Types
    <3>2. CASE attached[q] # a
      BY <2>4, <3>1, <3>2
    <3>3. CASE attached[q] = a /\ arg[q].page # i
      BY <2>4, <2>5, <3>1, <3>3
    <3>4. CASE attached[q] = a /\ arg[q].page = i
      <4>1. Unuses(a, i)
        BY <1>3, <3>1, <3>4 DEF Swaps
      <4> QED
        BY <2>6, <3>4, <4>1, Zenon DEF Unuses
    <3> QED
      BY <3>2, <3>3, <3>4
  <2>7. Found'
    BY <2>2, <2>6, Zenon DEF Found
  <2> QED
    BY <2>3, <2>7
<1> QED
  BY <1>1, <1>3

LEMMA TablePages ==
  ASSUME FiniteLaws, LifeInv, LifeInv', Found, CountInv, NEW p \in Proc,
         (\E a : Creates(p, a)) \/ (\E a : KillBegins(p, a)) \/ KillEnd(p)
  PROVE  Found' /\ CountInv'
<1>0. Types /\ Size \in Nat /\ shm_rss \in Int /\ shm_swp \in Int
  BY Consts DEF LifeInv, Types
<1>1. Alone(p) /\ pc'[p] # "fault" /\ raced' = raced
  <2>1. raced' = raced /\ \E at \in {"kill", "user"}, x \in Seg \cup {None} : Go(p, at, x)
    BY Creation, Killing, Zenon DEF Creates, KillBegins, KillEnd, Done
  <2>2. PICK at \in {"kill", "user"}, x \in Seg \cup {None} : Go(p, at, x)
    BY <2>1
  <2>3. at \in Pc /\ at # "fault"
    BY <2>2 DEF Pc
  <2>4. attached' \in [Proc -> Seg \cup {None}] /\ \A q \in Proc \ {p} : attached'[q] = attached[q]
    <3>1. attached' = [attached EXCEPT ![p] = attached'[p]] \/ attached' = attached
      BY Zenon DEF Creates, KillBegins, KillEnd
    <3> QED
      BY <1>0, <3>1 DEF LifeInv, Types
  <2> QED
    BY <1>0, <2>1, <2>2, <2>3, <2>4, GoFacts, Zenon DEF Alone
<1>2. ASSUME PtesKept PROVE Found'
  <2>1. \A q \in Proc \ {p} : pc[q] = "fault" => seg'[attached[q]].pte = seg[attached[q]].pte
    BY <1>1, <1>2, FaultPtes, Zenon
  <2> QED
    BY <1>1, <2>1, FoundKept, Zenon
<1>3. raced \/ (shm_rss = Cardinality(PagesOf("in")) /\ shm_swp = Cardinality(PagesOf("out")))
  BY Zenon DEF CountInv
<1>4. used_segs = Cardinality(Here) /\ shm_tot = Size * Cardinality(There)
  BY Zenon DEF CountInv
<1>5. ASSUME NEW a, Creates(p, a) PROVE Found' /\ CountInv'
  <2>1. a \in Seg /\ AllBut(a) /\ seg[a] = None /\ In(a)' /\ seg'[a].pte = [i \in Page |-> "none"]
    BY <1>5, Creation, Zenon
  <2>2. \A b \in Seg \ {a} : seg'[b] = seg[b] /\ (In(b)' <=> In(b))
    BY <2>1 DEF AllBut
  <2>3. Here' = Here \cup {a} /\ a \notin Here
    BY <2>1, <2>2 DEF Here, In
  <2>4. There' = There \cup {a} /\ a \notin There
    BY <2>1, <2>2 DEF There, In
  <2>5. Cardinality(Here') = Cardinality(Here) + 1 /\ Cardinality(There') = Cardinality(There) + 1
    BY <2>3, <2>4, PagesFinite, Zenon DEF FiniteLaws, AddSize
  <2>6. /\ used_segs' = used_segs + 1 /\ shm_tot' = shm_tot + Size /\ shm_rss' = shm_rss /\ shm_swp' = shm_swp
    BY <1>5 DEF Creates
  <2>7. used_segs' = Cardinality(Here') /\ shm_tot' = Size * Cardinality(There')
    BY <1>0, <1>4, <2>5, <2>6, PagesFinite
  <2>8. ASSUME NEW w \in {"in", "out"} PROVE PagesOf(w)' = PagesOf(w)
    <3>1. ASSUME NEW x \in Seg \X Page
          PROVE  (seg'[x[1]] # None /\ seg'[x[1]].pte[x[2]] = w) <=> (seg[x[1]] # None /\ seg[x[1]].pte[x[2]] = w)
      <4>1. CASE x[1] = a
        BY <2>1, <2>8, <4>1
      <4>2. CASE x[1] # a
        BY <2>2, <4>2
      <4> QED
        BY <4>1, <4>2
    <3> QED
      BY <3>1, Zenon DEF PagesOf
  <2>9. CountInv'
    <3>1. PagesOf("in")' = PagesOf("in") /\ PagesOf("out")' = PagesOf("out")
      BY <2>8
    <3> QED
      BY <1>1, <1>3, <2>6, <2>7, <3>1, Zenon DEF CountInv
  <2>10. PtesKept
    BY <2>1, <2>2, Zenon DEF PtesKept
  <2> QED
    BY <1>2, <2>9, <2>10
<1>6. ASSUME NEW a, KillBegins(p, a) PROVE Found' /\ CountInv'
  <2>1. a \in Seg /\ AllBut(a) /\ In(a) /\ ~In(a)' /\ seg'[a] # None /\ seg'[a].pte = seg[a].pte
    BY <1>6, Killing, Zenon
  <2>2. \A b \in Seg \ {a} : seg'[b] = seg[b] /\ (In(b)' <=> In(b))
    BY <2>1 DEF AllBut
  <2>3. Here' = Here \ {a} /\ a \in Here
    BY <2>1, <2>2 DEF Here
  <2>4. There' = There
    BY <2>1, <2>2 DEF There, In
  <2>5. Cardinality(Here') = Cardinality(Here) - 1
    BY <2>3, PagesFinite, Zenon DEF FiniteLaws, RemoveSize
  <2>6. used_segs' = used_segs - 1 /\ shm_tot' = shm_tot /\ shm_rss' = shm_rss /\ shm_swp' = shm_swp
    BY <1>6 DEF KillBegins
  <2>7. PtesKept
    BY <2>1, <2>2, Zenon DEF PtesKept
  <2>8. \A w : PagesOf(w)' = PagesOf(w)
    BY <2>4, <2>7, SamePages, Zenon
  <2>9. CountInv'
    BY <1>1, <1>3, <1>4, <2>4, <2>5, <2>6, <2>8, Zenon DEF CountInv
  <2> QED
    BY <1>2, <2>7, <2>9
<1>7. CASE KillEnd(p)
  <2>1. PICK a \in Seg : a = arg[p] /\ AllBut(a) /\ ~In(a) /\ seg[a] # None /\ seg'[a] = None
    BY <1>7, Freeing, Zenon
  <2>2. \A b \in Seg \ {a} : seg'[b] = seg[b] /\ (In(b)' <=> In(b))
    BY <2>1 DEF AllBut
  <2>3. Here' = Here
    BY <2>1, <2>2 DEF Here, In
  <2>4. There' = There \ {a} /\ a \in There
    BY <2>1, <2>2 DEF There
  <2>5. Cardinality(There') = Cardinality(There) - 1
    BY <2>4, PagesFinite, Zenon DEF FiniteLaws, RemoveSize
  <2>6. /\ shm_rss' = shm_rss - Number(a, "in") /\ shm_swp' = shm_swp - Number(a, "out")
        /\ shm_tot' = shm_tot - Size /\ used_segs' = used_segs
    BY <1>7, <2>1, Zenon DEF KillEnd
  <2>7. used_segs' = Cardinality(Here') /\ shm_tot' = Size * Cardinality(There')
    BY <1>0, <1>4, <2>3, <2>5, <2>6, PagesFinite
  <2>8. ASSUME NEW w PROVE Cardinality(PagesOf(w)') = Cardinality(PagesOf(w)) - Number(a, w)
    <3> DEFINE I == {i \in Page : seg[a].pte[i] = w}
               D == {a} \X I
    <3>1. PagesOf(w)' = PagesOf(w) \ D /\ D \subseteq PagesOf(w)
      <4>1. ASSUME NEW x \in Seg \X Page
            PROVE  (seg'[x[1]] # None /\ seg'[x[1]].pte[x[2]] = w)
                     <=> (seg[x[1]] # None /\ seg[x[1]].pte[x[2]] = w /\ x \notin D)
        <5>1. CASE x[1] = a
          BY <2>1, <5>1
        <5>2. CASE x[1] # a
          BY <2>2, <5>2
        <5> QED
          BY <5>1, <5>2
      <4>2. ASSUME NEW x \in D PROVE x \in Seg \X Page /\ seg[x[1]] # None /\ seg[x[1]].pte[x[2]] = w
        BY <2>1
      <4> HIDE DEF D
      <4> QED
        BY <4>1, <4>2 DEF PagesOf
    <3>2. IsFiniteSet(I)
      <4>1. I \in SUBSET Page
        OBVIOUS
      <4>2. IsFiniteSet(Page)
        BY PageFinite
      <4> QED
        BY <4>1, <4>2, Zenon DEF FiniteLaws, SubsetSize
    <3>3. Number(a, w) = Cardinality(I)
      BY DEF Number
    <3> HIDE DEF I
    <3>4. IsFiniteSet(D) /\ Cardinality(D) = Cardinality(I)
      BY <3>2, Zenon DEF FiniteLaws, SliceSize
    <3> HIDE DEF D
    <3>5. PagesOf(w) \cap D = D
      BY <3>1
    <3>6. Cardinality(PagesOf(w) \ D) = Cardinality(PagesOf(w)) - Cardinality(PagesOf(w) \cap D)
      BY PagesFinite, Zenon DEF FiniteLaws, DifferenceSize
    <3> QED
      BY <3>1, <3>3, <3>4, <3>5, <3>6, Zenon
  <2>9. CountInv'
    <3>1. raced \/ (shm_rss' = Cardinality(PagesOf("in")') /\ shm_swp' = Cardinality(PagesOf("out")'))
      BY <1>3, <2>6, <2>8, Zenon
    <3> QED
      BY <1>1, <2>7, <3>1, Zenon DEF CountInv
  <2>10. PtesKept
    BY <2>1, <2>2, Zenon DEF PtesKept
  <2> QED
    BY <1>2, <2>9, <2>10
<1> QED
  BY <1>5, <1>6, <1>7

-----------------------------------------------------------------------------
(* The inductive invariant.                                                *)
ShmInv == LifeInv /\ Found /\ CountInv

LEMMA ShmInit ==
  ASSUME FiniteLaws
  PROVE  Init => ShmInv
<1> SUFFICES ASSUME Init PROVE ShmInv
  OBVIOUS
<1>1. /\ \A id \in Ids : shm_segs[id] = Unused
      /\ \A a \in Seg : seg[a] = None
      /\ \A p \in Proc : attached[p] = None /\ pc[p] = "user"
  BY DEF Init
<1>2. Types
  <2>1. shm_segs \in [Ids -> Seg \cup {Unused, NoId}] /\ seg \in [Seg -> Segment \cup {None}]
    BY DEF Init
  <2>2. /\ max_shmid \in Int /\ shm_seq \in Nat
        /\ shm_tot \in Int /\ shm_rss \in Int /\ shm_swp \in Int /\ used_segs \in Int
    <3>1. /\ max_shmid = -1 /\ shm_seq = 0
          /\ shm_tot = 0 /\ shm_rss = 0 /\ shm_swp = 0 /\ used_segs = 0
      BY Zenon DEF Init
    <3> QED
      BY <3>1
  <2>r. raced \in BOOLEAN
    BY Zenon DEF Init
  <2>3. attached \in [Proc -> Seg \cup {None}] /\ pc \in [Proc -> Pc] /\ DOMAIN arg = Proc
    BY DEF Init, Pc
  <2>4. \A p \in Proc : ArgOK(p)
    BY <1>1 DEF ArgOK
  <2> QED
    BY <2>1, <2>2, <2>r, <2>3, <2>4, Zenon DEF Types
<1>3. Table /\ Used /\ Apart /\ \A p \in Proc : Relies(p)
  BY <1>1, Zenon DEF Table, Holds, Used, Apart, Relies
<1>4. (\A a \in Seg : ~In(a)) /\ Here = {} /\ There = {} /\ \A w : PagesOf(w) = {}
  BY <1>1 DEF In, Here, There, PagesOf
<1>5. Counted /\ Found
  BY <1>1, <1>4, Zenon DEF Counted, Found
<1>6. CountInv
  <2>1. Cardinality({}) = 0
    BY DEF FiniteLaws, EmptySize
  <2>2. Size * 0 = 0
    BY Consts
  <2>3. shm_tot = 0 /\ shm_rss = 0 /\ shm_swp = 0 /\ used_segs = 0
    BY DEF Init
  <2> QED
    BY <1>4, <2>1, <2>2, <2>3, Zenon DEF CountInv
<1> QED
  BY <1>2, <1>3, <1>5, <1>6, Zenon DEF ShmInv, LifeInv

LEMMA ShmNext ==
  ASSUME FiniteLaws
  PROVE  ShmInv /\ Next => ShmInv'
<1> SUFFICES ASSUME ShmInv, Next PROVE ShmInv'
  OBVIOUS
<1>1. LifeInv /\ Found /\ CountInv /\ LifeInv'
  BY LifeStep, Zenon DEF ShmInv
<1>2. Step
  BY <1>1, Cases, Zenon
<1>3. ASSUME NEW p \in Proc,
             \/ Idles(p) \/ (\E a : Attaches(p, a)) \/ Maps(p) \/ (\E a : Leaves(p, a)) \/ (\E q \in Proc : Forks(p, q))
             \/ (\E i : Faults(p, i)) \/ FaultFails(p) \/ (\E a : Marks(a)) \/ (\E id : TakesSlot(p, id)) \/ GivesBack(p)
      PROVE  Found' /\ CountInv'
  BY <1>1, <1>3, CallPages, Zenon
<1>4. ASSUME NEW a, Marks(a) PROVE Found' /\ CountInv'
  <2>1. a \in Seg /\ In(a) /\ seg[a].nattch > 0
    BY <1>4, Zenon DEF Marks, Becomes
  <2>2. Cardinality(Attaching(a)) > 0
    BY <1>1, <2>1, Zenon DEF LifeInv, Counted
  <2>3. Attaching(a) # {}
    BY <2>2 DEF FiniteLaws, EmptySize
  <2>4. PICK p \in Proc : TRUE
    BY <2>3, Zenon DEF Attaching
  <2> QED
    BY <1>3, <1>4, <2>4, Zenon
<1>5. ASSUME NEW p \in Proc, (\E a : Creates(p, a)) \/ (\E a : KillBegins(p, a)) \/ KillEnd(p)
      PROVE  Found' /\ CountInv'
  BY <1>1, <1>5, TablePages, Zenon
<1>6. ASSUME (\E p \in Proc : FaultEnters(p)) \/ \E a, i : Swaps(a, i) \/ Unuses(a, i) PROVE Found' /\ CountInv'
  BY <1>1, <1>6, TurnPages, Zenon
<1>7. Found' /\ CountInv'
  BY <1>2, <1>3, <1>4, <1>5, <1>6, Zenon DEF Step
<1> QED
  BY <1>1, <1>7, Zenon DEF ShmInv

LEMMA ShmStutter == ShmInv /\ UNCHANGED vars => ShmInv'
<1> SUFFICES ASSUME ShmInv, UNCHANGED vars PROVE ShmInv'
  OBVIOUS
<1>1. /\ shm_segs' = shm_segs /\ seg' = seg /\ max_shmid' = max_shmid /\ shm_seq' = shm_seq
      /\ shm_tot' = shm_tot /\ shm_rss' = shm_rss /\ shm_swp' = shm_swp /\ used_segs' = used_segs
      /\ attached' = attached /\ pc' = pc /\ arg' = arg /\ raced' = raced
  BY Zenon DEF vars, counts
<1>2. Types' /\ Table' /\ Used' /\ Apart'
  BY <1>1 DEF ShmInv, LifeInv, Types, ArgOK, Table, Holds, Used, Kills, In, Apart
<1>3. (\A p \in Proc : Relies(p))'
  BY <1>1 DEF ShmInv, LifeInv, Relies, In
<1>4. Counted' /\ Found'
  BY <1>1 DEF ShmInv, LifeInv, Counted, Attaching, Found, In
<1>5. CountInv'
  BY <1>1 DEF ShmInv, CountInv, Here, There, PagesOf, In
<1> QED
  BY <1>2, <1>3, <1>4, <1>5, Zenon DEF ShmInv, LifeInv

(* The sets that the properties speak of.                                  *)
LEMMA Sets ==
  ASSUME LifeInv
  PROVE  InTable = Here /\ InTable \cup Dying = There /\ InTable \cap Dying = {}
<1>0. Types /\ Table /\ Used /\ \A p \in Proc : Relies(p) /\ ArgOK(p)
  BY DEF LifeInv, Types
<1>1. InTable = Here
  <2>1. ASSUME NEW a \in InTable PROVE a \in Here
    BY <1>0, HeldIn DEF InTable, Here
  <2>2. ASSUME NEW a \in Here PROVE a \in InTable
    <3>1. a \in Seg /\ In(a) /\ seg[a].id \in Ids /\ shm_segs[seg[a].id] = a
      BY <1>0, InFacts DEF Here, In
    <3>2. Holds(seg[a].id)
      BY <3>1, Consts DEF Holds
    <3> QED
      BY <3>1, <3>2, Zenon DEF InTable
  <2> QED
    BY <2>1, <2>2, Zenon
<1>2. ASSUME NEW a \in Dying PROVE a \in There /\ a \notin Here
  BY <1>0 DEF Dying, Relies, ArgOK, There, Here
<1>3. ASSUME NEW a \in There PROVE a \in Here \/ a \in Dying
  BY <1>0, Zenon DEF Used, Kills, There, Here, Dying
<1>4. ASSUME NEW a \in Here PROVE a \in There
  BY DEF Here, There, In
<1> QED
  BY <1>1, <1>2, <1>3, <1>4, Zenon

LEMMA InvLifetime == ShmInv => Lifetime
<1> SUFFICES ASSUME ShmInv PROVE Lifetime
  OBVIOUS
<1>0. LifeInv /\ Types /\ Table /\ Counted /\ \A p \in Proc : Relies(p) /\ ArgOK(p)
  BY DEF ShmInv, LifeInv, Types
<1>1. InTable = Here /\ InTable \cup Dying = There /\ InTable \cap Dying = {}
  BY <1>0, Sets, Zenon
<1>2. ASSUME NEW a \in InTable
      PROVE  /\ shm_segs[seg[a].id] = a /\ seg[a].id <= max_shmid
             /\ seg[a].nattch = Cardinality(Attaching(a))
             /\ seg[a].dest => Attaching(a) # {}
  <2>1. a \in Seg /\ In(a)
    BY <1>1 DEF Here
  <2>2. seg[a].id \in Ids /\ shm_segs[seg[a].id] = a /\ Holds(seg[a].id)
    BY <1>0, <2>1, InFacts, Consts DEF In, Holds
  <2> QED
    BY <1>0, <2>1, <2>2, Zenon DEF Table, Counted
<1>3. ASSUME NEW a \in Seg, Attaching(a) # {} PROVE a \in InTable
  <2>1. PICK p \in Proc : attached[p] = a \/ (pc[p] = "map" /\ arg[p].shp = a)
    BY <1>3, Zenon DEF Attaching
  <2>2. a # None
    BY Consts
  <2>3. In(a)
    <3>1. CASE attached[p] = a
      BY <1>0, <2>2, <3>1, Zenon DEF Relies
    <3>2. CASE pc[p] = "map" /\ arg[p].shp = a
      BY <1>0, <3>2, Zenon DEF Relies
    <3> QED
      BY <2>1, <3>1, <3>2, Zenon
  <2> QED
    BY <1>1, <2>3 DEF Here
<1>4. \A p \in Proc : pc[p] = "map" => seg[arg[p].shp].seq = arg[p].h[1]
  BY <1>0, Zenon DEF Relies
<1>5. {a \in Seg : seg[a] # None} = InTable \cup Dying
  BY <1>1, Zenon DEF There
<1> QED
  BY <1>1, <1>2, <1>3, <1>4, <1>5, Zenon DEF Lifetime

LEMMA InvPages == ShmInv => PagesCounted
<1> SUFFICES ASSUME ShmInv PROVE PagesCounted
  OBVIOUS
<1>1. InTable = Here /\ InTable \cup Dying = There
  BY Sets, Zenon DEF ShmInv
<1>2. ASSUME NEW w PROVE Pages(w) = PagesOf(w)
  <2>1. ASSUME NEW x PROVE x \in There \X Page <=> x \in Seg \X Page /\ seg[x[1]] # None
    BY DEF There
  <2> QED
    BY <1>1, <2>1, Zenon DEF Pages, PagesOf
<1> QED
  BY <1>1, <1>2, Zenon DEF ShmInv, CountInv, PagesCounted

-----------------------------------------------------------------------------
INSTANCE DataProofs

LEMMA ShmAlways == Spec => []ShmInv
<1>1. Init => ShmInv
  BY ShmInit, FiniteLawsHold
<1>2. ShmInv /\ [Next]_vars => ShmInv'
  BY ShmNext, ShmStutter, FiniteLawsHold
<1> QED
  BY <1>1, <1>2, PTL DEF Spec

(* A segment lives exactly as long as it should: counted attaches, in its  *)
(* slot while there is one, gone with the last once marked SHM_DEST, and   *)
(* the one that shmat() was asked for.                                     *)
THEOREM LifetimeHolds == Spec => []Lifetime
BY ShmAlways, InvLifetime, PTL

(* used_segs, shm_tot, shm_rss and shm_swp are those of the segments and   *)
(* of those being freed, up to a page that shm_unuse() and a fault make    *)
(* present both.                                                           *)
THEOREM PagesCountedHolds == Spec => []PagesCounted
BY ShmAlways, InvPages, PTL
=============================================================================
