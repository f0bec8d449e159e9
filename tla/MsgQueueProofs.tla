--------------------------- MODULE MsgQueueProofs ---------------------------
(***************************************************************************)
(* Message queues, for every set of processes, every menu of messages and  *)
(* receives and every limit: the search finds the right message; nothing   *)
(* is lost, doubled or overtaken; nobody is forgotten; the counters agree. *)
(***************************************************************************)
EXTENDS MsgQueue, DataLaws, TLAPS

(***************************************************************************)
(* No simple type fits None \in None.  A leaf that has it among its facts is *)
(* given to the SMT solver in the untyped translation, which is the same   *)
(* wherever the leaf stands; it says nothing else.                         *)
(***************************************************************************)
LEMMA Untyped == None \in None => TRUE
  OBVIOUS
USE Untyped

-----------------------------------------------------------------------------
(***************************************************************************)
(* The search loop of sys_msgrcv().                                        *)
(***************************************************************************)
ScanOf(g, ms, r, i) ==
    IF i = 0 THEN [at |-> 0, msgtyp |-> Abs(r.msgtyp), done |-> FALSE]
    ELSE LET b == g[i-1] IN
         IF b.done \/ ~Testmsg(ms[i].type, b.msgtyp, ConvertMode(r)) THEN b
         ELSE IF ConvertMode(r) = "LESSEQUAL" /\ ms[i].type # 1
           THEN [at |-> i, msgtyp |-> Below(ms[i].type), done |-> FALSE]
           ELSE [b EXCEPT !.at = i, !.done = TRUE]
IsScan(g, ms, r, n) == g = [i \in 0..n |-> ScanOf(g, ms, r, i)]

LEMMA FindMsgIsScan ==
  ASSUME NEW ms, NEW r
  PROVE  FindMsg(ms, r) = (CHOOSE g : IsScan(g, ms, r, Len(ms)))[Len(ms)].at
BY DEF FindMsg, IsScan, ScanOf

LEMMA ScanExists ==
  ASSUME FiniteLaws, NEW ms, NEW r, NEW n \in Nat
  PROVE  \E g : IsScan(g, ms, r, n)
<1> DEFINE N == {m \in Nat : \E g : IsScan(g, ms, r, m)}
<1>1. 0 \in N
  <2>1. IsScan([i \in 0..0 |-> [at |-> 0, msgtyp |-> Abs(r.msgtyp), done |-> FALSE]], ms, r, 0)
    BY DEF IsScan, ScanOf
  <2> QED
    BY <2>1
<1>2. ASSUME NEW m \in N PROVE m + 1 \in N
  <2>1. PICK g : IsScan(g, ms, r, m)
    OBVIOUS
  <2> DEFINE h == [i \in 0..(m + 1) |-> ScanOf(g, ms, r, i)]
  <2>2. \A i \in 0..m : h[i] = g[i]
    <3>1. 0..m \subseteq 0..(m + 1)
      OBVIOUS
    <3>2. \A i \in 0..m : g[i] = ScanOf(g, ms, r, i)
      BY <2>1, Zenon DEF IsScan
    <3> QED
      BY <3>1, <3>2, Zenon
  <2>3. ASSUME NEW i \in 0..(m + 1) PROVE ScanOf(g, ms, r, i) = ScanOf(h, ms, r, i)
    <3>1. i = 0 \/ i - 1 \in 0..m
      OBVIOUS
    <3>2. CASE i = 0
      BY <3>2, Zenon DEF ScanOf
    <3>3. CASE i # 0
      <4>1. h[i-1] = g[i-1]
        BY <2>2, <3>1, <3>3, Zenon
      <4> HIDE DEF h
      <4> QED
        BY <3>3, <4>1, Zenon DEF ScanOf
    <3> QED
      BY <3>2, <3>3
  <2>4. IsScan(h, ms, r, m + 1)
    BY <2>3, Zenon DEF IsScan
  <2> QED
    BY <2>4
<1>3. N = Nat
  <2>1. N \in SUBSET Nat
    OBVIOUS
  <2> HIDE DEF N
  <2> QED
    BY <1>1, <1>2, <2>1 DEF FiniteLaws, AllNumbers
<1> QED
  BY <1>3, Zenon

(* What the search prefers: with a negative msgtyp smaller types, and then *)
(* the message that was sent first.                                        *)
Rank(ms, r, i)    == IF r.msgtyp < 0 THEN ms[i].type ELSE 0
Sooner(ms, r, i, j) == \/ Rank(ms, r, i) < Rank(ms, r, j)
                       \/ Rank(ms, r, i) = Rank(ms, r, j) /\ i <= j
Typed(ms)         == \A i \in 1..Len(ms) : ms[i].type \in Nat \ {0}

(* The loop after it has looked at the first i messages.                   *)
Seen(ms, r, i) == {j \in 1..i : Suits(ms[j], r)}
ScanInv(b, ms, r, i) ==
    /\ b \in [at : Nat, msgtyp : Int, done : BOOLEAN]
    /\ b.at = 0 => Seen(ms, r, i) = {} /\ b.msgtyp = Abs(r.msgtyp) /\ ~b.done
    /\ b.at # 0 => b.at \in Seen(ms, r, i) /\ \A j \in Seen(ms, r, i) : Sooner(ms, r, b.at, j)
    /\ r.msgtyp >= 0 => b.msgtyp = Abs(r.msgtyp) /\ (b.at # 0 => b.done)
    /\ r.msgtyp < 0 /\ b.at # 0 => IF b.done THEN ms[b.at].type = 1
                                             ELSE b.msgtyp = ms[b.at].type - 1

LEMMA GoesOn ==
  ASSUME NEW x \in Nat, NEW y \in Int, NEW c, c = [at |-> x, msgtyp |-> y, done |-> FALSE]
  PROVE  c \in [at : Nat, msgtyp : Int, done : BOOLEAN] /\ c.at = x /\ c.msgtyp = y /\ ~c.done
OBVIOUS

LEMMA Stops ==
  ASSUME NEW x \in Nat, NEW b \in [at : Nat, msgtyp : Int, done : BOOLEAN],
         NEW c, c = [b EXCEPT !.at = x, !.done = TRUE]
  PROVE  c \in [at : Nat, msgtyp : Int, done : BOOLEAN] /\ c.at = x /\ c.msgtyp = b.msgtyp /\ c.done
BY Zenon

LEMMA ScanStep ==
  ASSUME NEW ms, NEW r, r.msgtyp \in Int, Typed(ms), Len(ms) \in Nat,
         NEW g, NEW i \in Nat, i < Len(ms), ScanInv(g[i], ms, r, i),
         g[i + 1] = ScanOf(g, ms, r, i + 1)
  PROVE  ScanInv(g[i + 1], ms, r, i + 1)
<1> DEFINE b == g[i]
           t == ms[i + 1].type
<1>1. i + 1 # 0 /\ (i + 1) - 1 = i /\ i + 1 \in 1..Len(ms) /\ t \in Nat \ {0}
  BY DEF Typed
<1>2. Seen(ms, r, i + 1) = Seen(ms, r, i) \cup {j \in {i + 1} : Suits(ms[j], r)}
  <2>1. 1..(i + 1) = 1..i \cup {i + 1}
    OBVIOUS
  <2> QED
    BY <2>1 DEF Seen
<1>3. \A j \in Seen(ms, r, i) : j \in 1..i /\ j \in 1..Len(ms) /\ ms[j].type \in Nat \ {0}
  BY DEF Seen, Typed
<1>4. /\ ConvertMode(r) = "LESSEQUAL" <=> r.msgtyp < 0
      /\ r.msgtyp >= 0 => (Suits(ms[i + 1], r) <=> Testmsg(t, Abs(r.msgtyp), ConvertMode(r)))
      /\ r.msgtyp < 0 => (Suits(ms[i + 1], r) <=> t <= -r.msgtyp)
      /\ \A k : r.msgtyp < 0 => (Testmsg(t, k, ConvertMode(r)) <=> t <= k)
  BY DEF ConvertMode, Suits, Testmsg, Abs
<1>5. \A j \in Seen(ms, r, i) : r.msgtyp < 0 => ms[j].type <= -r.msgtyp
  BY DEF Seen, Suits, Testmsg, ConvertMode, Abs
<1>6. CASE b.done \/ ~Testmsg(t, b.msgtyp, ConvertMode(r))
  <2>1. g[i + 1] = b
    BY <1>1, <1>6, Zenon DEF ScanOf
  <2>2. ASSUME Suits(ms[i + 1], r) PROVE b.at # 0 /\ Sooner(ms, r, b.at, i + 1)
    <3>1. /\ b.at = 0 => b.msgtyp = Abs(r.msgtyp) /\ ~b.done
          /\ b.at # 0 => b.at \in Seen(ms, r, i)
      BY DEF ScanInv
    <3>2. CASE r.msgtyp >= 0
      <4>1. b.done
        BY <1>4, <1>6, <2>2, <3>2 DEF ScanInv
      <4>2. b.at # 0 /\ b.at \in 1..i
        BY <1>3, <3>1, <4>1
      <4> QED
        BY <1>1, <3>2, <4>2 DEF Sooner, Rank
    <3>3. CASE ~(r.msgtyp >= 0)
      <4>0. r.msgtyp < 0 /\ t <= -r.msgtyp /\ (~b.done => ~(t <= b.msgtyp)) /\ Abs(r.msgtyp) = -r.msgtyp
        BY <1>4, <1>6, <2>2, <3>3 DEF Abs
      <4>1. b.at # 0
        BY <3>1, <4>0
      <4>2. b.at \in 1..i /\ ms[b.at].type \in Nat \ {0}
        BY <1>3, <3>1, <4>1
      <4>3. IF b.done THEN ms[b.at].type = 1 ELSE b.msgtyp = ms[b.at].type - 1
        BY <4>0, <4>1 DEF ScanInv
      <4>4. ms[b.at].type <= t
        BY <1>1, <4>0, <4>2, <4>3, SMTT(20)
      <4> QED
        BY <1>1, <4>0, <4>1, <4>2, <4>4 DEF Sooner, Rank
    <3> QED
      BY <3>2, <3>3
  <2> QED
    BY <1>2, <2>1, <2>2 DEF ScanInv
<1>7. CASE ~b.done /\ Testmsg(t, b.msgtyp, ConvertMode(r))
  <2>1. /\ r.msgtyp >= 0 => b.at = 0 /\ b.msgtyp = Abs(r.msgtyp) /\ Seen(ms, r, i) = {}
        /\ r.msgtyp < 0 /\ b.at = 0 => t <= -r.msgtyp /\ Seen(ms, r, i) = {}
        /\ r.msgtyp < 0 /\ b.at # 0 => /\ b.at \in Seen(ms, r, i) /\ t < ms[b.at].type
                                      /\ \A j \in Seen(ms, r, i) : ms[b.at].type <= ms[j].type
    <3>1. b.msgtyp \in Int /\ b.at \in Nat
      BY DEF ScanInv
    <3>2. r.msgtyp >= 0 => b.at = 0 /\ b.msgtyp = Abs(r.msgtyp) /\ Seen(ms, r, i) = {}
      BY <1>7, Zenon DEF ScanInv
    <3>3. r.msgtyp < 0 => t <= b.msgtyp
      BY <1>4, <1>7, Zenon
    <3>4. r.msgtyp < 0 /\ b.at = 0 => b.msgtyp = -r.msgtyp /\ Seen(ms, r, i) = {}
      BY DEF ScanInv, Abs
    <3>5. r.msgtyp < 0 /\ b.at # 0 => /\ b.at \in Seen(ms, r, i) /\ b.msgtyp = ms[b.at].type - 1
                                     /\ \A j \in Seen(ms, r, i) : Sooner(ms, r, b.at, j)
      BY <1>7, Zenon DEF ScanInv
    <3> HIDE DEF b, t
    <3>6. ASSUME r.msgtyp < 0, b.at # 0, NEW j \in Seen(ms, r, i) PROVE ms[b.at].type <= ms[j].type
      BY <3>5, <3>6, <1>3 DEF Sooner, Rank
    <3> QED
      BY <1>1, <1>3, <3>1, <3>2, <3>3, <3>4, <3>5, <3>6, SMTT(20)
  <2>2. Suits(ms[i + 1], r)
    <3>1. CASE r.msgtyp >= 0
      BY <1>4, <1>7, <2>1, <3>1, Zenon
    <3>2. CASE r.msgtyp < 0
      <4> HIDE DEF b
      <4>1. t <= -r.msgtyp
        BY <1>1, <1>3, <1>5, <2>1, <3>2, SMTT(20)
      <4> QED
        BY <1>4, <3>2, <4>1, Zenon
    <3> QED
      BY <3>1, <3>2
  <2>3. \A j \in Seen(ms, r, i) : Sooner(ms, r, i + 1, j)
    <3> SUFFICES ASSUME NEW j \in Seen(ms, r, i) PROVE Sooner(ms, r, i + 1, j)
      OBVIOUS
    <3>1. r.msgtyp < 0 /\ t < ms[b.at].type /\ ms[b.at].type <= ms[j].type /\ b.at \in Seen(ms, r, i)
      <4> HIDE DEF b
      <4> QED
        BY <2>1
    <3>2. ms[b.at].type \in Nat /\ ms[j].type \in Nat
      BY <1>3, <3>1
    <3> HIDE DEF b
    <3>3. ms[i + 1].type < ms[j].type
      BY <1>1, <3>1, <3>2
    <3>4. Rank(ms, r, i + 1) = ms[i + 1].type /\ Rank(ms, r, j) = ms[j].type
      BY <3>1, Zenon DEF Rank
    <3> QED
      BY <3>3, <3>4, Zenon DEF Sooner
  <2>4. Sooner(ms, r, i + 1, i + 1)
    BY DEF Sooner, Rank
  <2>5. Seen(ms, r, i + 1) = Seen(ms, r, i) \cup {i + 1}
    BY <1>2, <2>2
  <2>6. /\ i + 1 \in Seen(ms, r, i + 1)
        /\ \A j \in Seen(ms, r, i + 1) : Sooner(ms, r, i + 1, j)
    BY <2>3, <2>4, <2>5
  <2>7. CASE r.msgtyp < 0 /\ t # 1
    <3>1. g[i + 1] = [at |-> i + 1, msgtyp |-> t - 1, done |-> FALSE]
      BY <1>1, <1>4, <1>7, <2>7, Zenon DEF ScanOf, Below
    <3> DEFINE c == g[i + 1]
    <3>2. c \in [at : Nat, msgtyp : Int, done : BOOLEAN] /\ c.at = i + 1 /\ c.msgtyp = t - 1 /\ ~c.done
      <4>1. i + 1 \in Nat /\ t - 1 \in Int
        BY <1>1
      <4> HIDE DEF c, t
      <4>2. c = [at |-> i + 1, msgtyp |-> t - 1, done |-> FALSE]
        BY <3>1 DEF c
      <4> QED
        BY <4>1, <4>2, GoesOn
    <3> HIDE DEF c
    <3> QED
      BY <1>1, <2>6, <2>7, <3>2 DEF ScanInv, c
  <2>8. CASE ~(r.msgtyp < 0 /\ t # 1)
    <3>1. g[i + 1] = [b EXCEPT !.at = i + 1, !.done = TRUE]
      BY <1>1, <1>4, <1>7, <2>8, Zenon DEF ScanOf
    <3>2. b \in [at : Nat, msgtyp : Int, done : BOOLEAN] /\ (r.msgtyp >= 0 => b.msgtyp = Abs(r.msgtyp))
      BY <2>1 DEF ScanInv
    <3> DEFINE c == g[i + 1]
    <3>3. c \in [at : Nat, msgtyp : Int, done : BOOLEAN] /\ c.at = i + 1 /\ c.msgtyp = b.msgtyp /\ c.done
      <4>1. i + 1 \in Nat
        OBVIOUS
      <4> QED
        BY <3>1, <3>2, <4>1, Stops, ZenonT(30)
    <3> HIDE DEF c, b
    <3> QED
      BY <1>1, <2>6, <2>8, <3>2, <3>3 DEF ScanInv, c
  <2> QED
    BY <2>7, <2>8
<1> QED
  BY <1>6, <1>7

LEMMA FindMsgCorrect ==
  ASSUME FiniteLaws, NEW ms, NEW r, r.msgtyp \in Int, Typed(ms), Len(ms) \in Nat
  PROVE  LET at == FindMsg(ms, r) IN
         /\ at \in Nat
         /\ at = 0 => Seen(ms, r, Len(ms)) = {}
         /\ at # 0 => at \in Seen(ms, r, Len(ms)) /\ \A j \in Seen(ms, r, Len(ms)) : Sooner(ms, r, at, j)
<1> DEFINE n == Len(ms)
           g == CHOOSE h : IsScan(h, ms, r, n)
           N == {i \in Nat : i <= n => ScanInv(g[i], ms, r, i)}
<1>1. \A i \in 0..n : g[i] = ScanOf(g, ms, r, i)
  <2>1. IsScan(g, ms, r, n)
    BY ScanExists, Zenon
  <2> HIDE DEF g
  <2> QED
    BY <2>1, Zenon DEF IsScan
<1>2. FindMsg(ms, r) = g[n].at
  BY FindMsgIsScan, Zenon
<1> HIDE DEF g
<1>3. 0 \in N
  <2>1. g[0] = [at |-> 0, msgtyp |-> Abs(r.msgtyp), done |-> FALSE]
    <3>1. 0 \in 0..n
      OBVIOUS
    <3> QED
      BY <1>1, <3>1, Zenon DEF ScanOf
  <2>2. Seen(ms, r, 0) = {} /\ Abs(r.msgtyp) \in Int
    BY DEF Seen, Abs
  <2> DEFINE c == g[0]
  <2>3. c \in [at : Nat, msgtyp : Int, done : BOOLEAN] /\ c.at = 0 /\ c.msgtyp = Abs(r.msgtyp) /\ ~c.done
    BY <2>1, <2>2
  <2>4. ScanInv(c, ms, r, 0)
    <3> HIDE DEF c
    <3> QED
      BY <2>2, <2>3 DEF ScanInv
  <2> QED
    BY <2>4
<1>4. \A i \in N : i + 1 \in N
  <2> SUFFICES ASSUME NEW i \in N, i + 1 <= n PROVE ScanInv(g[i + 1], ms, r, i + 1)
    OBVIOUS
  <2>1. i \in Nat /\ i < n /\ i + 1 \in 0..n /\ ScanInv(g[i], ms, r, i)
    OBVIOUS
  <2> QED
    BY <1>1, <2>1, ScanStep
<1>5. N = Nat
  <2>1. N \in SUBSET Nat
    OBVIOUS
  <2> HIDE DEF N
  <2> QED
    BY <1>3, <1>4, <2>1 DEF FiniteLaws, AllNumbers
<1>6. ScanInv(g[n], ms, r, n)
  BY <1>5
<1> QED
  BY <1>2, <1>6 DEF ScanInv

-----------------------------------------------------------------------------
(***************************************************************************)
(* The inductive invariant.                                                *)
(***************************************************************************)
Size    == {s.size : s \in SndMenu}
SndCall == [id : 0..MaxSeq, type : Type, size : Size, nowait : BOOLEAN]
Rmsg    == {Err(e) : e \in {"unused", "EAGAIN", "EIDRM", "E2BIG"}} \cup {Arrived(m) : m \in Message}

(* The senders that sleep or have slept, whose message is still to come.   *)
Sending == {q \in Proc : pc[q] \in {"ssleep", "sawake"}}

Types ==
    /\ qid \in {NoQueue} \cup 0..MaxSeq /\ seq \in 0..(MaxSeq + 1)
    /\ messages \in Seq(Message)
    /\ cbytes \in Int /\ qnum \in Int /\ qbytes \in Nat /\ hdrs \in Int /\ bytes \in Int
    /\ receivers \in Seq(Proc) /\ NoRepeat(receivers)
    /\ senders \in Seq(Proc) /\ NoRepeat(senders)
    /\ lock \in Proc \cup {None}
    /\ pc \in [Proc -> Pc]
    /\ arg \in [Proc -> {None} \cup Proc \cup SndCall \cup RcvMenu]
    /\ rmsg \in [Proc -> Rmsg]
    /\ sig \in [Proc -> BOOLEAN]
    /\ sent \in Nat /\ sent + Cardinality(Sending) <= MaxMsgs
    /\ returned \in [1..MaxMsgs -> Nat]
    /\ purged \subseteq 1..MaxMsgs
    /\ last \in [Type -> Nat]

(* What a process in a call has there, and which list it is on.            *)
CallOK(p) ==
    /\ pc[p] # "bug"
    /\ pc[p] \in {"ssleep", "sawake"} => arg[p] \in SndCall
    /\ p \in Range(senders) => pc[p] \in {"ssleep", "sawake"}
    /\ InMsgrcv(p) => arg[p] \in RcvMenu /\ rmsg[p].err # "unused"
    /\ ~InMsgrcv(p) => rmsg[p].err = "unused"
    /\ p \in Range(receivers) <=> InMsgrcv(p) /\ rmsg[p].err = "EAGAIN"
    /\ pc[p] = "waking" => lock = p /\ arg[p] \in Proc
    /\ pc[p] = "rsleep" => \/ rmsg[p].err = "EAGAIN"
                           \/ \E q \in Proc : pc[q] = "waking" /\ arg[q] = p

Calls ==
    /\ \A p \in Proc : CallOK(p)
    /\ qid = NoQueue => Range(receivers) = {} /\ Range(senders) = {} /\ messages = <<>>

(* The queue is in the order of sending.                                   *)
Order ==
    /\ \A i, j \in DOMAIN messages : i < j => messages[i].n < messages[j].n
    /\ \A i \in DOMAIN messages : messages[i].n <= sent
    /\ \A t \in Type : last[t] <= sent

(* Where message n is.                                                     *)
Listed(n) == {i \in DOMAIN messages : messages[i].n = n}
Held(n)   == {p \in Proc : rmsg[p].err = "none" /\ rmsg[p].msg.n = n}
Nowhere(n)  == Listed(n) = {} /\ Held(n) = {} /\ returned[n] = 0 /\ n \notin purged
OneListed(n) == (\E i : Listed(n) = {i}) /\ Held(n) = {} /\ returned[n] = 0 /\ n \notin purged
OneHeld(n) == Listed(n) = {} /\ (\E p : Held(n) = {p}) /\ returned[n] = 0 /\ n \notin purged
OneReturned(n) == Listed(n) = {} /\ Held(n) = {} /\ returned[n] = 1 /\ n \notin purged
OnePurged(n) == Listed(n) = {} /\ Held(n) = {} /\ returned[n] = 0 /\ n \in purged

OnePlace ==
    \A n \in 1..MaxMsgs :
        IF n <= sent THEN OneListed(n) \/ OneHeld(n) \/ OneReturned(n) \/ OnePurged(n) ELSE Nowhere(n)

-----------------------------------------------------------------------------
(***************************************************************************)
(* The kinds of step, with what the invariant says of a state in which one *)
(* is taken.                                                               *)
(***************************************************************************)

(* The list "new" is "old" without the processes ps.                       *)
Delisted(old, new, ps) == new \in Seq(Proc) /\ NoRepeat(new) /\ Range(new) = Range(old) \ ps

slotVars == <<qid, seq, qbytes>>

(* msgsnd() returns an error.                                              *)
SndFails(p) ==
    /\ pc[p] \in {"user", "sawake"} /\ lock = None /\ Delisted(senders, senders', {p})
    /\ Return(p, {})
    /\ UNCHANGED <<slotVars, queueVars, receivers, lock, rmsg, ghosts>>

SndSleeps(p, a, snds) ==
    /\ pc[p] \in {"user", "sawake"} /\ lock = None /\ Delisted(senders, snds, {p})
    /\ a \in SndCall /\ a.id = qid
    /\ sent + Cardinality(Sending \ {p}) < MaxMsgs
    /\ Full(a.size)
    /\ senders' = Append(snds, p)
    /\ Run(p, "ssleep", {})
    /\ arg' = [arg EXCEPT ![p] = a]
    /\ UNCHANGED <<slotVars, queueVars, receivers, lock, rmsg, sig, ghosts>>

(* Message m is accepted, the receivers "gone" get E2BIG.                  *)
Accepts(p, m, gone) ==
    /\ pc[p] \in {"user", "sawake"} /\ lock = None /\ qid # NoQueue
    /\ Delisted(senders, senders', {p})
    /\ m \in Message /\ m.n = sent + 1
    /\ sent + Cardinality(Sending \ {p}) < MaxMsgs
    /\ gone \subseteq Range(receivers)
    /\ sent' = m.n
    /\ UNCHANGED <<slotVars, returned, purged>>

Enqueues(p, m, gone) ==
    /\ Accepts(p, m, gone)
    /\ \A q \in Range(receivers) \ gone : ~Suits(m, arg[q])
    /\ Delisted(receivers, receivers', gone)
    /\ rmsg' = [q \in Proc |-> IF q \in gone THEN Err("E2BIG") ELSE rmsg[q]]
    /\ messages' = Append(messages, m)
    /\ cbytes' = cbytes + m.size /\ qnum' = qnum + 1
    /\ hdrs' = hdrs + 1 /\ bytes' = bytes + m.size
    /\ Return(p, gone)
    /\ UNCHANGED <<lock, last>>

HandsOver(p, m, gone, q) ==
    /\ Accepts(p, m, gone)
    /\ q \in Range(receivers) \ gone /\ Suits(m, arg[q])
    /\ Delisted(receivers, receivers', gone \cup {q})
    /\ rmsg' = [x \in Proc |-> IF x \in gone THEN Err("E2BIG")
                               ELSE IF x = q THEN Arrived(m) ELSE rmsg[x]]
    /\ Give(m)
    /\ Run(p, "waking", gone)
    /\ arg' = [arg EXCEPT ![p] = q]
    /\ lock' = p
    /\ UNCHANGED <<queueVars, sig>>

SndWakes(p, ws) ==
    /\ pc[p] = "waking" /\ lock' = None
    /\ InMsgrcv(arg[p]) => arg[p] \in ws
    /\ Return(p, ws)
    /\ UNCHANGED <<slotVars, queueVars, receivers, senders, rmsg, ghosts>>

(* msgrcv() returns an error.                                              *)
RcvFails(p) ==
    /\ pc[p] \in {"user", "rlock"} /\ lock = None /\ rmsg[p].err # "none"
    /\ Delisted(receivers, receivers', {p})
    /\ Return(p, {})
    /\ rmsg' = [rmsg EXCEPT ![p] = NoMsg]
    /\ UNCHANGED <<slotVars, queueVars, senders, lock, ghosts>>

Takes(p, r, at) ==
    /\ pc[p] \in {"user", "rlock"} /\ lock = None /\ rmsg[p].err # "none" /\ qid # NoQueue
    /\ Delisted(receivers, receivers', {p})
    /\ r \in RcvMenu /\ at = FindMsg(messages, r) /\ at # 0
    /\ messages' = Without(messages, {messages[at]})
    /\ qnum' = qnum - 1 /\ cbytes' = cbytes - messages[at].size
    /\ hdrs' = hdrs - 1 /\ bytes' = bytes - messages[at].size
    /\ returned' = [returned EXCEPT ![messages[at].n] = @ + 1]
    /\ Give(messages[at])
    /\ Return(p, AllSenders)
    /\ rmsg' = [rmsg EXCEPT ![p] = NoMsg]
    /\ UNCHANGED <<slotVars, senders, lock, sent, purged>>

RcvSleeps(p, r, rcvs) ==
    /\ pc[p] \in {"user", "rlock"} /\ lock = None /\ rmsg[p].err # "none" /\ qid # NoQueue
    /\ Delisted(receivers, rcvs, {p})
    /\ r \in RcvMenu /\ FindMsg(messages, r) = 0
    /\ receivers' = Append(rcvs, p)
    /\ rmsg' = [rmsg EXCEPT ![p] = Err("EAGAIN")]
    /\ Run(p, "rsleep", {})
    /\ arg' = [arg EXCEPT ![p] = r]
    /\ UNCHANGED <<slotVars, queueVars, senders, lock, sig, ghosts>>

RcvGets(p) ==
    /\ pc[p] \in {"rawake", "rlock"} /\ rmsg[p].err = "none"
    /\ OutSuccess(p)
    /\ UNCHANGED <<slotVars, senders, lock, sent, purged>>

RcvLooks(p) ==
    /\ pc[p] = "rawake"
    /\ Run(p, "rlock", {})
    /\ UNCHANGED <<slotVars, queueVars, receivers, senders, lock, arg, rmsg, sig, ghosts>>

Step(p) ==
    \/ Msgget(p) \/ IpcSet(p) \/ IpcRmid(p) \/ Signal(p)
    \/ SndFails(p)
    \/ \E a, snds : SndSleeps(p, a, snds)
    \/ \E m, gone : Enqueues(p, m, gone)
    \/ \E m, gone, q : HandsOver(p, m, gone, q)
    \/ \E ws : SndWakes(p, ws)
    \/ RcvFails(p)
    \/ \E r, at : Takes(p, r, at)
    \/ \E r, rcvs : RcvSleeps(p, r, rcvs)
    \/ RcvGets(p) \/ RcvLooks(p)

(* A process that is on neither list is as good as unlinked.               *)
LEMMA NotListed ==
  ASSUME NEW s \in Seq(Proc), NoRepeat(s), NEW ps, Range(s) \cap ps = {}
  PROVE  Delisted(s, s, ps)
BY DEF Delisted

LEMMA Unlisted ==
  ASSUME ListLaws, NEW s \in Seq(Proc), NoRepeat(s), NEW ps
  PROVE  Delisted(s, Without(s, ps), ps)
BY DEF Delisted, ListLaws, WithoutLaw

LEMMA LeastIsFirst ==
  ASSUME NEW is \in SUBSET Nat, NEW k \in is, \A j \in is : k <= j
  PROVE  FirstOnly(is) = {k}
<1>1. \A x \in is : (\A j \in is : x <= j) <=> x = k
  OBVIOUS
<1> QED
  BY <1>1, Zenon DEF FirstOnly

(* pipelined_send() either hands the message to the first receiver that    *)
(* can have it, or it has thrown out every receiver the message suits.     *)
LEMMA SendCases ==
  ASSUME FiniteLaws, ListLaws, Types, Calls, NEW p \in Proc, NEW m, NEW snds,
         pc[p] \in {"user", "sawake"}, lock = None, qid # NoQueue,
         Delisted(senders, snds, {p}), m \in Message, m.n = sent + 1,
         sent + Cardinality(Sending \ {p}) < MaxMsgs,
         Send(p, m, snds), UNCHANGED <<slotVars, returned, purged>>
  PROVE  (\E gone : Enqueues(p, m, gone)) \/ (\E gone, q : HandsOver(p, m, gone, q))
<1> DEFINE suited == {i \in DOMAIN receivers : Suits(m, arg[receivers[i]])}
           fits   == {i \in suited : Fits(m, arg[receivers[i]])}
           passed == {i \in suited : \A j \in fits : i < j}
           gone   == {receivers[i] : i \in passed}
           first  == {receivers[i] : i \in FirstOnly(fits)}
<1>1. receivers \in Seq(Proc) /\ DOMAIN receivers = 1..Len(receivers) /\ Len(receivers) \in Nat /\ NoRepeat(receivers)
  BY DEF Types
<1>2. fits \subseteq 1..Len(receivers) /\ passed \subseteq 1..Len(receivers) /\ passed \cap fits = {}
  BY <1>1
<1>3. gone \subseteq Range(receivers)
  BY <1>1, <1>2 DEF Range
<1>4. senders' = snds /\ sent' = m.n
  BY Zenon DEF Send
<1>5. Accepts(p, m, gone)
  BY <1>3, <1>4, Zenon DEF Accepts
<1>6. /\ receivers' = Without(receivers, gone \union first)
      /\ rmsg' = [q \in Proc |-> IF q \in gone THEN Err("E2BIG")
                                 ELSE IF q \in first THEN Arrived(m) ELSE rmsg[q]]
  BY Zenon DEF Send
<1>7. CASE fits = {}
  <2>1. first = {} /\ FirstOnly(fits) = {} /\ passed = suited
    BY <1>7 DEF FirstOnly
  <2>2. \A q \in Range(receivers) \ gone : ~Suits(m, arg[q])
    BY <2>1 DEF Range
  <2>3. Delisted(receivers, receivers', gone)
    BY <1>1, <1>6, <2>1, Unlisted, Zenon
  <2>4. /\ messages' = Append(messages, m)
        /\ cbytes' = cbytes + m.size /\ qnum' = qnum + 1
        /\ hdrs' = hdrs + 1 /\ bytes' = bytes + m.size
        /\ Return(p, gone)
        /\ UNCHANGED <<lock, last>>
    BY <2>1, Zenon DEF Send, AddTail
  <2>5. rmsg' = [q \in Proc |-> IF q \in gone THEN Err("E2BIG") ELSE rmsg[q]]
    BY <1>6, <2>1, Zenon
  <2>6. Enqueues(p, m, gone)
    BY <1>5, <2>2, <2>3, <2>4, <2>5, Zenon DEF Enqueues
  <2> QED
    BY <2>6
<1>8. CASE fits # {}
  <2>1. PICK k \in fits : \A j \in fits : k <= j
    <3>1. fits \in SUBSET Nat
      BY <1>2
    <3> HIDE DEF fits
    <3> QED
      BY <1>8, <3>1 DEF FiniteLaws, LeastNumber
  <2>2. FirstOnly(fits) = {k}
    <3>1. fits \in SUBSET Nat
      BY <1>2
    <3> HIDE DEF fits
    <3> QED
      BY <2>1, <3>1, LeastIsFirst, Zenon
  <2> DEFINE q == receivers[k]
  <2>3. first = {q}
    BY <2>2, Zenon
  <2>4. q \in Range(receivers) \ gone /\ Suits(m, arg[q])
    BY <1>1, <1>2, <2>1 DEF Range, NoRepeat
  <2>5. Delisted(receivers, receivers', gone \cup {q})
    BY <1>1, <1>6, <2>3, Unlisted, Zenon
  <2>6. /\ Give(m)
        /\ Run(p, "waking", gone)
        /\ arg' = [arg EXCEPT ![p] = q]
        /\ lock' = p
        /\ UNCHANGED <<queueVars, sig>>
    <3>1. \E x \in first : /\ Give(m)
                           /\ Run(p, "waking", gone)
                           /\ arg' = [arg EXCEPT ![p] = x]
                           /\ lock' = p
                           /\ UNCHANGED <<queueVars, sig>>
      <4>1. first # {}
        BY <2>3
      <4> QED
        BY <4>1, Zenon DEF Send
    <3> HIDE DEF first, gone, q
    <3> QED
      BY <2>3, <3>1, Zenon
  <2>7. rmsg' = [x \in Proc |-> IF x \in gone THEN Err("E2BIG")
                                ELSE IF x = q THEN Arrived(m) ELSE rmsg[x]]
    <3>1. \A x : x \in first <=> x = q
      BY <2>3
    <3> HIDE DEF first, gone, q
    <3> QED
      BY <1>6, <3>1, Zenon
  <2>8. HandsOver(p, m, gone, q)
    <3> HIDE DEF gone, q
    <3> QED
      BY <1>5, <2>4, <2>5, <2>6, <2>7, Zenon DEF HandsOver
  <2> QED
    BY <2>8
<1> QED
  BY <1>7, <1>8

LEMMA TrySendCases ==
  ASSUME FiniteLaws, ListLaws, Types, Calls, NEW p \in Proc, NEW a \in SndCall, NEW snds,
         pc[p] \in {"user", "sawake"}, lock = None, qid # NoQueue, a.id = qid,
         Delisted(senders, snds, {p}),
         sent + Cardinality(Sending \ {p}) < MaxMsgs,
         TrySend(p, a, snds), UNCHANGED slotVars
  PROVE  Step(p)
<1>1. CASE /\ Return(p, {}) /\ senders' = snds
           /\ UNCHANGED <<queueVars, receivers, lock, rmsg, ghosts>>
  <2>1. SndFails(p)
    BY <1>1, Zenon DEF SndFails
  <2> QED
    BY <2>1 DEF Step
<1>2. CASE /\ Full(a.size)
           /\ senders' = Append(snds, p)
           /\ Run(p, "ssleep", {})
           /\ arg' = [arg EXCEPT ![p] = a]
           /\ UNCHANGED <<queueVars, receivers, lock, rmsg, sig, ghosts>>
  <2>1. SndSleeps(p, a, snds)
    BY <1>2, Zenon DEF SndSleeps
  <2> QED
    BY <2>1 DEF Step
<1>3. CASE /\ Send(p, [n |-> sent + 1, type |-> a.type, size |-> a.size], snds)
           /\ UNCHANGED <<returned, purged>>
  <2> DEFINE m == [n |-> sent + 1, type |-> a.type, size |-> a.size]
  <2>1. m \in Message /\ m.n = sent + 1
    <3>1. Cardinality(Sending \ {p}) \in Nat
      BY ProcAssumption DEF Sending, FiniteLaws, SubsetSize, SizeIsNat
    <3>2. sent + 1 \in 1..MaxMsgs
      BY <3>1, BoundAssumption, SMTT(20) DEF Types
    <3> QED
      BY <3>2 DEF Message, SndCall, Size
  <2>2. UNCHANGED <<slotVars, returned, purged>>
    BY <1>3
  <2> HIDE DEF m
  <2>3. (\E gone : Enqueues(p, m, gone)) \/ (\E gone, q : HandsOver(p, m, gone, q))
    <3>1. Send(p, m, snds)
      BY <1>3 DEF m
    <3> QED
      BY <2>1, <2>2, <3>1, SendCases
  <2> QED
    BY <2>3, Zenon DEF Step
<1> QED
  BY <1>1, <1>2, <1>3 DEF TrySend

LEMMA TryReceiveCases ==
  ASSUME Types, Calls, NEW p \in Proc, NEW r \in RcvMenu, NEW rcvs,
         pc[p] \in {"user", "rlock"}, lock = None, rmsg[p].err # "none", qid # NoQueue,
         Delisted(receivers, rcvs, {p}),
         TryReceive(p, r, rcvs), UNCHANGED <<slotVars, senders, lock, sent, purged>>
  PROVE  Step(p)
<1> DEFINE at == FindMsg(messages, r)
<1>1. CASE /\ Return(p, {}) /\ receivers' = rcvs
           /\ rmsg' = [rmsg EXCEPT ![p] = NoMsg]
           /\ UNCHANGED <<queueVars, returned, last>>
  <2>1. RcvFails(p)
    BY <1>1 DEF RcvFails, ghosts
  <2> QED
    BY <2>1 DEF Step
<1>2. CASE /\ at # 0
           /\ messages' = Without(messages, {messages[at]})
           /\ qnum' = qnum - 1
           /\ cbytes' = cbytes - messages[at].size
           /\ hdrs' = hdrs - 1
           /\ bytes' = bytes - messages[at].size
           /\ returned' = [returned EXCEPT ![messages[at].n] = @ + 1]
           /\ Give(messages[at])
           /\ Return(p, AllSenders)
           /\ receivers' = rcvs
           /\ rmsg' = [rmsg EXCEPT ![p] = NoMsg]
  <2>1. Takes(p, r, at)
    BY <1>2, Zenon DEF Takes
  <2> QED
    BY <2>1 DEF Step
<1>3. CASE /\ at = 0
           /\ receivers' = Append(rcvs, p)
           /\ rmsg' = [rmsg EXCEPT ![p] = Err("EAGAIN")]
           /\ Run(p, "rsleep", {})
           /\ arg' = [arg EXCEPT ![p] = r]
           /\ UNCHANGED <<queueVars, sig, returned, last>>
  <2>1. RcvSleeps(p, r, rcvs)
    BY <1>3 DEF RcvSleeps, ghosts
  <2> QED
    BY <2>1 DEF Step
<1> QED
  BY <1>1, <1>2, <1>3, Zenon DEF TryReceive

LEMMA Cases ==
  ASSUME FiniteLaws, ListLaws, Types, Calls, Next
  PROVE  \E p \in Proc : Step(p)
<1>1. PICK p \in Proc : \/ Msgget(p) \/ Msgsnd(p) \/ Msgrcv(p) \/ IpcSet(p) \/ IpcRmid(p)
                        \/ Continue(p) \/ Signal(p)
  BY DEF Next
<1>2. CASE Msgget(p) \/ IpcSet(p) \/ IpcRmid(p) \/ Signal(p)
  BY <1>2 DEF Step
<1>3. /\ senders \in Seq(Proc) /\ NoRepeat(senders) /\ receivers \in Seq(Proc) /\ NoRepeat(receivers)
      /\ CallOK(p)
  BY DEF Types, Calls
<1>4. CASE Msgsnd(p)
  <2>1. PICK s \in SndMenu :
          TrySend(p, [id |-> qid, type |-> s.type, size |-> s.size, nowait |-> s.nowait], senders)
    BY <1>4 DEF Msgsnd
  <2> DEFINE a == [id |-> qid, type |-> s.type, size |-> s.size, nowait |-> s.nowait]
  <2>2. pc[p] = "user" /\ lock = None /\ qid # NoQueue /\ UNCHANGED slotVars
    BY <1>4 DEF Msgsnd, slotVars
  <2>3. qid \in 0..MaxSeq
    BY <2>2 DEF Types
  <2>4. a \in SndCall /\ a.id = qid
    BY <2>3, MenuAssumption DEF SndCall, Type, Size
  <2>5. Delisted(senders, senders, {p})
    BY <1>3, <2>2, NotListed DEF CallOK
  <2>6. sent + Cardinality(Sending \ {p}) < MaxMsgs
    <3>1. Sending \ {p} = Sending
      BY <2>2 DEF Sending
    <3> QED
      BY <1>4, <3>1 DEF Msgsnd, Sending
  <2>7. TrySend(p, a, senders)
    BY <2>1
  <2> HIDE DEF a
  <2>8. Step(p)
    BY <2>2, <2>4, <2>5, <2>6, <2>7, TrySendCases
  <2> QED
    BY <2>8
<1>5. CASE Msgrcv(p)
  <2>1. PICK r \in RcvMenu : TryReceive(p, r, receivers)
    BY <1>5 DEF Msgrcv
  <2>2. /\ pc[p] = "user" /\ lock = None /\ qid # NoQueue
        /\ UNCHANGED <<slotVars, senders, lock, sent, purged>>
    BY <1>5 DEF Msgrcv, slotVars
  <2>3. Delisted(receivers, receivers, {p})
    BY <1>3, <2>2, NotListed DEF CallOK, InMsgrcv
  <2>4. rmsg[p].err # "none"
    BY <1>3, <2>2 DEF CallOK, InMsgrcv
  <2>5. Step(p)
    BY <2>1, <2>2, <2>3, <2>4, TryReceiveCases
  <2> QED
    BY <2>5
<1>6. CASE SndWake(p)
  <2>1. PICK ws : (InMsgrcv(arg[p]) => arg[p] \in ws) /\ Return(p, ws)
    BY <1>6, Zenon DEF SndWake
  <2>2. SndWakes(p, ws)
    BY <1>6, <2>1 DEF SndWake, SndWakes, slotVars
  <2> QED
    BY <2>2, Zenon DEF Step
<1>7. CASE SndResume(p)
  <2>1. /\ pc[p] = "sawake" /\ lock = None
        /\ UNCHANGED slotVars
    BY <1>7 DEF SndResume, slotVars
  <2>2. arg[p] \in SndCall /\ p \notin Range(receivers)
    BY <1>3, <2>1 DEF CallOK, InMsgrcv
  <2>3. Delisted(senders, SsDel(p), {p})
    <3>1. CASE qid = NoQueue
      <4>1. Range(senders) = {}
        BY <3>1 DEF Calls
      <4> QED
        BY <1>3, <3>1, <4>1, NotListed DEF SsDel
    <3>2. CASE qid # NoQueue
      BY <1>3, <3>2, Unlisted DEF SsDel
    <3> QED
      BY <3>1, <3>2
  <2>4. CASE /\ Return(p, {})
             /\ senders' = SsDel(p)
             /\ UNCHANGED <<queueVars, receivers, lock, rmsg, ghosts>>
    <3>1. SndFails(p)
      BY <2>1, <2>3, <2>4, Zenon DEF SndFails
    <3> QED
      BY <3>1 DEF Step
  <2>5. CASE /\ qid # NoQueue /\ qid = arg[p].id
             /\ TrySend(p, arg[p], SsDel(p))
    <3>1. sent + Cardinality(Sending \ {p}) < MaxMsgs
      <4>1. p \in Sending /\ IsFiniteSet(Sending)
        BY <2>1, ProcAssumption DEF Sending, FiniteLaws, SubsetSize
      <4>2. Cardinality(Sending \ {p}) = Cardinality(Sending) - 1 /\ Cardinality(Sending) \in Nat
        BY <4>1 DEF FiniteLaws, RemoveSize, SizeIsNat
      <4> QED
        BY <4>2, BoundAssumption, SMTT(20) DEF Types
    <3>2. Step(p)
      BY <2>1, <2>2, <2>3, <2>5, <3>1, TrySendCases
    <3> QED
      BY <3>2
  <2> QED
    BY <1>7, <2>4, <2>5, Zenon DEF SndResume
<1>8. CASE RcvPeek(p)
  <2>1. pc[p] = "rawake" /\ UNCHANGED <<slotVars, senders, lock, sent, purged>>
    BY <1>8 DEF RcvPeek, slotVars
  <2>2. CASE rmsg[p].err = "none" /\ OutSuccess(p)
    BY <2>1, <2>2, Zenon DEF Step, RcvGets
  <2>3. CASE /\ Run(p, "rlock", {})
             /\ UNCHANGED <<queueVars, receivers, arg, rmsg, sig, returned, last>>
    <3>1. RcvLooks(p)
      BY <2>1, <2>3 DEF RcvLooks, ghosts
    <3> QED
      BY <3>1 DEF Step
  <2> QED
    BY <1>8, <2>2, <2>3, Zenon DEF RcvPeek
<1>9. CASE RcvLock(p)
  <2>1. /\ pc[p] = "rlock" /\ lock = None
        /\ UNCHANGED <<slotVars, senders, lock, sent, purged>>
    BY <1>9 DEF RcvLock, slotVars
  <2>2. InMsgrcv(p) /\ arg[p] \in RcvMenu
    BY <1>3, <2>1 DEF CallOK, InMsgrcv
  <2>3. CASE rmsg[p].err = "none" /\ OutSuccess(p)
    BY <2>1, <2>3, Zenon DEF Step, RcvGets
  <2>4. CASE /\ rmsg[p].err \in {"EIDRM", "E2BIG"}
             /\ Return(p, {})
             /\ rmsg' = [rmsg EXCEPT ![p] = NoMsg]
             /\ UNCHANGED <<queueVars, receivers, returned, last>>
    <3>1. Delisted(receivers, receivers', {p})
      BY <1>3, <2>4, NotListed DEF CallOK
    <3>2. RcvFails(p)
      BY <2>1, <2>4, <3>1 DEF RcvFails, ghosts
    <3> QED
      BY <3>2 DEF Step
  <2>5. CASE rmsg[p].err = "EAGAIN" /\ qid = NoQueue
    BY <1>3, <2>2, <2>5 DEF CallOK, Calls
  <2>6. Delisted(receivers, Without(receivers, {p}), {p})
    BY <1>3, Unlisted
  <2>7. CASE /\ rmsg[p].err = "EAGAIN"
             /\ Return(p, {})
             /\ receivers' = Without(receivers, {p})
             /\ rmsg' = [rmsg EXCEPT ![p] = NoMsg]
             /\ UNCHANGED <<queueVars, returned, last>>
    <3>1. RcvFails(p)
      BY <2>1, <2>6, <2>7 DEF RcvFails, ghosts
    <3> QED
      BY <3>1 DEF Step
  <2>8. CASE rmsg[p].err = "EAGAIN" /\ qid # NoQueue /\ TryReceive(p, arg[p], Without(receivers, {p}))
    <3>1. Step(p)
      BY <2>1, <2>2, <2>6, <2>8, TryReceiveCases
    <3> QED
      BY <3>1
  <2> QED
    BY <1>9, <2>3, <2>4, <2>5, <2>7, <2>8, Zenon DEF RcvLock
<1> QED
  BY <1>1, <1>2, <1>4, <1>5, <1>6, <1>7, <1>8, <1>9 DEF Continue

-----------------------------------------------------------------------------
(***************************************************************************)
(* Each kind of step preserves the invariant.                              *)
(***************************************************************************)

(* What a process is doing does not change because it is woken.            *)
LEMMA RunFacts ==
  ASSUME Types, NEW p \in Proc, NEW at \in Pc, NEW ws, Run(p, at, ws)
  PROVE  /\ pc' \in [Proc -> Pc] /\ pc'[p] = at
         /\ \A q \in Proc \ {p} :
              /\ pc'[q] \in {"ssleep", "sawake"} <=> pc[q] \in {"ssleep", "sawake"}
              /\ InMsgrcv(q)' <=> InMsgrcv(q)
              /\ pc'[q] = "waking" <=> pc[q] = "waking"
              /\ pc'[q] = "bug" <=> pc[q] = "bug"
              /\ pc'[q] = "ssleep" => pc[q] = "ssleep" /\ q \notin ws
              /\ pc'[q] = "rsleep" => pc[q] = "rsleep" /\ q \notin ws
<1>1. /\ pc' = [q \in Proc |-> IF q = p THEN at ELSE IF q \in ws THEN Woken(pc[q]) ELSE pc[q]]
      /\ \A q \in Proc : pc[q] \in Pc
  BY DEF Run, Types
<1>2. \A x \in Pc : /\ Woken(x) \in Pc
                    /\ Woken(x) \in {"ssleep", "sawake"} <=> x \in {"ssleep", "sawake"}
                    /\ Woken(x) \in {"rsleep", "rawake", "rlock"} <=> x \in {"rsleep", "rawake", "rlock"}
                    /\ Woken(x) = "waking" <=> x = "waking"
                    /\ Woken(x) = "bug" <=> x = "bug"
                    /\ Woken(x) # "ssleep" /\ Woken(x) # "rsleep"
  BY DEF Woken, Pc
<1>3. pc' \in [Proc -> Pc] /\ pc'[p] = at
  BY <1>1, <1>2
<1>4. ASSUME NEW q \in Proc \ {p}
      PROVE  /\ pc'[q] \in {"ssleep", "sawake"} <=> pc[q] \in {"ssleep", "sawake"}
             /\ InMsgrcv(q)' <=> InMsgrcv(q)
             /\ pc'[q] = "waking" <=> pc[q] = "waking"
             /\ pc'[q] = "bug" <=> pc[q] = "bug"
             /\ pc'[q] = "ssleep" => pc[q] = "ssleep" /\ q \notin ws
             /\ pc'[q] = "rsleep" => pc[q] = "rsleep" /\ q \notin ws
  <2>1. pc'[q] = IF q \in ws THEN Woken(pc[q]) ELSE pc[q]
    BY <1>1, <1>4
  <2>2. CASE q \in ws
    BY <1>1, <1>2, <2>1, <2>2, Zenon DEF InMsgrcv
  <2>3. CASE q \notin ws
    BY <1>1, <2>1, <2>3, Zenon DEF InMsgrcv
  <2> QED
    BY <2>2, <2>3
<1> QED
  BY <1>3, <1>4

(* The same for a signal.                                                  *)
LEMMA SignalFacts ==
  ASSUME Types, NEW p \in Proc, Signal(p)
  PROVE  /\ pc' \in [Proc -> Pc]
         /\ \A q \in Proc :
              /\ pc'[q] \in {"ssleep", "sawake"} <=> pc[q] \in {"ssleep", "sawake"}
              /\ InMsgrcv(q)' <=> InMsgrcv(q)
              /\ pc'[q] = "waking" <=> pc[q] = "waking"
              /\ pc'[q] = "bug" <=> pc[q] = "bug"
              /\ pc'[q] = "ssleep" => pc[q] = "ssleep"
              /\ pc'[q] = "rsleep" => pc[q] = "rsleep"
         /\ UNCHANGED <<qid, seq, queueVars, qbytes, receivers, senders, lock, arg, rmsg, ghosts>>
         /\ sig' \in [Proc -> BOOLEAN]
<1>1. /\ pc' = [pc EXCEPT ![p] = Woken(@)] /\ pc \in [Proc -> Pc]
      /\ pc[p] \in {"ssleep", "sawake", "rsleep", "rawake", "rlock"}
  BY DEF Signal, Types
<1>2. \A x \in {"ssleep", "sawake", "rsleep", "rawake", "rlock"} :
         /\ Woken(x) \in Pc
         /\ Woken(x) \in {"ssleep", "sawake"} <=> x \in {"ssleep", "sawake"}
         /\ Woken(x) \in {"rsleep", "rawake", "rlock"} <=> x \in {"rsleep", "rawake", "rlock"}
         /\ Woken(x) \notin {"waking", "bug", "ssleep", "rsleep"}
  BY DEF Woken, Pc
<1>3. pc' \in [Proc -> Pc] /\ pc'[p] = Woken(pc[p]) /\ \A q \in Proc \ {p} : pc'[q] = pc[q]
  BY <1>1, <1>2
<1>4. ASSUME NEW q \in Proc
      PROVE  /\ pc'[q] \in {"ssleep", "sawake"} <=> pc[q] \in {"ssleep", "sawake"}
             /\ InMsgrcv(q)' <=> InMsgrcv(q)
             /\ pc'[q] = "waking" <=> pc[q] = "waking"
             /\ pc'[q] = "bug" <=> pc[q] = "bug"
             /\ pc'[q] = "ssleep" => pc[q] = "ssleep"
             /\ pc'[q] = "rsleep" => pc[q] = "rsleep"
  <2>1. CASE q = p
    BY <1>1, <1>2, <1>3, <2>1 DEF InMsgrcv
  <2>2. CASE q # p
    BY <1>3, <2>2, Zenon DEF InMsgrcv
  <2> QED
    BY <2>1, <2>2
<1> QED
  BY <1>3, <1>4 DEF Signal, Types

(* The other variables of a process that returns or goes on.               *)
LEMMA LeaveFacts ==
  ASSUME Types, NEW p \in Proc, Leave(p)
  PROVE  /\ arg' \in [Proc -> {None} \cup Proc \cup SndCall \cup RcvMenu]
         /\ \A q \in Proc \ {p} : arg'[q] = arg[q]
         /\ sig' \in [Proc -> BOOLEAN]
BY DEF Leave, Types

LEMMA ReturnFacts ==
  ASSUME Types, NEW p \in Proc, NEW ws, Return(p, ws)
  PROVE  /\ Run(p, "user", ws) /\ Leave(p) /\ "user" \in Pc
         /\ Sending' = Sending \ {p}
<1>1. Run(p, "user", ws) /\ Leave(p) /\ "user" \in Pc
  BY DEF Return, Pc
<1>2. pc'[p] = "user" /\ \A q \in Proc \ {p} : pc'[q] \in {"ssleep", "sawake"} <=> pc[q] \in {"ssleep", "sawake"}
  BY <1>1, RunFacts
<1> QED
  BY <1>1, <1>2 DEF Sending

(* How many messages may still be sent.                                    *)
LEMMA SendingFacts ==
  ASSUME FiniteLaws, NEW p \in Proc
  PROVE  /\ IsFiniteSet(Sending) /\ IsFiniteSet(Sending \ {p})
         /\ Cardinality(Sending) \in Nat /\ Cardinality(Sending \ {p}) \in Nat
         /\ Cardinality(Sending \ {p}) <= Cardinality(Sending)
         /\ Cardinality((Sending \ {p}) \cup {p}) = Cardinality(Sending \ {p}) + 1
<1>1. IsFiniteSet(Sending) /\ IsFiniteSet(Sending \ {p})
  BY ProcAssumption DEF Sending, FiniteLaws, SubsetSize
<1>2. Sending \ {p} \subseteq Sending /\ p \notin Sending \ {p}
  OBVIOUS
<1> QED
  BY <1>1, <1>2, Zenon DEF FiniteLaws, SubsetSize, SizeIsNat, AddSize

LEMMA ReceiversFacts ==
  ASSUME Types
  PROVE  Range(receivers) \subseteq Proc
<1>1. receivers \in Seq(Proc)
  BY DEF Types
<1> QED
  BY <1>1 DEF Range

LEMMA RmsgFacts ==
  /\ NoMsg \in Rmsg /\ Err("EAGAIN") \in Rmsg /\ Err("EIDRM") \in Rmsg /\ Err("E2BIG") \in Rmsg
  /\ \A m \in Message : Arrived(m) \in Rmsg
  /\ \A m : Arrived(m).err = "none" /\ Arrived(m).msg = m
  /\ NoMsg.err = "unused" /\ \A e : Err(e).err = e
  /\ \A x \in Rmsg : /\ x.err \in {"unused", "EAGAIN", "EIDRM", "E2BIG", "none"}
                     /\ x.err = "none" => x.msg \in Message
<1>1. (\A e : Err(e).err = e) /\ NoMsg.err = "unused"
  BY DEF Err, NoMsg
<1>2. \A m : Arrived(m).err = "none" /\ Arrived(m).msg = m
  BY DEF Arrived
<1>3. NoMsg \in Rmsg /\ Err("EAGAIN") \in Rmsg /\ Err("EIDRM") \in Rmsg /\ Err("E2BIG") \in Rmsg
  BY Zenon DEF Rmsg, NoMsg
<1>4. \A m \in Message : Arrived(m) \in Rmsg
  BY Zenon DEF Rmsg
<1>5. ASSUME NEW x \in Rmsg
      PROVE  /\ x.err \in {"unused", "EAGAIN", "EIDRM", "E2BIG", "none"}
             /\ x.err = "none" => x.msg \in Message
  <2>1. (\E e \in {"unused", "EAGAIN", "EIDRM", "E2BIG"} : x = Err(e)) \/ (\E m \in Message : x = Arrived(m))
    BY Zenon DEF Rmsg
  <2> QED
    BY <1>1, <1>2, <2>1
<1> QED
  BY <1>1, <1>2, <1>3, <1>4, <1>5, Zenon

LEMMA MessageFacts ==
  ASSUME Types
  PROVE  /\ Len(messages) \in Nat /\ DOMAIN messages = 1..Len(messages)
         /\ \A i \in 1..Len(messages) :
              /\ messages[i] \in Message /\ messages[i].n \in 1..MaxMsgs
              /\ messages[i].type \in Type /\ messages[i].size \in Nat
         /\ Typed(messages)
         /\ \A m \in Message : m.n \in 1..MaxMsgs /\ m.n \in Nat /\ m.type \in Type /\ m.size \in Nat
         /\ \A r \in RcvMenu : r.msgtyp \in Int
<1>1. /\ Len(messages) \in Nat /\ DOMAIN messages = 1..Len(messages)
      /\ \A i \in 1..Len(messages) : messages[i] \in Message
  BY DEF Types
<1>2. \A m \in Message : /\ m.n \in 1..MaxMsgs /\ m.n \in Nat /\ m.type \in Type
                         /\ m.size \in Nat /\ m.type \in Nat \ {0}
  BY MenuAssumption DEF Message, Type
<1>3. \A r \in RcvMenu : r.msgtyp \in Int
  BY MenuAssumption
<1> QED
  BY <1>1, <1>2, <1>3 DEF Typed

(* The message the search finds is on the queue.                           *)
LEMMA TakesFacts ==
  ASSUME FiniteLaws, ListLaws, Types, NEW p \in Proc, NEW r, NEW at, Takes(p, r, at)
  PROVE  /\ at \in 1..Len(messages) /\ Suits(messages[at], r)
         /\ \A j \in 1..Len(messages) : Suits(messages[j], r) => Sooner(messages, r, at, j)
         /\ messages' \in Seq(Message)
         /\ Range(messages') = Range(messages) \ {messages[at]}
<1>1. /\ r \in RcvMenu /\ at = FindMsg(messages, r) /\ at # 0
      /\ messages' = Without(messages, {messages[at]})
  BY DEF Takes
<1>2. at \in Seen(messages, r, Len(messages)) /\ \A j \in Seen(messages, r, Len(messages)) : Sooner(messages, r, at, j)
  BY <1>1, MessageFacts, FindMsgCorrect
<1>3. at \in 1..Len(messages) /\ messages \in Seq(Message)
  BY <1>2 DEF Seen, Types
<1> QED
  BY <1>1, <1>2, <1>3 DEF Seen, ListLaws, WithoutLaw

LEMMA RoomKept ==
  ASSUME FiniteLaws, Types, NEW p \in Proc, Sending' = Sending \ {p}
  PROVE  sent + Cardinality(Sending') <= MaxMsgs
<1>1. PICK a \in Nat, b \in Nat : a = Cardinality(Sending) /\ b = Cardinality(Sending \ {p}) /\ b <= a
  BY SendingFacts, Zenon
<1>2. sent \in Nat /\ sent + a <= MaxMsgs /\ MaxMsgs \in Nat
  BY <1>1, BoundAssumption, Zenon DEF Types
<1>3. Cardinality(Sending') = b
  BY <1>1, Zenon
<1> QED
  BY <1>1, <1>2, <1>3

LEMMA RoomUsed ==
  ASSUME FiniteLaws, Types, NEW p \in Proc, sent + Cardinality(Sending \ {p}) < MaxMsgs
  PROVE  /\ Sending' = Sending \ {p} => (sent + 1) + Cardinality(Sending') <= MaxMsgs
         /\ Sending' = (Sending \ {p}) \cup {p} => sent + Cardinality(Sending') <= MaxMsgs
<1>1. PICK b \in Nat : b = Cardinality(Sending \ {p}) /\ Cardinality((Sending \ {p}) \cup {p}) = b + 1
  BY SendingFacts, Zenon
<1>2. sent \in Nat /\ sent + b < MaxMsgs /\ MaxMsgs \in Nat
  BY <1>1, BoundAssumption, Zenon DEF Types
<1>3. (sent + 1) + b <= MaxMsgs /\ sent + (b + 1) <= MaxMsgs
  BY <1>1, <1>2
<1> QED
  BY <1>1, <1>3, Zenon

LEMMA TypesStep ==
  ASSUME FiniteLaws, ListLaws, Types, Calls, NEW p \in Proc, Step(p)
  PROVE  Types'
<1>0. /\ "user" \in Pc /\ "ssleep" \in Pc /\ "rsleep" \in Pc /\ "waking" \in Pc /\ "rlock" \in Pc
      /\ MaxMsgs \in Nat /\ MaxSeq \in Nat
  BY BoundAssumption DEF Pc
<1>1. CASE Msgget(p)
  <2>1. Sending' = Sending
    BY <1>1 DEF Msgget, Sending
  <2>2. <<>> \in Seq(Message) /\ <<>> \in Seq(Proc) /\ NoRepeat(<<>>)
    BY DEF NoRepeat
  <2>3. qid' \in 0..MaxSeq /\ seq' \in 0..(MaxSeq + 1) /\ qbytes' \in Nat
    BY <1>0, <1>1, MenuAssumption, SMTT(20) DEF Msgget, Types
  <2>4. UNCHANGED <<hdrs, bytes, lock, pc, arg, rmsg, sig, sent, returned, purged, last>>
    BY <1>1 DEF Msgget
  <2>5. messages' = <<>> /\ cbytes' = 0 /\ qnum' = 0 /\ receivers' = <<>> /\ senders' = <<>>
    BY <1>1 DEF Msgget
  <2> QED
    BY <2>1, <2>2, <2>3, <2>4, <2>5, SMTT(20) DEF Types
<1>2. CASE IpcSet(p)
  <2>1. Return(p, Sleepers) /\ ExpungeAll("EAGAIN") /\ qbytes' \in Nat
    BY <1>2, MenuAssumption DEF IpcSet
  <2>2. UNCHANGED <<qid, seq, queueVars, receivers, senders, lock, ghosts>>
    BY <1>2 DEF IpcSet
  <2>3. rmsg' \in [Proc -> Rmsg]
    BY <2>1, RmsgFacts DEF ExpungeAll, Types
  <2>4. Run(p, "user", Sleepers) /\ Leave(p) /\ Sending' = Sending \ {p}
    BY <2>1, ReturnFacts, Zenon
  <2>5. pc' \in [Proc -> Pc]
    BY <1>0, <2>4, RunFacts, Zenon
  <2>6. sent + Cardinality(Sending') <= MaxMsgs
    BY <2>4, RoomKept, Zenon
  <2> QED
    BY <2>1, <2>2, <2>3, <2>4, <2>5, <2>6, LeaveFacts, SMTT(20) DEF Types, queueVars, ghosts
<1>3. CASE IpcRmid(p)
  <2>1. Return(p, Sleepers) /\ ExpungeAll("EIDRM") /\ Discount
    BY <1>3 DEF IpcRmid
  <2>2. /\ qid' = NoQueue /\ messages' = <<>> /\ cbytes' = 0 /\ qnum' = 0 /\ receivers' = <<>> /\ senders' = <<>>
        /\ purged' = purged \union {messages[i].n : i \in DOMAIN messages}
        /\ UNCHANGED <<seq, qbytes, lock, sent, returned, last>>
    BY <1>3 DEF IpcRmid
  <2>3. rmsg' \in [Proc -> Rmsg]
    BY <2>1, RmsgFacts DEF ExpungeAll, Types
  <2>4. Run(p, "user", Sleepers) /\ Leave(p) /\ Sending' = Sending \ {p}
    BY <2>1, ReturnFacts, Zenon
  <2>5. pc' \in [Proc -> Pc]
    BY <1>0, <2>4, RunFacts, Zenon
  <2>6. sent + Cardinality(Sending') <= MaxMsgs
    BY <2>4, RoomKept, Zenon
  <2>7. <<>> \in Seq(Message) /\ <<>> \in Seq(Proc) /\ NoRepeat(<<>>)
    BY DEF NoRepeat
  <2>8. purged' \subseteq 1..MaxMsgs
    BY <2>2, MessageFacts, Zenon DEF Types
  <2>9. hdrs' \in Int /\ bytes' \in Int
    <3>1. messages \in Seq(Message) /\ hdrs \in Int /\ bytes \in Int /\ cbytes \in Int
      BY DEF Types
    <3>2. Len(messages) \in Nat
      BY <3>1
    <3> QED
      BY <2>1, <3>1, <3>2 DEF Discount
  <2>10. /\ seq' \in 0..(MaxSeq + 1) /\ qbytes' \in Nat /\ lock' \in Proc \cup {None} /\ sent' = sent /\ sent' \in Nat
         /\ returned' \in [1..MaxMsgs -> Nat] /\ last' \in [Type -> Nat]
         /\ qid' \in {NoQueue} \cup 0..MaxSeq /\ cbytes' \in Int /\ qnum' \in Int
    BY <2>2 DEF Types
  <2>11. arg' \in [Proc -> {None} \cup Proc \cup SndCall \cup RcvMenu] /\ sig' \in [Proc -> BOOLEAN]
    BY <2>4, LeaveFacts, Zenon
  <2> QED
    BY <2>2, <2>3, <2>4, <2>5, <2>6, <2>7, <2>8, <2>9, <2>10, <2>11, Zenon DEF Types
<1>4. CASE Signal(p)
  <2>1. Sending' = Sending
    BY <1>4, SignalFacts DEF Sending
  <2> QED
    BY <1>4, <2>1, SignalFacts, Zenon DEF Types, queueVars, ghosts
<1>5. CASE SndFails(p)
  <2>1. Run(p, "user", {}) /\ Leave(p) /\ Sending' = Sending \ {p}
    BY <1>5, ReturnFacts, Zenon DEF SndFails
  <2>2. pc' \in [Proc -> Pc]
    BY <1>0, <2>1, RunFacts, Zenon
  <2>3. sent + Cardinality(Sending') <= MaxMsgs
    BY <2>1, RoomKept, Zenon
  <2>4. senders' \in Seq(Proc) /\ NoRepeat(senders')
    BY <1>5 DEF SndFails, Delisted
  <2>5. UNCHANGED <<slotVars, queueVars, receivers, lock, rmsg, ghosts>>
    BY <1>5 DEF SndFails
  <2> QED
    BY <2>1, <2>2, <2>3, <2>4, <2>5, LeaveFacts, SMTT(20) DEF Types, slotVars, queueVars, ghosts
<1>6. ASSUME NEW a, NEW snds, SndSleeps(p, a, snds) PROVE Types'
  <2>1. Run(p, "ssleep", {})
    BY <1>6 DEF SndSleeps
  <2>2. pc' \in [Proc -> Pc] /\ Sending' = (Sending \ {p}) \cup {p}
    BY <1>0, <2>1, RunFacts DEF Sending
  <2>3. sent + Cardinality(Sending') <= MaxMsgs
    <3>1. sent + Cardinality(Sending \ {p}) < MaxMsgs
      BY <1>6 DEF SndSleeps
    <3> QED
      BY <2>2, <3>1, RoomUsed, Zenon
  <2>4. senders' \in Seq(Proc) /\ NoRepeat(senders')
    BY <1>6 DEF SndSleeps, Delisted, ListLaws, AppendLaw
  <2>5. UNCHANGED <<slotVars, queueVars, receivers, lock, rmsg, sig, ghosts>>
    BY <1>6 DEF SndSleeps
  <2>6. arg' \in [Proc -> {None} \cup Proc \cup SndCall \cup RcvMenu]
    BY <1>6 DEF SndSleeps, Types
  <2> QED
    BY <2>2, <2>3, <2>4, <2>5, <2>6, SMTT(20) DEF Types, slotVars, queueVars, ghosts
<1>7. ASSUME NEW m, NEW gone, Accepts(p, m, gone), Sending' = Sending \ {p}
      PROVE  /\ qid' = qid /\ seq' = seq /\ qbytes' = qbytes
             /\ senders' \in Seq(Proc) /\ NoRepeat(senders')
             /\ sent' \in Nat /\ sent' + Cardinality(Sending') <= MaxMsgs
             /\ returned' = returned /\ purged' = purged
  <2>1. /\ sent + Cardinality(Sending \ {p}) < MaxMsgs /\ sent' = sent + 1
        /\ UNCHANGED <<slotVars, returned, purged>>
        /\ Delisted(senders, senders', {p})
    BY <1>7 DEF Accepts
  <2>2. sent \in Nat
    BY DEF Types
  <2> QED
    <3>1. (sent + 1) + Cardinality(Sending') <= MaxMsgs
      BY <1>7, <2>1, RoomUsed, Zenon
    <3>2. sent' \in Nat
      BY <2>1, <2>2
    <3> QED
      BY <2>1, <3>1, <3>2, Zenon DEF slotVars, Delisted
<1>8. ASSUME NEW m, NEW gone, Enqueues(p, m, gone) PROVE Types'
  <2>1. Run(p, "user", gone) /\ Leave(p) /\ Sending' = Sending \ {p}
    BY <1>8, ReturnFacts, Zenon DEF Enqueues
  <2>2. pc' \in [Proc -> Pc]
    BY <1>0, <2>1, RunFacts, Zenon
  <2>3. Accepts(p, m, gone) /\ m \in Message
    BY <1>8 DEF Enqueues, Accepts
  <2>4. messages' \in Seq(Message) /\ cbytes' \in Int /\ qnum' \in Int /\ hdrs' \in Int /\ bytes' \in Int
    <3>1. /\ messages' = Append(messages, m) /\ cbytes' = cbytes + m.size /\ qnum' = qnum + 1
          /\ hdrs' = hdrs + 1 /\ bytes' = bytes + m.size
      BY <1>8 DEF Enqueues
    <3>2. m.size \in Nat
      BY <2>3, MessageFacts, Zenon
    <3>3. messages \in Seq(Message) /\ cbytes \in Int /\ qnum \in Int /\ hdrs \in Int /\ bytes \in Int
      BY DEF Types
    <3> QED
      BY <2>3, <3>1, <3>2, <3>3, SMTT(20)
  <2>5. receivers' \in Seq(Proc) /\ NoRepeat(receivers') /\ UNCHANGED <<lock, last>>
    BY <1>8 DEF Enqueues, Delisted
  <2>6. rmsg' \in [Proc -> Rmsg]
    BY <1>8, RmsgFacts DEF Enqueues, Types
  <2> QED
    BY <2>1, <2>2, <2>3, <2>4, <2>5, <2>6, <1>7, LeaveFacts, Zenon DEF Types
<1>9. ASSUME NEW m, NEW gone, NEW q, HandsOver(p, m, gone, q) PROVE Types'
  <2>1. Run(p, "waking", gone)
    BY <1>9 DEF HandsOver
  <2>2. pc' \in [Proc -> Pc] /\ Sending' = Sending \ {p}
    BY <1>0, <2>1, RunFacts DEF Sending
  <2>3. Accepts(p, m, gone) /\ m \in Message /\ Give(m) /\ q \in Proc
    BY <1>9 DEF HandsOver, Accepts, Types, Range
  <2>4. UNCHANGED <<queueVars, sig>> /\ lock' = p
    BY <1>9 DEF HandsOver
  <2>5. receivers' \in Seq(Proc) /\ NoRepeat(receivers')
    BY <1>9 DEF HandsOver, Delisted
  <2>6. rmsg' \in [Proc -> Rmsg]
    BY <1>9, <2>3, RmsgFacts DEF HandsOver, Types
  <2>7. last' \in [Type -> Nat]
    BY <2>3, MessageFacts, SMTT(20) DEF Give, Types
  <2>8. arg' \in [Proc -> {None} \cup Proc \cup SndCall \cup RcvMenu]
    BY <1>9, <2>3 DEF HandsOver, Types
  <2> QED
    BY <2>2, <2>3, <2>4, <2>5, <2>6, <2>7, <2>8, <1>7, Zenon DEF Types, queueVars
<1>10. ASSUME NEW ws, SndWakes(p, ws) PROVE Types'
  <2>1. Run(p, "user", ws) /\ Leave(p) /\ Sending' = Sending \ {p}
    BY <1>10, ReturnFacts, Zenon DEF SndWakes
  <2>2. pc' \in [Proc -> Pc]
    BY <1>0, <2>1, RunFacts, Zenon
  <2>3. sent + Cardinality(Sending') <= MaxMsgs
    BY <2>1, RoomKept, Zenon
  <2>4. UNCHANGED <<slotVars, queueVars, receivers, senders, rmsg, ghosts>> /\ lock' = None
    BY <1>10 DEF SndWakes
  <2> QED
    BY <2>1, <2>2, <2>3, <2>4, LeaveFacts, SMTT(20) DEF Types, slotVars, queueVars, ghosts
<1>11. CASE RcvFails(p)
  <2>1. Run(p, "user", {}) /\ Leave(p) /\ Sending' = Sending \ {p}
    BY <1>11, ReturnFacts, Zenon DEF RcvFails
  <2>2. pc' \in [Proc -> Pc]
    BY <1>0, <2>1, RunFacts, Zenon
  <2>3. sent + Cardinality(Sending') <= MaxMsgs
    BY <2>1, RoomKept, Zenon
  <2>4. receivers' \in Seq(Proc) /\ NoRepeat(receivers') /\ rmsg' \in [Proc -> Rmsg]
    BY <1>11, RmsgFacts DEF RcvFails, Delisted, Types
  <2>5. UNCHANGED <<slotVars, queueVars, senders, lock, ghosts>>
    BY <1>11 DEF RcvFails
  <2> QED
    BY <2>1, <2>2, <2>3, <2>4, <2>5, LeaveFacts, Zenon DEF Types, slotVars, queueVars, ghosts
<1>12. ASSUME NEW r, NEW at, Takes(p, r, at) PROVE Types'
  <2>1. Run(p, "user", AllSenders) /\ Leave(p) /\ Sending' = Sending \ {p}
    BY <1>12, ReturnFacts, Zenon DEF Takes
  <2>2. pc' \in [Proc -> Pc]
    BY <1>0, <2>1, RunFacts, Zenon
  <2>3. sent + Cardinality(Sending') <= MaxMsgs
    BY <2>1, RoomKept, Zenon
  <2>4. receivers' \in Seq(Proc) /\ NoRepeat(receivers') /\ rmsg' \in [Proc -> Rmsg]
    BY <1>12, RmsgFacts DEF Takes, Delisted, Types
  <2>5. UNCHANGED <<slotVars, senders, lock, sent, purged>>
    BY <1>12 DEF Takes
  <2>6. messages' \in Seq(Message) /\ messages[at] \in Message
    BY <1>12, TakesFacts, MessageFacts, Zenon
  <2>7. cbytes' \in Int /\ qnum' \in Int /\ hdrs' \in Int /\ bytes' \in Int
    <3>1. /\ qnum' = qnum - 1 /\ cbytes' = cbytes - messages[at].size
          /\ hdrs' = hdrs - 1 /\ bytes' = bytes - messages[at].size
      BY <1>12 DEF Takes
    <3>2. messages[at].size \in Nat
      BY <2>6, MessageFacts, Zenon
    <3>3. cbytes \in Int /\ qnum \in Int /\ hdrs \in Int /\ bytes \in Int
      BY DEF Types
    <3> QED
      BY <3>1, <3>2, <3>3
  <2>8. returned' \in [1..MaxMsgs -> Nat]
    <3>1. returned' = [returned EXCEPT ![messages[at].n] = @ + 1]
      BY <1>12 DEF Takes
    <3>2. messages[at].n \in 1..MaxMsgs
      BY <2>6, MessageFacts, Zenon
    <3>3. returned \in [1..MaxMsgs -> Nat]
      BY DEF Types
    <3> QED
      BY <3>1, <3>2, <3>3
  <2>9. last' \in [Type -> Nat]
    BY <1>12, <2>6, MessageFacts, Zenon DEF Takes, Give, Types
  <2> QED
    BY <2>1, <2>2, <2>3, <2>4, <2>5, <2>6, <2>7, <2>8, <2>9, LeaveFacts, Zenon DEF Types, slotVars
<1>13. ASSUME NEW r, NEW rcvs, RcvSleeps(p, r, rcvs) PROVE Types'
  <2>1. Run(p, "rsleep", {})
    BY <1>13 DEF RcvSleeps
  <2>2. pc' \in [Proc -> Pc] /\ Sending' = Sending \ {p}
    BY <1>0, <2>1, RunFacts DEF Sending
  <2>3. sent + Cardinality(Sending') <= MaxMsgs
    BY <2>2, RoomKept, Zenon
  <2>4. receivers' \in Seq(Proc) /\ NoRepeat(receivers')
    BY <1>13 DEF RcvSleeps, Delisted, ListLaws, AppendLaw
  <2>5. UNCHANGED <<slotVars, queueVars, senders, lock, sig, ghosts>>
    BY <1>13 DEF RcvSleeps
  <2>6. arg' \in [Proc -> {None} \cup Proc \cup SndCall \cup RcvMenu]
    BY <1>13 DEF RcvSleeps, Types
  <2>7. rmsg' \in [Proc -> Rmsg]
    BY <1>13, RmsgFacts DEF RcvSleeps, Types
  <2> QED
    BY <2>2, <2>3, <2>4, <2>5, <2>6, <2>7, SMTT(20) DEF Types, slotVars, queueVars, ghosts
<1>14. CASE RcvGets(p)
  <2>0. Return(p, {})
    BY <1>14 DEF RcvGets, OutSuccess
  <2>1. Run(p, "user", {}) /\ Leave(p) /\ Sending' = Sending \ {p}
    BY <2>0, ReturnFacts, Zenon
  <2>2. pc' \in [Proc -> Pc]
    BY <1>0, <2>1, RunFacts, Zenon
  <2>3. sent + Cardinality(Sending') <= MaxMsgs
    BY <2>1, RoomKept, Zenon
  <2>4. rmsg' \in [Proc -> Rmsg] /\ rmsg[p].msg \in Message
    BY <1>14, RmsgFacts DEF RcvGets, OutSuccess, Types
  <2>5. returned' \in [1..MaxMsgs -> Nat]
    <3>1. returned' = [returned EXCEPT ![rmsg[p].msg.n] = @ + 1]
      BY <1>14 DEF RcvGets, OutSuccess
    <3>2. rmsg[p].msg.n \in 1..MaxMsgs
      BY <2>4, MessageFacts, Zenon
    <3>3. returned \in [1..MaxMsgs -> Nat]
      BY DEF Types
    <3> QED
      BY <3>1, <3>2, <3>3
  <2>6. UNCHANGED <<slotVars, queueVars, receivers, senders, lock, sent, purged, last>>
    BY <1>14 DEF RcvGets, OutSuccess
  <2> QED
    BY <2>1, <2>2, <2>3, <2>4, <2>5, <2>6, LeaveFacts, Zenon DEF Types, slotVars, queueVars
<1>15. CASE RcvLooks(p)
  <2>1. Run(p, "rlock", {}) /\ UNCHANGED <<slotVars, queueVars, receivers, senders, lock, arg, rmsg, sig, ghosts>>
    BY <1>15 DEF RcvLooks
  <2>2. pc' \in [Proc -> Pc] /\ Sending' = Sending \ {p}
    BY <1>0, <2>1, RunFacts DEF Sending
  <2>3. sent + Cardinality(Sending') <= MaxMsgs
    BY <2>2, RoomKept, Zenon
  <2> QED
    BY <2>1, <2>2, <2>3 DEF Types, slotVars, queueVars, ghosts
<1> QED
  BY <1>1, <1>2, <1>3, <1>4, <1>5, <1>6, <1>8, <1>9, <1>10, <1>11, <1>12, <1>13, <1>14, <1>15, Zenon DEF Step

(* A step of p leaves a process alone whose r_msg it does not store to and *)
(* that it takes off no list of receivers.                                 *)
LEMMA OthersKept ==
  ASSUME Types, Calls, NEW p \in Proc, NEW at \in Pc, NEW ws, Run(p, at, ws),
         \A x \in Proc \ {p} : arg'[x] = arg[x],
         pc[p] # "waking", lock' = lock \/ lock = None,
         NEW q \in Proc \ {p},
         q \in Range(senders') => q \in Range(senders),
         q \in Range(receivers') <=> q \in Range(receivers),
         rmsg'[q] = rmsg[q]
  PROVE  CallOK(q)'
<1>1. /\ pc'[q] \in {"ssleep", "sawake"} <=> pc[q] \in {"ssleep", "sawake"}
      /\ InMsgrcv(q)' <=> InMsgrcv(q)
      /\ pc'[q] = "waking" <=> pc[q] = "waking"
      /\ pc'[q] = "bug" <=> pc[q] = "bug"
      /\ pc'[q] = "rsleep" => pc[q] = "rsleep"
      /\ \A x \in Proc \ {p} : pc'[x] = "waking" <=> pc[x] = "waking"
  BY RunFacts, Zenon
<1>2. CallOK(q) /\ arg'[q] = arg[q]
  BY DEF Calls
<1>3. pc[q] = "waking" => lock' = q
  <2>1. None \notin Proc
    BY ProcAssumption
  <2> QED
    BY <1>2, <2>1 DEF CallOK
<1>4. (\E x \in Proc : pc[x] = "waking" /\ arg[x] = q) => \E x \in Proc : pc'[x] = "waking" /\ arg'[x] = q
  BY <1>1
<1> QED
  BY <1>1, <1>2, <1>3, <1>4, Zenon DEF CallOK

(* A process that holds the lock is the only one that wakes a receiver.    *)
LEMMA LockFacts ==
  ASSUME Calls, lock = None
  PROVE  \A x \in Proc : pc[x] # "waking"
BY ProcAssumption DEF Calls, CallOK

(* A process in user mode, or asleep as a sender, is on no list of         *)
(* receivers, and not in the way of others.                                *)
LEMMA UserOK ==
  ASSUME NEW p \in Proc, pc'[p] = "user", p \notin Range(senders'), p \notin Range(receivers'),
         rmsg'[p].err = "unused"
  PROVE  CallOK(p)'
BY DEF CallOK, InMsgrcv

LEMMA CallsStep1 ==
  ASSUME Types, Calls, NEW p \in Proc, Msgget(p) \/ IpcSet(p) \/ IpcRmid(p) \/ Signal(p)
  PROVE  Calls'
<1>0. "user" \in Pc
  BY DEF Pc
<1>1. CASE Msgget(p)
  <2>1. /\ UNCHANGED <<lock, pc, arg, rmsg>> /\ receivers' = <<>> /\ senders' = <<>> /\ qid' # NoQueue
        /\ qid = NoQueue
    BY <1>1 DEF Msgget, NoQueue, Types
  <2>2. Range(receivers') = {} /\ Range(senders') = {} /\ Range(receivers) = {} /\ Range(senders) = {}
    BY <2>1 DEF Calls, Range
  <2>3. ASSUME NEW q \in Proc PROVE CallOK(q)'
    BY <2>1, <2>2 DEF Calls, CallOK, InMsgrcv
  <2> QED
    BY <2>1, <2>3 DEF Calls
<1>2. ASSUME pc[p] = "user", lock = None, Return(p, Sleepers), lock' = lock,
             NEW e \in {"EAGAIN", "EIDRM"}, ExpungeAll(e),
             IF e = "EAGAIN" THEN UNCHANGED <<receivers, senders>>
                             ELSE Range(receivers') = {} /\ Range(senders') = {}
      PROVE  \A q \in Proc : CallOK(q)'
  <2> SUFFICES ASSUME NEW q \in Proc PROVE CallOK(q)'
    OBVIOUS
  <2>1. Run(p, "user", Sleepers) /\ Leave(p)
    BY <1>2 DEF Return
  <2>2. \A x \in Proc \ {p} : arg'[x] = arg[x]
    BY <2>1, LeaveFacts, Zenon
  <2>3. \A x \in Proc : rmsg'[x] = IF x \in Range(receivers) THEN Err(e) ELSE rmsg[x]
    BY <1>2 DEF ExpungeAll
  <2>4. p \notin Range(receivers) /\ p \notin Range(senders) /\ rmsg[p].err = "unused"
    BY <1>2 DEF Calls, CallOK, InMsgrcv
  <2>5. CASE q = p
    <3>1. pc'[p] = "user"
      BY <1>0, <2>1, RunFacts, Zenon
    <3>2. p \notin Range(receivers') /\ p \notin Range(senders')
      BY <1>2, <2>4
    <3>3. rmsg'[p].err = "unused"
      BY <2>3, <2>4
    <3> QED
      BY <2>5, <3>1, <3>2, <3>3, UserOK
  <2>6. CASE q # p /\ q \notin Range(receivers)
    <3>1. rmsg'[q] = rmsg[q] /\ q \notin Range(receivers') /\ (q \in Range(senders') => q \in Range(senders))
      BY <1>2, <2>3, <2>6
    <3> QED
      BY <1>0, <1>2, <2>1, <2>2, <2>6, <3>1, OthersKept
  <2>7. CASE q # p /\ q \in Range(receivers)
    <3>1. rmsg'[q].err = e
      BY <2>3, <2>7, RmsgFacts
    <3>2. CallOK(q) /\ InMsgrcv(q)
      BY <2>7 DEF Calls, CallOK
    <3>3. InMsgrcv(q)' /\ pc'[q] # "rsleep"
      <4>1. q \in Sleepers /\ q \in Proc \ {p}
        BY <2>7 DEF Sleepers
      <4>2. (InMsgrcv(q)' <=> InMsgrcv(q)) /\ (pc'[q] = "rsleep" => q \notin Sleepers)
        BY <1>0, <2>1, <4>1, RunFacts, Zenon
      <4> QED
        BY <3>2, <4>1, <4>2, Zenon
    <3>4. /\ q \notin Range(senders) /\ arg[q] \in RcvMenu /\ arg'[q] = arg[q]
          /\ q \notin Range(senders') /\ (q \in Range(receivers') <=> e = "EAGAIN")
      BY <1>2, <2>2, <2>7, <3>2 DEF CallOK, InMsgrcv
    <3> QED
      BY <3>1, <3>3, <3>4 DEF CallOK, InMsgrcv
  <2> QED
    BY <2>5, <2>6, <2>7
<1>3. CASE IpcSet(p)
  <2>1. /\ pc[p] = "user" /\ lock = None /\ Return(p, Sleepers) /\ ExpungeAll("EAGAIN")
        /\ UNCHANGED <<qid, seq, queueVars, receivers, senders, lock, ghosts>>
    BY <1>3 DEF IpcSet
  <2>2. \A q \in Proc : CallOK(q)'
    BY <1>2, <2>1
  <2> QED
    BY <2>1, <2>2 DEF Calls, queueVars
<1>4. CASE IpcRmid(p)
  <2>1. /\ pc[p] = "user" /\ lock = None /\ Return(p, Sleepers) /\ ExpungeAll("EIDRM") /\ lock' = lock
        /\ receivers' = <<>> /\ senders' = <<>> /\ messages' = <<>>
    BY <1>4 DEF IpcRmid
  <2>2. Range(receivers') = {} /\ Range(senders') = {}
    BY <2>1 DEF Range
  <2>3. \A q \in Proc : CallOK(q)'
    BY <1>2, <2>1, <2>2
  <2> QED
    BY <2>1, <2>2, <2>3 DEF Calls
<1>5. CASE Signal(p)
  <2>1. /\ \A q \in Proc :
              /\ pc'[q] \in {"ssleep", "sawake"} <=> pc[q] \in {"ssleep", "sawake"}
              /\ InMsgrcv(q)' <=> InMsgrcv(q)
              /\ pc'[q] = "waking" <=> pc[q] = "waking"
              /\ pc'[q] = "bug" <=> pc[q] = "bug"
              /\ pc'[q] = "rsleep" => pc[q] = "rsleep"
        /\ UNCHANGED <<qid, queueVars, receivers, senders, lock, arg, rmsg>>
    BY <1>5, SignalFacts
  <2>2. ASSUME NEW q \in Proc PROVE CallOK(q)'
    <3>1. CallOK(q)
      BY DEF Calls
    <3>2. (\E x \in Proc : pc[x] = "waking" /\ arg[x] = q) => \E x \in Proc : pc'[x] = "waking" /\ arg'[x] = q
      BY <2>1
    <3> QED
      BY <2>1, <3>1, <3>2, Zenon DEF CallOK
  <2> QED
    BY <2>1, <2>2 DEF Calls, queueVars
<1> QED
  BY <1>1, <1>3, <1>4, <1>5

LEMMA CallsStep2 ==
  ASSUME ListLaws, Types, Calls, NEW p \in Proc,
         \/ SndFails(p) \/ (\E a, snds : SndSleeps(p, a, snds)) \/ (\E m, gone : Enqueues(p, m, gone))
         \/ (\E m, gone, q : HandsOver(p, m, gone, q))
  PROVE  Calls'
<1>0. /\ "user" \in Pc /\ "ssleep" \in Pc /\ "waking" \in Pc
      /\ pc[p] \in {"user", "sawake"} /\ lock = None
  BY Zenon DEF Pc, SndFails, SndSleeps, Enqueues, HandsOver, Accepts
<1>1. /\ \A x \in Proc : pc[x] # "waking"
      /\ p \notin Range(receivers) /\ rmsg[p].err = "unused"
  BY <1>0, LockFacts DEF Calls, CallOK, InMsgrcv
<1>2. CASE SndFails(p)
  <2>1. /\ Delisted(senders, senders', {p}) /\ Return(p, {})
        /\ UNCHANGED <<slotVars, queueVars, receivers, lock, rmsg, ghosts>>
    BY <1>2 DEF SndFails
  <2>2. Run(p, "user", {}) /\ Leave(p) /\ Range(senders') = Range(senders) \ {p}
    BY <2>1 DEF Return, Delisted
  <2>3. pc'[p] = "user" /\ \A x \in Proc \ {p} : arg'[x] = arg[x]
    BY <1>0, <2>2, RunFacts, LeaveFacts, Zenon
  <2>4. ASSUME NEW q \in Proc PROVE CallOK(q)'
    <3>1. CASE q = p
      BY <1>1, <2>1, <2>2, <2>3, <3>1, UserOK
    <3>2. CASE q # p
      BY <1>0, <1>1, <2>1, <2>2, <2>3, <3>2, OthersKept
    <3> QED
      BY <3>1, <3>2
  <2> QED
    BY <2>1, <2>2, <2>4 DEF Calls, slotVars, queueVars
<1>3. ASSUME NEW a, NEW snds, SndSleeps(p, a, snds) PROVE Calls'
  <2>1. /\ a \in SndCall /\ a.id = qid
        /\ Delisted(senders, snds, {p}) /\ senders' = Append(snds, p)
        /\ Run(p, "ssleep", {}) /\ arg' = [arg EXCEPT ![p] = a]
        /\ UNCHANGED <<slotVars, queueVars, receivers, lock, rmsg, sig, ghosts>>
    BY <1>3 DEF SndSleeps
  <2>2. Range(senders') = (Range(senders) \ {p}) \cup {p}
    BY <2>1 DEF Delisted, ListLaws, AppendLaw
  <2>3. pc'[p] = "ssleep" /\ (\A x \in Proc \ {p} : arg'[x] = arg[x]) /\ arg'[p] = a
    BY <1>0, <2>1, RunFacts, SMTT(20) DEF Types
  <2>4. ASSUME NEW q \in Proc PROVE CallOK(q)'
    <3>1. CASE q = p
      BY <1>1, <2>1, <2>3, <3>1 DEF CallOK, InMsgrcv
    <3>2. CASE q # p
      <4>1. q \in Range(senders') => q \in Range(senders)
        BY <2>2, <3>2
      <4> QED
        BY <1>0, <1>1, <2>1, <2>3, <3>2, <4>1, OthersKept
    <3> QED
      BY <3>1, <3>2
  <2>5. qid # NoQueue
    BY <2>1 DEF SndCall, NoQueue
  <2> QED
    BY <2>1, <2>4, <2>5 DEF Calls, slotVars
<1>4. ASSUME NEW q \in Proc \ {p}, NEW gone, NEW at \in Pc, Run(p, at, gone), q \in gone,
             q \in Range(receivers), q \notin Range(receivers'), rmsg'[q] = Err("E2BIG"),
             Range(senders') = Range(senders) \ {p}, arg'[q] = arg[q]
      PROVE  CallOK(q)'
  <2>1. CallOK(q) /\ InMsgrcv(q)
    BY <1>4 DEF Calls, CallOK
  <2>2. InMsgrcv(q)' /\ pc'[q] # "rsleep"
    BY <1>4, <2>1, RunFacts, Zenon
  <2>3. q \notin Range(senders) /\ arg[q] \in RcvMenu
    BY <2>1 DEF CallOK, InMsgrcv
  <2>4. rmsg'[q].err = "E2BIG"
    BY <1>4, RmsgFacts
  <2> QED
    BY <1>4, <2>2, <2>3, <2>4 DEF CallOK, InMsgrcv
<1>5. ASSUME NEW m, NEW gone, Enqueues(p, m, gone) PROVE Calls'
  <2>1. /\ Return(p, gone) /\ gone \subseteq Range(receivers) /\ lock' = lock
        /\ rmsg' = [q \in Proc |-> IF q \in gone THEN Err("E2BIG") ELSE rmsg[q]]
        /\ qid # NoQueue /\ qid' = qid
    BY <1>5 DEF Enqueues, Accepts, slotVars
  <2>2. /\ Run(p, "user", gone) /\ Leave(p) /\ Range(senders') = Range(senders) \ {p}
        /\ Range(receivers') = Range(receivers) \ gone
    BY <1>5 DEF Return, Delisted, Enqueues, Accepts
  <2>3. pc'[p] = "user" /\ \A x \in Proc \ {p} : arg'[x] = arg[x]
    BY <1>0, <2>2, RunFacts, LeaveFacts, Zenon
  <2>4. p \notin gone
    BY <1>1, <2>1
  <2>5. ASSUME NEW q \in Proc PROVE CallOK(q)'
    <3>1. CASE q = p
      BY <1>1, <2>1, <2>2, <2>3, <2>4, <3>1, UserOK
    <3>2. CASE q # p /\ q \in gone
      BY <1>0, <1>4, <2>1, <2>2, <2>3, <3>2
    <3>3. CASE q # p /\ q \notin gone
      BY <1>0, <1>1, <2>1, <2>2, <2>3, <3>3, OthersKept
    <3> QED
      BY <3>1, <3>2, <3>3
  <2> QED
    BY <2>1, <2>5 DEF Calls
<1>6. ASSUME NEW m, NEW gone, NEW h, HandsOver(p, m, gone, h) PROVE Calls'
  <2>1. /\ gone \subseteq Range(receivers) /\ lock' = p /\ Run(p, "waking", gone)
        /\ rmsg' = [x \in Proc |-> IF x \in gone THEN Err("E2BIG") ELSE IF x = h THEN Arrived(m) ELSE rmsg[x]]
        /\ qid # NoQueue /\ qid' = qid
        /\ h \in Range(receivers) /\ h \notin gone /\ h # p
        /\ arg' = [arg EXCEPT ![p] = h]
    BY <1>1, <1>6 DEF HandsOver, Accepts, slotVars
  <2>2. /\ Range(senders') = Range(senders) \ {p} /\ h \in Proc
        /\ Range(receivers') = Range(receivers) \ (gone \cup {h})
    <3>1. Delisted(senders, senders', {p}) /\ Delisted(receivers, receivers', gone \cup {h})
      BY <1>6, Zenon DEF HandsOver, Accepts
    <3>2. Range(receivers) \subseteq Proc
      BY ReceiversFacts
    <3> QED
      BY <2>1, <3>1, <3>2, Zenon DEF Delisted
  <2>3. pc'[p] = "waking" /\ arg'[p] = h /\ \A x \in Proc \ {p} : arg'[x] = arg[x]
    BY <1>0, <2>1, RunFacts, SMTT(20) DEF Types
  <2>4. p \notin gone
    BY <1>1, <2>1
  <2>5. ASSUME NEW q \in Proc PROVE CallOK(q)'
    <3>1. CASE q = p
      <4>1. rmsg'[p] = rmsg[p]
        BY <2>1, <2>4
      <4> QED
        BY <1>1, <2>1, <2>2, <2>3, <3>1, <4>1, Zenon DEF CallOK, InMsgrcv
    <3>2. CASE q # p /\ q \in gone
      BY <1>0, <1>4, <2>1, <2>2, <2>3, <3>2
    <3>3. CASE q = h
      <4>1. CallOK(h) /\ InMsgrcv(h)
        BY <2>1, <2>2 DEF Calls, CallOK
      <4>2. InMsgrcv(h)'
        BY <1>0, <2>1, <2>2, <4>1, RunFacts, Zenon
      <4>3. h \notin Range(senders) /\ arg[h] \in RcvMenu /\ arg'[h] = arg[h]
        BY <2>1, <2>2, <2>3, <4>1, Zenon DEF CallOK, InMsgrcv
      <4>4. rmsg'[h].err = "none"
        BY <2>1, <2>2, RmsgFacts, Zenon
      <4>5. \E x \in Proc : pc'[x] = "waking" /\ arg'[x] = h
        BY <2>3
      <4>6. h \notin Range(senders') /\ h \notin Range(receivers')
        BY <2>2, <4>3
      <4> QED
        BY <3>3, <4>2, <4>3, <4>4, <4>5, <4>6 DEF CallOK, InMsgrcv
    <3>4. CASE q # p /\ q # h /\ q \notin gone
      BY <1>0, <1>1, <2>1, <2>2, <2>3, <3>4, OthersKept
    <3> QED
      BY <3>1, <3>2, <3>3, <3>4
  <2> QED
    BY <2>1, <2>5 DEF Calls
<1> QED
  BY <1>2, <1>3, <1>5, <1>6

LEMMA CallsStep3 ==
  ASSUME ListLaws, Types, Calls, NEW p \in Proc,
         \/ (\E ws : SndWakes(p, ws)) \/ RcvFails(p) \/ (\E r, at : Takes(p, r, at))
         \/ (\E r, rcvs : RcvSleeps(p, r, rcvs)) \/ RcvGets(p) \/ RcvLooks(p)
  PROVE  Calls'
<1>0. "user" \in Pc /\ "rsleep" \in Pc /\ "rlock" \in Pc /\ CallOK(p)
  BY DEF Pc, Calls
<1>1. ASSUME NEW ws, SndWakes(p, ws) PROVE Calls'
  <2>1. /\ pc[p] = "waking" /\ lock' = None /\ (InMsgrcv(arg[p]) => arg[p] \in ws)
        /\ UNCHANGED <<slotVars, queueVars, receivers, senders, rmsg, ghosts>>
        /\ Run(p, "user", ws) /\ Leave(p)
    BY <1>1 DEF SndWakes, Return
  <2>2. pc'[p] = "user" /\ \A x \in Proc \ {p} : arg'[x] = arg[x]
    BY <1>0, <2>1, RunFacts, LeaveFacts, Zenon
  <2>3. \A x \in Proc \ {p} : pc[x] # "waking"
    BY <2>1 DEF Calls, CallOK
  <2>4. ASSUME NEW q \in Proc PROVE CallOK(q)'
    <3>1. CASE q = p
      BY <1>0, <2>1, <2>2, <3>1, UserOK DEF CallOK, InMsgrcv
    <3>2. CASE q # p
      <4>1. /\ pc'[q] \in {"ssleep", "sawake"} <=> pc[q] \in {"ssleep", "sawake"}
            /\ InMsgrcv(q)' <=> InMsgrcv(q)
            /\ pc'[q] # "waking"
            /\ pc'[q] = "bug" <=> pc[q] = "bug"
            /\ pc'[q] = "rsleep" => pc[q] = "rsleep" /\ q \notin ws
        BY <1>0, <2>1, <2>3, <3>2, RunFacts, Zenon
      <4>2. CallOK(q) /\ arg'[q] = arg[q]
        BY <2>2, <3>2 DEF Calls
      <4>3. pc'[q] = "rsleep" => rmsg[q].err = "EAGAIN"
        BY <2>1, <2>3, <4>1, <4>2 DEF CallOK, InMsgrcv
      <4> QED
        BY <2>1, <4>1, <4>2, <4>3, Zenon DEF CallOK
    <3> QED
      BY <3>1, <3>2
  <2> QED
    BY <2>1, <2>4 DEF Calls, slotVars, queueVars
<1>2. ASSUME pc[p] \in {"user", "rlock", "rawake"}, NEW ws, Return(p, ws), lock' = lock, senders' = senders,
             Range(receivers') = Range(receivers) \ {p}, rmsg' = [rmsg EXCEPT ![p] = NoMsg]
      PROVE  \A q \in Proc : CallOK(q)'
  <2>1. Run(p, "user", ws) /\ Leave(p) /\ pc[p] # "waking" /\ p \notin Range(senders)
    BY <1>0, <1>2, Zenon DEF Return, CallOK
  <2>2. pc'[p] = "user" /\ \A x \in Proc \ {p} : arg'[x] = arg[x]
    BY <1>0, <2>1, RunFacts, LeaveFacts, ZenonT(30)
  <2>3. rmsg'[p].err = "unused" /\ \A x \in Proc \ {p} : rmsg'[x] = rmsg[x]
    BY <1>2, RmsgFacts DEF Types
  <2>4. ASSUME NEW q \in Proc PROVE CallOK(q)'
    <3>1. CASE q = p
      BY <1>2, <2>1, <2>2, <2>3, <3>1, UserOK, Zenon
    <3>2. CASE q # p
      BY <1>0, <1>2, <2>1, <2>2, <2>3, <3>2, OthersKept, Zenon
    <3> QED
      BY <3>1, <3>2
  <2> QED
    BY <2>4
<1>3. CASE RcvFails(p)
  <2>1. /\ pc[p] \in {"user", "rlock", "rawake"} /\ Return(p, {}) /\ lock' = lock /\ senders' = senders
        /\ Range(receivers') = Range(receivers) \ {p} /\ rmsg' = [rmsg EXCEPT ![p] = NoMsg]
        /\ qid' = qid /\ messages' = messages
    BY <1>3 DEF RcvFails, Delisted, slotVars, queueVars
  <2> QED
    BY <1>2, <2>1 DEF Calls
<1>4. ASSUME NEW r, NEW at, Takes(p, r, at) PROVE Calls'
  <2>1. /\ pc[p] \in {"user", "rlock", "rawake"} /\ Return(p, AllSenders) /\ lock' = lock /\ senders' = senders
        /\ Range(receivers') = Range(receivers) \ {p} /\ rmsg' = [rmsg EXCEPT ![p] = NoMsg]
        /\ qid' = qid /\ qid # NoQueue
    BY <1>4 DEF Takes, Delisted, slotVars
  <2> QED
    BY <1>2, <2>1 DEF Calls
<1>5. ASSUME NEW r, NEW rcvs, RcvSleeps(p, r, rcvs) PROVE Calls'
  <2>1. /\ pc[p] \in {"user", "rlock"} /\ Delisted(receivers, rcvs, {p}) /\ receivers' = Append(rcvs, p)
        /\ Run(p, "rsleep", {}) /\ arg' = [arg EXCEPT ![p] = r] /\ r \in RcvMenu
        /\ rmsg' = [rmsg EXCEPT ![p] = Err("EAGAIN")] /\ lock' = lock /\ senders' = senders
        /\ qid' = qid /\ qid # NoQueue
    BY <1>5 DEF RcvSleeps, slotVars
  <2>2. Range(receivers') = (Range(receivers) \ {p}) \cup {p}
    BY <2>1 DEF Delisted, ListLaws, AppendLaw
  <2>3. /\ pc'[p] = "rsleep" /\ (\A x \in Proc \ {p} : arg'[x] = arg[x] /\ rmsg'[x] = rmsg[x])
        /\ arg'[p] = r /\ rmsg'[p].err = "EAGAIN"
    BY <1>0, <2>1, RunFacts, RmsgFacts, SMTT(20) DEF Types
  <2>4. ASSUME NEW q \in Proc PROVE CallOK(q)'
    <3>1. CASE q = p
      <4>1. p \notin Range(senders') /\ p \in Range(receivers')
        BY <1>0, <2>1, <2>2 DEF CallOK
      <4> QED
        BY <2>1, <2>3, <3>1, <4>1, Zenon DEF CallOK, InMsgrcv
    <3>2. CASE q # p
      <4>1. (q \in Range(receivers') <=> q \in Range(receivers)) /\ pc[p] # "waking"
        BY <2>1, <2>2, <3>2
      <4> QED
        BY <1>0, <2>1, <2>3, <3>2, <4>1, OthersKept
    <3> QED
      BY <3>1, <3>2
  <2> QED
    BY <2>1, <2>4 DEF Calls
<1>6. CASE RcvGets(p)
  <2>1. /\ pc[p] \in {"user", "rlock", "rawake"} /\ Return(p, {}) /\ lock' = lock /\ senders' = senders
        /\ receivers' = receivers /\ rmsg' = [rmsg EXCEPT ![p] = NoMsg]
        /\ qid' = qid /\ messages' = messages /\ rmsg[p].err = "none"
    BY <1>6 DEF RcvGets, OutSuccess, slotVars, queueVars
  <2>2. Range(receivers') = Range(receivers) \ {p}
    BY <1>0, <2>1 DEF CallOK
  <2> QED
    BY <1>2, <2>1, <2>2 DEF Calls
<1>7. CASE RcvLooks(p)
  <2>1. /\ pc[p] = "rawake" /\ Run(p, "rlock", {}) /\ pc[p] # "waking"
        /\ UNCHANGED <<slotVars, queueVars, receivers, senders, lock, arg, rmsg, sig, ghosts>>
    BY <1>7 DEF RcvLooks
  <2>2. pc'[p] = "rlock"
    BY <1>0, <2>1, RunFacts, Zenon
  <2>3. ASSUME NEW q \in Proc PROVE CallOK(q)'
    <3>1. CASE q = p
      BY <1>0, <2>1, <2>2, <3>1 DEF CallOK, InMsgrcv
    <3>2. CASE q # p
      BY <1>0, <2>1, <3>2, OthersKept, Zenon
    <3> QED
      BY <3>1, <3>2
  <2> QED
    BY <2>1, <2>3 DEF Calls, slotVars, queueVars
<1> QED
  BY <1>1, <1>3, <1>4, <1>5, <1>6, <1>7

(* Most steps move no message: not on the queue, and not into or out of    *)
(* the hands of a receiver.                                                *)
Still ==
    /\ UNCHANGED <<queueVars, ghosts>>
    /\ \A q \in Proc : rmsg'[q] = rmsg[q] \/ (rmsg[q].err # "none" /\ rmsg'[q].err # "none")

Moves(p) ==
    \/ Msgget(p) \/ IpcRmid(p)
    \/ (\E m, gone : Enqueues(p, m, gone)) \/ (\E m, gone, q : HandsOver(p, m, gone, q))
    \/ (\E r, at : Takes(p, r, at)) \/ RcvGets(p)

LEMMA StillSteps ==
  ASSUME Types, Calls, NEW p \in Proc, Step(p)
  PROVE  Still \/ Moves(p)
<1>1. CASE IpcSet(p)
  <2>1. UNCHANGED <<queueVars, ghosts>> /\ ExpungeAll("EAGAIN")
    BY <1>1 DEF IpcSet
  <2>2. \A q \in Range(receivers) : q \in Proc /\ rmsg[q].err = "EAGAIN"
    BY DEF Calls, CallOK, Types, Range
  <2> QED
    BY <2>1, <2>2, RmsgFacts DEF Still, ExpungeAll
<1>2. CASE Signal(p)
  BY <1>2 DEF Signal, Still
<1>3. CASE SndFails(p)
  BY <1>3 DEF SndFails, Still
<1>4. ASSUME NEW a, NEW snds, SndSleeps(p, a, snds) PROVE Still
  BY <1>4 DEF SndSleeps, Still
<1>5. ASSUME NEW ws, SndWakes(p, ws) PROVE Still
  BY <1>5 DEF SndWakes, Still
<1>6. CASE RcvFails(p)
  BY <1>6, RmsgFacts DEF RcvFails, Still, Types
<1>7. ASSUME NEW r, NEW rcvs, RcvSleeps(p, r, rcvs) PROVE Still
  BY <1>7, RmsgFacts DEF RcvSleeps, Still, Types
<1>8. CASE RcvLooks(p)
  BY <1>8 DEF RcvLooks, Still
<1> QED
  BY <1>1, <1>2, <1>3, <1>4, <1>5, <1>6, <1>7, <1>8, Zenon DEF Step, Moves

(* A message is suited by its type.                                        *)
LEMMA SuitsByType ==
  ASSUME NEW m, NEW k, m.type = k.type, NEW r
  PROVE  Suits(m, r) <=> Suits(k, r)
BY DEF Suits

OrderInv == Order /\ FifoPerType /\ NoMissedMessage

LEMMA OrderStep ==
  ASSUME FiniteLaws, ListLaws, Types, Types', Calls, OrderInv, NEW p \in Proc, Step(p)
  PROVE  Order' /\ FifoPerType'
<1>0. /\ DOMAIN messages = 1..Len(messages) /\ Len(messages) \in Nat /\ sent \in Nat
      /\ \A i \in 1..Len(messages) : messages[i].n \in Nat /\ messages[i].type \in Type
      /\ DOMAIN messages' = 1..Len(messages')
      /\ last \in [Type -> Nat]
  <2>1. DOMAIN messages' = 1..Len(messages')
    BY DEF Types
  <2>2. \A i \in 1..Len(messages) : messages[i].n \in Nat
    BY MessageFacts, Zenon
  <2> QED
    BY <2>1, <2>2, MessageFacts, Zenon DEF Types
<1>1. CASE Still
  BY <1>1 DEF Still, queueVars, ghosts, OrderInv, Order, FifoPerType
<1>2. ASSUME messages' = <<>>, UNCHANGED <<sent, last>> PROVE Order' /\ FifoPerType'
  <2>1. DOMAIN messages' = {}
    BY <1>2
  <2> QED
    BY <1>2, <2>1, Zenon DEF OrderInv, Order, FifoPerType
<1>3. CASE Msgget(p)
  BY <1>2, <1>3 DEF Msgget
<1>4. CASE IpcRmid(p)
  BY <1>2, <1>4 DEF IpcRmid
<1>5. ASSUME NEW m, NEW gone, Enqueues(p, m, gone) PROVE Order' /\ FifoPerType'
  <2>1. m \in Message /\ m.n = sent + 1 /\ sent' = m.n /\ messages' = Append(messages, m) /\ last' = last
    BY <1>5 DEF Enqueues, Accepts
  <2>2. m.type \in Type
    BY <2>1, MessageFacts, Zenon
  <2>3. /\ Len(messages') = Len(messages) + 1
        /\ \A i \in 1..(Len(messages) + 1) : messages'[i] = IF i = Len(messages) + 1 THEN m ELSE messages[i]
    <3>1. messages \in Seq(Message)
      BY DEF Types
    <3> QED
      BY <2>1, <3>1
  <2>4. /\ \A i, j \in 1..Len(messages) : i < j => messages[i].n < messages[j].n
        /\ \A i \in 1..Len(messages) : messages[i].n <= sent /\ messages[i].n > last[messages[i].type]
        /\ \A t \in Type : last[t] <= sent /\ last[t] \in Nat
    BY <1>0 DEF OrderInv, Order, FifoPerType
  <2> DEFINE N == Len(messages)
  <2> HIDE DEF N
  <2>5. /\ N \in Nat /\ DOMAIN messages' = 1..(N + 1)
        /\ \A i \in 1..(N + 1) : i = N + 1 \/ i \in 1..N
        /\ \A i \in 1..N : messages'[i] = messages[i]
        /\ messages'[N + 1] = m
    BY <1>0, <2>3 DEF N
  <2>6. /\ \A i, j \in 1..(N + 1) : i < j => messages'[i].n < messages'[j].n
        /\ \A i \in 1..(N + 1) : messages'[i].n <= sent' /\ messages'[i].n > last[messages'[i].type]
        /\ \A t \in Type : last[t] <= sent'
    <3>1. /\ \A i, j \in 1..N : i < j => messages[i].n < messages[j].n
          /\ \A i \in 1..N : messages[i].n <= sent /\ messages[i].n > last[messages[i].type] /\ messages[i].n \in Nat
      BY <1>0, <2>4 DEF N
    <3> QED
      BY <1>0, <2>1, <2>2, <2>4, <2>5, <3>1
  <2> QED
    BY <2>1, <2>5, <2>6, Zenon DEF Order, FifoPerType
<1>6. ASSUME NEW m, NEW gone, NEW h, HandsOver(p, m, gone, h) PROVE Order' /\ FifoPerType'
  <2>1. /\ m \in Message /\ m.n = sent + 1 /\ sent' = m.n /\ messages' = messages
        /\ last' = [last EXCEPT ![m.type] = m.n]
        /\ h \in Range(receivers) /\ Suits(m, arg[h])
    BY <1>6 DEF HandsOver, Accepts, Give, queueVars
  <2>2. m.type \in Type
    BY <2>1, MessageFacts, Zenon
  <2>3. \A i \in 1..Len(messages) : messages[i].type # m.type
    BY <1>0, <2>1, SuitsByType, Zenon DEF OrderInv, NoMissedMessage
  <2>4. \A t \in Type : last'[t] = IF t = m.type THEN m.n ELSE last[t]
    BY <1>0, <2>1, <2>2
  <2>5. \A t \in Type : last'[t] <= sent'
    BY <1>0, <2>1, <2>4 DEF OrderInv, Order
  <2>6. \A i \in 1..Len(messages) : last'[messages[i].type] = last[messages[i].type]
    BY <1>0, <2>3, <2>4
  <2>7. \A i \in 1..Len(messages) : messages[i].n <= sent'
    BY <1>0, <2>1 DEF OrderInv, Order
  <2> QED
    BY <1>0, <2>1, <2>5, <2>6, <2>7, Zenon DEF OrderInv, Order, FifoPerType
<1>7. ASSUME NEW r, NEW at, Takes(p, r, at) PROVE Order' /\ FifoPerType'
  <2>1. /\ at \in 1..Len(messages) /\ Suits(messages[at], r)
        /\ \A j \in 1..Len(messages) : Suits(messages[j], r) => Sooner(messages, r, at, j)
    BY <1>7, TakesFacts
  <2>2. /\ messages' = Without(messages, {messages[at]}) /\ sent' = sent
        /\ last' = [last EXCEPT ![messages[at].type] = messages[at].n]
    BY <1>7 DEF Takes, Give
  <2>3. PICK e : Embeds(e, messages', messages, {messages[at]}, Len(messages))
    BY <2>2 DEF Types, ListLaws, WithoutOrder
  <2>4. /\ \A j \in 1..Len(messages') : e[j] \in 1..Len(messages)
        /\ \A j, k \in 1..Len(messages') : j < k => e[j] < e[k]
        /\ \A k \in 1..Len(messages') : messages'[k] = messages[e[k]] /\ messages[e[k]] # messages[at]
    BY <2>3 DEF Embeds
  <2>5. /\ \A i, j \in 1..Len(messages) : i < j => messages[i].n < messages[j].n
        /\ \A i \in 1..Len(messages) : messages[i].n <= sent /\ messages[i].n > last[messages[i].type]
        /\ \A t \in Type : last[t] <= sent
    BY <1>0, Zenon DEF OrderInv, Order, FifoPerType
  <2>6. \A t \in Type : last'[t] = IF t = messages[at].type THEN messages[at].n ELSE last[t]
    BY <1>0, <2>1, <2>2
  <2>7. ASSUME NEW k \in 1..Len(messages') PROVE messages'[k].n > last'[messages'[k].type]
    <3>1. e[k] \in 1..Len(messages) /\ messages'[k] = messages[e[k]] /\ e[k] # at
      BY <2>4
    <3>2. CASE messages[e[k]].type = messages[at].type
      <4>1. Sooner(messages, r, at, e[k])
        BY <2>1, <3>1, <3>2, SuitsByType, Zenon
      <4>2. Rank(messages, r, at) = Rank(messages, r, e[k]) /\ Rank(messages, r, at) \in Int
        <5>1. messages[at].type \in Int
          BY <2>1, MessageFacts DEF Typed
        <5> QED
          BY <3>2, <5>1 DEF Rank
      <4>3. at < e[k]
        BY <2>1, <3>1, <4>1, <4>2 DEF Sooner
      <4>4. messages[at].n < messages[e[k]].n
        BY <2>1, <2>5, <3>1, <4>3, Zenon
      <4>5. last'[messages[e[k]].type] = messages[at].n
        BY <1>0, <2>6, <3>1, <3>2
      <4>6. messages[at].n \in Nat /\ messages[e[k]].n \in Nat
        BY <1>0, <2>1, <3>1, Zenon
      <4> QED
        BY <3>1, <4>4, <4>5, <4>6
    <3>3. CASE messages[e[k]].type # messages[at].type
      BY <1>0, <2>5, <2>6, <3>1, <3>3
    <3> QED
      BY <3>2, <3>3
  <2>8. \A t \in Type : last'[t] <= sent'
    BY <1>0, <2>1, <2>2, <2>5, <2>6
  <2>9. /\ \A j, k \in 1..Len(messages') : j < k => messages'[j].n < messages'[k].n
        /\ \A k \in 1..Len(messages') : messages'[k].n <= sent'
    BY <2>2, <2>4, <2>5, Zenon
  <2> QED
    BY <1>0, <2>7, <2>8, <2>9, Zenon DEF Order, FifoPerType
<1>8. CASE RcvGets(p)
  BY <1>8 DEF RcvGets, OutSuccess, queueVars, OrderInv, Order, FifoPerType
<1> QED
  BY <1>1, <1>3, <1>4, <1>5, <1>6, <1>7, <1>8, StillSteps, Zenon DEF Moves

(* A receiver that stays on the list keeps looking for the same messages.  *)
LEMMA ReceiversKept ==
  ASSUME Types, Calls, NEW p \in Proc, Step(p), ~\E r, rcvs : RcvSleeps(p, r, rcvs)
  PROVE  \A q \in Range(receivers') : q \in Range(receivers) /\ arg'[q] = arg[q]
<1> DEFINE Kept == \A q \in Range(receivers') : q \in Range(receivers) /\ arg'[q] = arg[q]
<1>0. Range(receivers) \subseteq Proc /\ \A q \in Range(receivers) : InMsgrcv(q) /\ pc[q] # "user" /\ pc[q] # "sawake" /\ pc[q] # "waking"
  BY DEF Types, Range, Calls, CallOK, InMsgrcv
<1>1. ASSUME receivers' = <<>> PROVE Kept
  BY <1>1 DEF Range
<1>2. ASSUME Range(receivers') \subseteq Range(receivers), p \notin Range(receivers'),
             \A x \in Proc \ {p} : arg'[x] = arg[x]
      PROVE  Kept
  BY <1>0, <1>2
<1>3. ASSUME NEW ws, Return(p, ws) PROVE \A x \in Proc \ {p} : arg'[x] = arg[x]
  <2>1. Leave(p)
    BY <1>3 DEF Return
  <2> QED
    BY <2>1, LeaveFacts, Zenon
<1>4. CASE Msgget(p) \/ IpcRmid(p)
  BY <1>1, <1>4 DEF Msgget, IpcRmid
<1>5. CASE IpcSet(p)
  <2>1. pc[p] = "user" /\ receivers' = receivers /\ Return(p, Sleepers)
    BY <1>5 DEF IpcSet
  <2>2. p \notin Range(receivers')
    BY <1>0, <2>1
  <2> QED
    BY <1>2, <1>3, <2>1, <2>2, Zenon
<1>6. CASE Signal(p) \/ RcvLooks(p)
  BY <1>6 DEF Signal, RcvLooks
<1>7. CASE SndFails(p)
  <2>1. pc[p] \in {"user", "sawake"} /\ receivers' = receivers /\ Return(p, {})
    BY <1>7 DEF SndFails
  <2>2. p \notin Range(receivers')
    BY <1>0, <2>1
  <2> QED
    BY <1>2, <1>3, <2>1, <2>2, Zenon
<1>8. ASSUME NEW a, NEW snds, SndSleeps(p, a, snds) PROVE Kept
  <2>1. pc[p] \in {"user", "sawake"} /\ receivers' = receivers /\ arg' = [arg EXCEPT ![p] = a]
    BY <1>8 DEF SndSleeps
  <2>2. p \notin Range(receivers')
    BY <1>0, <2>1
  <2>3. \A x \in Proc \ {p} : arg'[x] = arg[x]
    BY <2>1 DEF Types
  <2> QED
    BY <1>2, <2>1, <2>2, <2>3, Zenon
<1>9. ASSUME NEW m, NEW gone, Enqueues(p, m, gone) PROVE Kept
  <2>1. pc[p] \in {"user", "sawake"} /\ Range(receivers') = Range(receivers) \ gone /\ Return(p, gone)
    BY <1>9 DEF Enqueues, Accepts, Delisted
  <2>2. p \notin Range(receivers') /\ Range(receivers') \subseteq Range(receivers)
    BY <1>0, <2>1
  <2> QED
    BY <1>2, <1>3, <2>1, <2>2, Zenon
<1>10. ASSUME NEW m, NEW gone, NEW h, HandsOver(p, m, gone, h) PROVE Kept
  <2>1. /\ pc[p] \in {"user", "sawake"} /\ Range(receivers') = Range(receivers) \ (gone \cup {h})
        /\ arg' = [arg EXCEPT ![p] = h]
    BY <1>10 DEF HandsOver, Accepts, Delisted
  <2>2. p \notin Range(receivers') /\ Range(receivers') \subseteq Range(receivers)
    BY <1>0, <2>1
  <2>3. \A x \in Proc \ {p} : arg'[x] = arg[x]
    BY <2>1 DEF Types
  <2> QED
    BY <1>2, <2>2, <2>3, Zenon
<1>11. ASSUME NEW ws, SndWakes(p, ws) PROVE Kept
  <2>1. pc[p] = "waking" /\ receivers' = receivers /\ Return(p, ws)
    BY <1>11 DEF SndWakes
  <2>2. p \notin Range(receivers')
    BY <1>0, <2>1
  <2> QED
    BY <1>2, <1>3, <2>1, <2>2, Zenon
<1>12. ASSUME NEW ws, Return(p, ws), Range(receivers') = Range(receivers) \ {p} PROVE Kept
  BY <1>2, <1>3, <1>12, Zenon
<1>13. CASE RcvFails(p)
  <2>1. Return(p, {}) /\ Range(receivers') = Range(receivers) \ {p}
    BY <1>13 DEF RcvFails, Delisted
  <2> QED
    BY <1>12, <2>1, Zenon
<1>14. ASSUME NEW r, NEW at, Takes(p, r, at) PROVE Kept
  <2>1. Return(p, AllSenders) /\ Range(receivers') = Range(receivers) \ {p}
    BY <1>14 DEF Takes, Delisted
  <2> QED
    BY <1>12, <2>1, Zenon
<1>15. CASE RcvGets(p)
  <2>1. Return(p, {}) /\ receivers' = receivers /\ p \notin Range(receivers)
    BY <1>15 DEF RcvGets, OutSuccess, Calls, CallOK
  <2> QED
    BY <1>2, <1>3, <2>1, Zenon
<1> QED
  BY <1>4, <1>5, <1>6, <1>7, <1>8, <1>9, <1>10, <1>11, <1>13, <1>14, <1>15, ZenonT(30) DEF Step

LEMMA NoMissedStep ==
  ASSUME FiniteLaws, ListLaws, Types, Types', Calls, NoMissedMessage, NEW p \in Proc, Step(p)
  PROVE  NoMissedMessage'
<1> DEFINE Miss(rs, ms, a) == \A q \in rs : \A x \in ms : ~Suits(x, a[q])
<1>1. /\ NoMissedMessage => Miss(Range(receivers), Range(messages), arg)
      /\ Miss(Range(receivers'), Range(messages'), arg') => NoMissedMessage'
  BY DEF NoMissedMessage, Range
<1>2. ASSUME NEW r, NEW rcvs, RcvSleeps(p, r, rcvs) PROVE NoMissedMessage'
  <2>1. /\ r \in RcvMenu /\ FindMsg(messages, r) = 0 /\ messages' = messages
        /\ Delisted(receivers, rcvs, {p}) /\ receivers' = Append(rcvs, p)
        /\ arg' = [arg EXCEPT ![p] = r]
    BY <1>2 DEF RcvSleeps, queueVars
  <2>2. Range(receivers') = (Range(receivers) \ {p}) \cup {p} /\ Range(receivers) \subseteq Proc
    <3>1. Range(receivers) \subseteq Proc
      BY ReceiversFacts
    <3> QED
      BY <2>1, <3>1 DEF Delisted, ListLaws, AppendLaw
  <2>3. Seen(messages, r, Len(messages)) = {}
    BY <2>1, MessageFacts, FindMsgCorrect
  <2>4. \A x \in Range(messages) : ~Suits(x, r)
    BY <2>3, MessageFacts DEF Seen, Range
  <2>5. arg'[p] = r /\ \A q \in Proc \ {p} : arg'[q] = arg[q]
    BY <2>1 DEF Types
  <2>6. Miss(Range(receivers'), Range(messages'), arg')
    BY <1>1, <2>1, <2>2, <2>4, <2>5
  <2> QED
    BY <1>1, <2>6
<1>3. ASSUME ~\E r, rcvs : RcvSleeps(p, r, rcvs) PROVE NoMissedMessage'
  <2>1. \A q \in Range(receivers') : q \in Range(receivers) /\ arg'[q] = arg[q]
    BY <1>3, ReceiversKept
  <2>2. ASSUME Range(messages') \subseteq Range(messages) PROVE NoMissedMessage'
    BY <1>1, <2>1, <2>2
  <2>3. CASE Still
    BY <2>2, <2>3 DEF Still, queueVars
  <2>4. CASE Msgget(p) \/ IpcRmid(p)
    <3>1. messages' = <<>>
      BY <2>4 DEF Msgget, IpcRmid
    <3> QED
      BY <2>2, <3>1 DEF Range
  <2>5. ASSUME NEW m, NEW gone, Enqueues(p, m, gone) PROVE NoMissedMessage'
    <3>1. /\ messages' = Append(messages, m) /\ m \in Message
          /\ \A q \in Range(receivers) \ gone : ~Suits(m, arg[q])
          /\ Range(receivers') = Range(receivers) \ gone
      BY <2>5 DEF Enqueues, Accepts, Delisted
    <3>2. Range(messages') = Range(messages) \cup {m}
      <4>1. messages \in Seq(Message)
        BY DEF Types
      <4> QED
        BY <3>1, <4>1 DEF ListLaws, AppendLaw
    <3> QED
      BY <1>1, <2>1, <3>1, <3>2
  <2>6. ASSUME NEW m, NEW gone, NEW h, HandsOver(p, m, gone, h) PROVE NoMissedMessage'
    BY <2>2, <2>6 DEF HandsOver, queueVars
  <2>7. ASSUME NEW r, NEW at, Takes(p, r, at) PROVE NoMissedMessage'
    <3>1. Range(messages') = Range(messages) \ {messages[at]}
      BY <2>7, TakesFacts
    <3> QED
      BY <2>2, <3>1
  <2>8. CASE RcvGets(p)
    BY <2>2, <2>8 DEF RcvGets, OutSuccess, queueVars
  <2> QED
    BY <2>3, <2>4, <2>5, <2>6, <2>7, <2>8, StillSteps, Zenon DEF Moves
<1> QED
  BY <1>2, <1>3

-----------------------------------------------------------------------------
(* A sender stays asleep only if nothing was taken off the queue, the      *)
(* limit was not changed and the queue is still there.                     *)
SleepsOn ==
    /\ qid' = qid /\ qbytes' = qbytes
    /\ cbytes' \in Int /\ cbytes' >= cbytes /\ qnum' \in Int /\ qnum' >= qnum
    /\ \A q \in Proc : pc'[q] = "ssleep" =>
         /\ pc[q] = "ssleep" /\ arg'[q] = arg[q]
         /\ q \in Range(senders) => q \in Range(senders')

Waits(q) == pc[q] = "ssleep" => qid = arg[q].id /\ q \in Range(senders) /\ Full(arg[q].size)

LEMMA SleepsOnKeeps ==
  ASSUME Types, Calls, NoStuckSender, SleepsOn
  PROVE  NoStuckSender'
<1>1. ASSUME NEW q \in Proc, pc'[q] = "ssleep" PROVE Waits(q)'
  <2>1. pc[q] = "ssleep" /\ arg'[q] = arg[q] /\ q \in Range(senders')
    BY <1>1 DEF SleepsOn, NoStuckSender
  <2>2. arg[q] \in SndCall /\ qid = arg[q].id /\ Full(arg[q].size)
    BY <2>1 DEF NoStuckSender, Calls, CallOK
  <2>3. arg[q].size \in Int
    BY <2>2, MenuAssumption DEF SndCall, Size
  <2> QED
    <3>1. /\ qid' = qid /\ qbytes' = qbytes /\ cbytes' \in Int /\ cbytes' >= cbytes /\ qnum' \in Int /\ qnum' >= qnum
          /\ cbytes \in Int /\ qnum \in Int /\ qbytes \in Int
      BY DEF SleepsOn, Types
    <3>2. Full(arg[q].size)'
      BY <2>1, <2>2, <2>3, <3>1 DEF Full
    <3> QED
      BY <2>1, <2>2, <3>1, <3>2, Zenon DEF Waits, Full
<1> QED
  BY <1>1, Zenon DEF NoStuckSender, Waits

(* Nobody sleeps after a step that wakes all senders.                      *)
LEMMA AllWoken ==
  ASSUME Types, NoStuckSender, NEW p \in Proc, NEW ws, Return(p, ws), Range(senders) \subseteq ws
  PROVE  NoStuckSender'
<1>1. Run(p, "user", ws) /\ "user" \in Pc
  BY DEF Return, Pc
<1>2. pc'[p] = "user" /\ \A q \in Proc \ {p} : pc'[q] = "ssleep" => pc[q] = "ssleep" /\ q \notin ws
  BY <1>1, RunFacts, Zenon
<1>3. \A q \in Proc : pc'[q] # "ssleep"
  BY <1>2 DEF NoStuckSender
<1> QED
  BY <1>3 DEF NoStuckSender

LEMMA NoStuckStep ==
  ASSUME ListLaws, Types, Calls, NoStuckSender, NEW p \in Proc, Step(p)
  PROVE  NoStuckSender'
<1>0. /\ "user" \in Pc /\ "ssleep" \in Pc /\ "rsleep" \in Pc /\ "rlock" \in Pc /\ "waking" \in Pc
      /\ cbytes \in Int /\ qnum \in Int
  BY DEF Pc, Types
<1>1. CASE Msgget(p)
  <2>1. pc' = pc /\ qid = NoQueue
    BY <1>1 DEF Msgget
  <2>2. \A q \in Proc : pc[q] # "ssleep"
    BY <2>1 DEF NoStuckSender, Calls, CallOK, SndCall, NoQueue
  <2> QED
    BY <2>1, <2>2 DEF NoStuckSender
<1>2. CASE IpcSet(p) \/ IpcRmid(p)
  BY <1>2, AllWoken DEF IpcSet, IpcRmid, Sleepers
<1>3. CASE Signal(p)
  BY <1>0, <1>3, SignalFacts, SleepsOnKeeps DEF SleepsOn, queueVars
<1>4. ASSUME NEW at \in Pc, at # "ssleep", NEW ws, Run(p, at, ws), \A x \in Proc \ {p} : arg'[x] = arg[x],
             Range(senders) \ {p} \subseteq Range(senders'), qid' = qid, qbytes' = qbytes,
             cbytes' \in Int, cbytes' >= cbytes, qnum' \in Int, qnum' >= qnum
      PROVE  NoStuckSender'
  <2>1. pc'[p] # "ssleep" /\ \A q \in Proc \ {p} : pc'[q] = "ssleep" => pc[q] = "ssleep"
    BY <1>4, RunFacts, ZenonT(30)
  <2>2. SleepsOn
    BY <1>4, <2>1 DEF SleepsOn
  <2> QED
    BY <2>2, SleepsOnKeeps
<1>5. ASSUME NEW ws, Return(p, ws), Range(senders) \ {p} \subseteq Range(senders'), qid' = qid, qbytes' = qbytes,
             cbytes' \in Int, cbytes' >= cbytes, qnum' \in Int, qnum' >= qnum
      PROVE  NoStuckSender'
  <2>1. Run(p, "user", ws) /\ Leave(p)
    BY <1>5 DEF Return
  <2>2. \A x \in Proc \ {p} : arg'[x] = arg[x]
    BY <2>1, LeaveFacts, Zenon
  <2> QED
    BY <1>0, <1>4, <1>5, <2>1, <2>2
<1>6. CASE SndFails(p)
  <2>1. /\ Return(p, {}) /\ Range(senders') = Range(senders) \ {p} /\ UNCHANGED <<qid, qbytes, cbytes, qnum>>
    BY <1>6 DEF SndFails, Delisted, slotVars, queueVars
  <2> QED
    BY <1>0, <1>5, <2>1
<1>7. ASSUME NEW a, NEW snds, SndSleeps(p, a, snds) PROVE NoStuckSender'
  <2>1. /\ a \in SndCall /\ a.id = qid /\ Full(a.size)
        /\ Delisted(senders, snds, {p}) /\ senders' = Append(snds, p)
        /\ Run(p, "ssleep", {}) /\ arg' = [arg EXCEPT ![p] = a]
        /\ UNCHANGED <<qid, qbytes, cbytes, qnum>>
    BY <1>7 DEF SndSleeps, slotVars, queueVars
  <2>2. Range(senders') = (Range(senders) \ {p}) \cup {p}
    BY <2>1 DEF Delisted, ListLaws, AppendLaw
  <2>3. arg'[p] = a /\ \A x \in Proc \ {p} : arg'[x] = arg[x]
    BY <2>1 DEF Types
  <2>4. \A q \in Proc \ {p} : pc'[q] = "ssleep" => pc[q] = "ssleep"
    BY <1>0, <2>1, RunFacts, Zenon
  <2>5. ASSUME NEW q \in Proc PROVE Waits(q)'
    <3>1. CASE q = p
      BY <2>1, <2>2, <2>3, <3>1 DEF Waits, Full
    <3>2. CASE q # p
      BY <2>1, <2>2, <2>3, <2>4, <3>2 DEF NoStuckSender, Waits, Full
    <3> QED
      BY <3>1, <3>2
  <2> QED
    BY <2>5, Zenon DEF NoStuckSender, Waits
<1>8. ASSUME NEW m, NEW gone, Enqueues(p, m, gone) PROVE NoStuckSender'
  <2>1. /\ Return(p, gone) /\ Range(senders') = Range(senders) \ {p} /\ UNCHANGED <<qid, qbytes>>
        /\ m \in Message /\ cbytes' = cbytes + m.size /\ qnum' = qnum + 1
    BY <1>8 DEF Enqueues, Accepts, Delisted, slotVars
  <2>2. m.size \in Nat
    BY <2>1, MessageFacts, Zenon
  <2>3. cbytes' \in Int /\ cbytes' >= cbytes /\ qnum' \in Int /\ qnum' >= qnum
    BY <1>0, <2>1, <2>2
  <2> QED
    BY <1>5, <2>1, <2>3
<1>9. ASSUME NEW m, NEW gone, NEW h, HandsOver(p, m, gone, h) PROVE NoStuckSender'
  <2>1. /\ Run(p, "waking", gone) /\ Range(senders') = Range(senders) \ {p}
        /\ UNCHANGED <<qid, qbytes, cbytes, qnum>> /\ arg' = [arg EXCEPT ![p] = h]
    BY <1>9 DEF HandsOver, Accepts, Delisted, slotVars, queueVars
  <2>2. \A x \in Proc \ {p} : arg'[x] = arg[x]
    BY <2>1 DEF Types
  <2> QED
    BY <1>0, <1>4, <2>1, <2>2
<1>10. ASSUME NEW ws, SndWakes(p, ws) PROVE NoStuckSender'
  <2>1. Return(p, ws) /\ UNCHANGED <<qid, qbytes, cbytes, qnum, senders>>
    BY <1>10 DEF SndWakes, slotVars, queueVars
  <2> QED
    BY <1>0, <1>5, <2>1
<1>11. CASE RcvFails(p)
  <2>1. Return(p, {}) /\ UNCHANGED <<qid, qbytes, cbytes, qnum, senders>>
    BY <1>11 DEF RcvFails, slotVars, queueVars
  <2> QED
    BY <1>0, <1>5, <2>1
<1>12. ASSUME NEW r, NEW at, Takes(p, r, at) PROVE NoStuckSender'
  BY <1>12, AllWoken DEF Takes, AllSenders
<1>13. ASSUME NEW r, NEW rcvs, RcvSleeps(p, r, rcvs) PROVE NoStuckSender'
  <2>1. Run(p, "rsleep", {}) /\ arg' = [arg EXCEPT ![p] = r] /\ UNCHANGED <<qid, qbytes, cbytes, qnum, senders>>
    BY <1>13 DEF RcvSleeps, slotVars, queueVars
  <2>2. \A x \in Proc \ {p} : arg'[x] = arg[x]
    BY <2>1 DEF Types
  <2> QED
    BY <1>0, <1>4, <2>1, <2>2
<1>14. CASE RcvGets(p)
  <2>1. Return(p, {}) /\ UNCHANGED <<qid, qbytes, cbytes, qnum, senders>>
    BY <1>14 DEF RcvGets, OutSuccess, slotVars, queueVars
  <2> QED
    BY <1>0, <1>5, <2>1
<1>15. CASE RcvLooks(p)
  <2>1. Run(p, "rlock", {}) /\ UNCHANGED <<qid, qbytes, cbytes, qnum, senders, arg>>
    BY <1>15 DEF RcvLooks, slotVars, queueVars
  <2> QED
    BY <1>0, <1>4, <2>1
<1> QED
  BY <1>1, <1>2, <1>3, <1>6, <1>7, <1>8, <1>9, <1>10, <1>11, <1>12, <1>13, <1>14, <1>15, ZenonT(30) DEF Step

-----------------------------------------------------------------------------
Place(n) ==
    IF n <= sent THEN OneListed(n) \/ OneHeld(n) \/ OneReturned(n) \/ OnePurged(n) ELSE Nowhere(n)

(* Message n is not touched.                                               *)
LEMMA PlaceKept ==
  ASSUME NEW n, Place(n), Listed(n) = {} => Listed(n)' = {},
         \A i : Listed(n) = {i} => \E k : Listed(n)' = {k},
         Held(n)' = Held(n), returned'[n] = returned[n], n \in purged' <=> n \in purged,
         n <= sent' <=> n <= sent
  PROVE  Place(n)'
BY Zenon DEF Place, OneListed, OneHeld, OneReturned, OnePurged, Nowhere

(* Who holds a message does not change when r_msg is overwritten where     *)
(* there was none.                                                         *)
LEMMA HeldKept ==
  ASSUME NEW n, \A q \in Proc : \/ rmsg'[q] = rmsg[q]
                                \/ rmsg[q].err # "none" /\ rmsg'[q].err # "none"
  PROVE  Held(n)' = Held(n)
BY DEF Held

LEMMA PlaceStep ==
  ASSUME FiniteLaws, ListLaws, Types, Types', Calls, Order, OnePlace, NEW p \in Proc, Step(p)
  PROVE  OnePlace'
<1> SUFFICES ASSUME NEW n \in 1..MaxMsgs PROVE Place(n)'
  BY Zenon DEF OnePlace, Place
<1>0. /\ Place(n) /\ n \in Nat /\ sent \in Nat
      /\ DOMAIN messages = 1..Len(messages) /\ Len(messages) \in Nat
      /\ DOMAIN messages' = 1..Len(messages') /\ returned \in [1..MaxMsgs -> Nat]
  <2>1. Place(n)
    BY Zenon DEF OnePlace, Place
  <2>2. messages \in Seq(Message) /\ messages' \in Seq(Message) /\ sent \in Nat /\ returned \in [1..MaxMsgs -> Nat]
    BY DEF Types
  <2> QED
    BY <2>1, <2>2, BoundAssumption
<1>1. \A q \in Range(receivers) : q \in Proc /\ rmsg[q].err = "EAGAIN"
  <2>1. Range(receivers) \subseteq Proc
    BY ReceiversFacts
  <2> QED
    BY <2>1, Zenon DEF Calls, CallOK
<1>2. CASE Still
  <2>1. Listed(n)' = Listed(n)
    BY <1>2 DEF Still, queueVars, Listed
  <2>2. Held(n)' = Held(n)
    BY <1>2, HeldKept DEF Still
  <2> QED
    BY <1>0, <1>2, <2>1, <2>2, PlaceKept, Zenon DEF Still, ghosts
<1>3. CASE Msgget(p)
  <2>1. messages = <<>> /\ messages' = <<>> /\ UNCHANGED <<rmsg, sent, returned, purged>>
    BY <1>3 DEF Msgget, Calls
  <2>2. Listed(n)' = Listed(n)
    BY <2>1 DEF Listed
  <2>3. Held(n)' = Held(n)
    BY <2>1, HeldKept, Zenon
  <2> QED
    BY <1>0, <2>1, <2>2, <2>3, PlaceKept, Zenon
<1>4. CASE IpcRmid(p)
  <2>1. /\ messages' = <<>> /\ UNCHANGED <<sent, returned>> /\ ExpungeAll("EIDRM")
        /\ purged' = purged \cup {messages[i].n : i \in DOMAIN messages}
    BY <1>4 DEF IpcRmid
  <2>2. Listed(n)' = {}
    BY <2>1 DEF Listed
  <2>3. Held(n)' = Held(n)
    <3>1. \A q \in Proc : rmsg'[q] = rmsg[q] \/ (rmsg[q].err # "none" /\ rmsg'[q].err # "none")
      BY <1>1, <2>1, RmsgFacts DEF ExpungeAll
    <3> QED
      BY <3>1, HeldKept, Zenon
  <2>4. n \in purged' <=> n \in purged \/ Listed(n) # {}
    BY <2>1 DEF Listed
  <2>5. CASE Listed(n) = {}
    BY <1>0, <2>1, <2>2, <2>3, <2>4, <2>5, PlaceKept, Zenon
  <2>6. CASE Listed(n) # {}
    <3>1. OneListed(n) /\ n <= sent
      BY <1>0, <2>6, Zenon DEF Place, OneListed, OneHeld, OneReturned, OnePurged, Nowhere
    <3>2. OnePurged(n)'
      BY <2>1, <2>2, <2>3, <2>4, <2>6, <3>1, Zenon DEF OneListed, OnePurged
    <3> QED
      BY <2>1, <3>1, <3>2, Zenon DEF Place
  <2> QED
    BY <2>5, <2>6
<1>5. ASSUME NEW m, NEW gone, Enqueues(p, m, gone) PROVE Place(n)'
  <2>1. /\ m \in Message /\ m.n = sent + 1 /\ sent' = m.n /\ messages' = Append(messages, m)
        /\ UNCHANGED <<returned, purged>> /\ gone \subseteq Range(receivers)
        /\ rmsg' = [q \in Proc |-> IF q \in gone THEN Err("E2BIG") ELSE rmsg[q]]
    BY <1>5 DEF Enqueues, Accepts
  <2>2. Held(n)' = Held(n)
    <3>1. \A q \in Proc : rmsg'[q] = rmsg[q] \/ (rmsg[q].err # "none" /\ rmsg'[q].err # "none")
      BY <1>1, <2>1, RmsgFacts
    <3> QED
      BY <3>1, HeldKept, Zenon
  <2>3. /\ Len(messages') = Len(messages) + 1
        /\ \A i \in 1..(Len(messages) + 1) : messages'[i] = IF i = Len(messages) + 1 THEN m ELSE messages[i]
    <3>1. messages \in Seq(Message)
      BY DEF Types
    <3> QED
      BY <2>1, <3>1
  <2> DEFINE N == Len(messages)
  <2>4. /\ N \in Nat /\ DOMAIN messages' = 1..(N + 1) /\ DOMAIN messages = 1..N
        /\ \A i \in 1..N : messages'[i] = messages[i] /\ i \in 1..(N + 1) /\ i # N + 1
        /\ \A i \in 1..(N + 1) : i = N + 1 \/ i \in 1..N
        /\ N + 1 \in 1..(N + 1) /\ messages'[N + 1] = m
    BY <1>0, <2>3
  <2> HIDE DEF N
  <2>5. Listed(n)' = IF n = m.n THEN Listed(n) \cup {N + 1} ELSE Listed(n)
    BY <2>4 DEF Listed
  <2>6. CASE n = m.n
    <3>1. Nowhere(n) /\ n <= sent'
      BY <1>0, <2>1, <2>6 DEF Place
    <3>2. Listed(n)' = {N + 1}
      BY <2>5, <2>6, <3>1 DEF Nowhere
    <3>3. OneListed(n)'
      BY <2>1, <2>2, <3>1, <3>2, Zenon DEF OneListed, Nowhere
    <3> QED
      BY <3>1, <3>3, Zenon DEF Place
  <2>7. CASE n # m.n
    <3>1. n <= sent' <=> n <= sent
      BY <1>0, <2>1, <2>7
    <3> QED
      BY <1>0, <2>1, <2>2, <2>5, <2>7, <3>1, PlaceKept, Zenon
  <2> QED
    BY <2>6, <2>7
<1>6. ASSUME NEW m, NEW gone, NEW h, HandsOver(p, m, gone, h) PROVE Place(n)'
  <2>1. /\ m \in Message /\ m.n = sent + 1 /\ sent' = m.n /\ messages' = messages
        /\ UNCHANGED <<returned, purged>> /\ gone \subseteq Range(receivers)
        /\ h \in Range(receivers) /\ h \notin gone
        /\ rmsg' = [x \in Proc |-> IF x \in gone THEN Err("E2BIG") ELSE IF x = h THEN Arrived(m) ELSE rmsg[x]]
    BY <1>6 DEF HandsOver, Accepts, queueVars
  <2>2. /\ h \in Proc /\ rmsg[h].err # "none" /\ rmsg'[h].err = "none" /\ rmsg'[h].msg = m
        /\ \A x \in Proc \ {h} : rmsg'[x] = rmsg[x] \/ (rmsg[x].err # "none" /\ rmsg'[x].err # "none")
    <3>1. h \in Proc /\ rmsg[h].err # "none" /\ rmsg'[h] = Arrived(m)
      BY <1>1, <2>1
    <3>2. \A x \in Proc \ {h} : rmsg'[x] = rmsg[x] \/ (rmsg[x].err # "none" /\ rmsg'[x].err # "none")
      BY <1>1, <2>1, RmsgFacts
    <3> QED
      BY <3>1, <3>2, RmsgFacts, Zenon
  <2>3. Held(n)' = IF n = m.n THEN Held(n) \cup {h} ELSE Held(n)
    BY <2>2 DEF Held
  <2>4. Listed(n)' = Listed(n)
    BY <2>1 DEF Listed
  <2>5. CASE n = m.n
    <3>1. Nowhere(n) /\ n <= sent'
      BY <1>0, <2>1, <2>5 DEF Place
    <3>2. Held(n)' = {h}
      BY <2>3, <2>5, <3>1 DEF Nowhere
    <3>3. OneHeld(n)'
      BY <2>1, <2>4, <3>1, <3>2, Zenon DEF OneHeld, Nowhere
    <3> QED
      BY <3>1, <3>3, Zenon DEF Place
  <2>6. CASE n # m.n
    <3>1. n <= sent' <=> n <= sent
      BY <1>0, <2>1, <2>6
    <3> QED
      BY <1>0, <2>1, <2>3, <2>4, <2>6, <3>1, PlaceKept, Zenon
  <2> QED
    BY <2>5, <2>6
<1>7. ASSUME NEW r, NEW at, Takes(p, r, at) PROVE Place(n)'
  <2>1. /\ messages' = Without(messages, {messages[at]}) /\ UNCHANGED <<sent, purged>>
        /\ returned' = [returned EXCEPT ![messages[at].n] = @ + 1]
        /\ rmsg' = [rmsg EXCEPT ![p] = NoMsg] /\ rmsg[p].err # "none"
    BY <1>7 DEF Takes
  <2>2. at \in 1..Len(messages)
    BY <1>7, TakesFacts
  <2>3. messages[at].n \in 1..MaxMsgs
    BY <2>2, MessageFacts, ZenonT(30)
  <2>4. PICK e : Embeds(e, messages', messages, {messages[at]}, Len(messages))
    BY <2>1 DEF Types, ListLaws, WithoutOrder
  <2>5. /\ \A j \in 1..Len(messages') : e[j] \in 1..Len(messages)
        /\ \A j, k \in 1..Len(messages') : j < k => e[j] < e[k]
        /\ \A k \in 1..Len(messages') : messages'[k] = messages[e[k]] /\ messages[e[k]] # messages[at]
        /\ \A i \in 1..Len(messages) : messages[i] # messages[at] => \E k \in 1..Len(messages') : e[k] = i
    BY <2>4 DEF Embeds
  <2>6. \A k \in 1..Len(messages') : k \in Listed(n)' <=> e[k] \in Listed(n)
    BY <1>0, <2>5 DEF Listed
  <2>7. Held(n)' = Held(n)
    <3>1. \A q \in Proc : rmsg'[q] = rmsg[q] \/ (rmsg[q].err # "none" /\ rmsg'[q].err # "none")
      BY <2>1, RmsgFacts, Zenon DEF Types
    <3> QED
      BY <3>1, HeldKept, Zenon
  <2>8. returned'[n] = IF n = messages[at].n THEN returned[n] + 1 ELSE returned[n]
    BY <1>0, <2>1, <2>3
  <2>9. Listed(n)' \subseteq 1..Len(messages') /\ Listed(n) \subseteq 1..Len(messages)
    BY <1>0 DEF Listed
  <2>10. CASE n = messages[at].n
    <3>1. at \in Listed(n)
      BY <1>0, <2>2, <2>10 DEF Listed
    <3>2. OneListed(n) /\ n <= sent
      BY <1>0, <3>1, Zenon DEF Place, OneListed, OneHeld, OneReturned, OnePurged, Nowhere
    <3>3. Listed(n) = {at}
      BY <3>1, <3>2 DEF OneListed
    <3>4. Listed(n)' = {}
      BY <2>5, <2>6, <2>9, <3>3
    <3>5. returned'[n] = 1
      BY <2>8, <2>10, <3>2 DEF OneListed
    <3>6. OneReturned(n)'
      BY <2>1, <2>7, <3>2, <3>4, <3>5, Zenon DEF OneListed, OneReturned
    <3> QED
      BY <2>1, <3>2, <3>6, Zenon DEF Place
  <2>11. CASE n # messages[at].n
    <3>1. Listed(n) = {} => Listed(n)' = {}
      BY <2>6, <2>9
    <3>2. ASSUME NEW i, Listed(n) = {i} PROVE \E k : Listed(n)' = {k}
      <4>1. i \in 1..Len(messages) /\ messages[i].n = n
        BY <2>9, <3>2 DEF Listed
      <4>2. PICK k \in 1..Len(messages') : e[k] = i
        BY <2>5, <2>11, <4>1
      <4>3. ASSUME NEW j \in Listed(n)' PROVE j = k
        <5>1. j \in 1..Len(messages') /\ e[j] = i
          BY <2>6, <2>9, <3>2, <4>3
        <5>2. Len(messages') \in Nat
          BY DEF Types
        <5>3. j \in Nat /\ k \in Nat /\ e[j] \in Nat /\ e[k] \in Nat
          BY <2>5, <5>1, <5>2, <1>0
        <5>4. ~(j < k) /\ ~(k < j)
          BY <2>5, <4>2, <5>1, <5>3
        <5> QED
          BY <5>3, <5>4
      <4>4. k \in Listed(n)'
        BY <2>6, <3>2, <4>2
      <4> QED
        BY <4>3, <4>4, Zenon
    <3> QED
      BY <1>0, <2>1, <2>7, <2>8, <2>11, <3>1, <3>2, PlaceKept, Zenon
  <2> QED
    BY <2>10, <2>11
<1>8. CASE RcvGets(p)
  <2>1. /\ messages' = messages /\ UNCHANGED <<sent, purged>> /\ rmsg[p].err = "none"
        /\ returned' = [returned EXCEPT ![rmsg[p].msg.n] = @ + 1]
        /\ rmsg' = [rmsg EXCEPT ![p] = NoMsg]
    BY <1>8 DEF RcvGets, OutSuccess, queueVars
  <2>2. rmsg[p].msg.n \in 1..MaxMsgs
    <3>1. rmsg[p] \in Rmsg
      BY DEF Types
    <3> QED
      BY <2>1, <3>1, RmsgFacts, MessageFacts, Zenon
  <2>3. rmsg'[p].err # "none" /\ \A q \in Proc \ {p} : rmsg'[q] = rmsg[q]
    BY <2>1, RmsgFacts, Zenon DEF Types
  <2>4. Held(n)' = Held(n) \ {p} /\ (p \in Held(n) <=> n = rmsg[p].msg.n)
    BY <2>1, <2>3 DEF Held
  <2>5. Listed(n)' = Listed(n)
    BY <2>1 DEF Listed
  <2>6. returned'[n] = IF n = rmsg[p].msg.n THEN returned[n] + 1 ELSE returned[n]
    BY <1>0, <2>1, <2>2
  <2>7. CASE n = rmsg[p].msg.n
    <3>1. OneHeld(n) /\ n <= sent
      BY <1>0, <2>4, <2>7, Zenon DEF Place, OneListed, OneHeld, OneReturned, OnePurged, Nowhere
    <3>2. Held(n)' = {}
      BY <2>4, <2>7, <3>1 DEF OneHeld
    <3>3. returned'[n] = 1
      BY <2>6, <2>7, <3>1 DEF OneHeld
    <3>4. OneReturned(n)'
      BY <2>1, <2>5, <3>1, <3>2, <3>3, Zenon DEF OneHeld, OneReturned
    <3> QED
      BY <2>1, <3>1, <3>4, Zenon DEF Place
  <2>8. CASE n # rmsg[p].msg.n
    <3>1. Held(n)' = Held(n)
      BY <2>4, <2>8
    <3> QED
      BY <1>0, <2>1, <2>5, <2>6, <2>8, <3>1, PlaceKept, Zenon
  <2> QED
    BY <2>7, <2>8
<1> QED
  BY <1>2, <1>3, <1>4, <1>5, <1>6, <1>7, <1>8, StillSteps, Zenon DEF Moves

-----------------------------------------------------------------------------
SizeOf == [m \in Message |-> m.size]

LEMMA CountedBytes ==
  ASSUME Types
  PROVE  SizeOf \in [Message -> Int] /\ (Accounting <=> /\ qnum = Len(messages)
                                                        /\ cbytes = Total(SizeOf, messages)
                                                        /\ hdrs = qnum /\ bytes = cbytes)
<1>1. SizeOf \in [Message -> Int] /\ \A m \in Message : SizeOf[m] = m.size
  BY MessageFacts DEF SizeOf
<1>2. messages \in Seq(Message)
  BY DEF Types
<1>3. [i \in DOMAIN messages |-> messages[i].size] = [i \in DOMAIN messages |-> SizeOf[messages[i]]]
  BY <1>1, <1>2
<1> QED
  BY <1>1, <1>3, Zenon DEF Accounting, Total

LEMMA AccountStep ==
  ASSUME FiniteLaws, ListLaws, Types, Types', Calls, Order, Accounting, NEW p \in Proc, Step(p)
  PROVE  Accounting'
<1>0. /\ SizeOf \in [Message -> Int] /\ SizeOf' = SizeOf
      /\ qnum = Len(messages) /\ cbytes = Total(SizeOf, messages) /\ hdrs = qnum /\ bytes = cbytes
  BY CountedBytes, Zenon DEF SizeOf, Message
<1>01. /\ qnum' = Len(messages') /\ cbytes' = Total(SizeOf, messages') /\ hdrs' = qnum' /\ bytes' = cbytes'
       => Accounting'
  <2>1. ASSUME qnum' = Len(messages'), cbytes' = Total(SizeOf, messages'), hdrs' = qnum', bytes' = cbytes'
        PROVE  Accounting'
    <3>1. \A m \in Message : SizeOf[m] = m.size
      BY DEF SizeOf
    <3>2. messages' \in Seq(Message)
      BY DEF Types, Message
    <3>3. [i \in DOMAIN messages' |-> messages'[i].size] = [i \in DOMAIN messages' |-> SizeOf[messages'[i]]]
      BY <3>1, <3>2
    <3> QED
      BY <2>1, <3>3, Zenon DEF Accounting, Total
  <2> QED
    BY <2>1
<1>1. messages = <<>> => cbytes = 0 /\ qnum = 0
  <2>1. Total(SizeOf, <<>>) = 0
    BY DEF Total, ListLaws, SumOfNone
  <2> QED
    BY <1>0, <2>1
<1>2. CASE Still
  BY <1>0, <1>01, <1>2 DEF Still, queueVars
<1>3. CASE Msgget(p)
  <2>1. messages = <<>> /\ messages' = <<>> /\ cbytes' = 0 /\ qnum' = 0 /\ hdrs' = hdrs /\ bytes' = bytes
    BY <1>3 DEF Msgget, Calls
  <2> QED
    BY <1>0, <1>01, <1>1, <2>1
<1>4. CASE IpcRmid(p)
  <2>1. messages' = <<>> /\ cbytes' = 0 /\ qnum' = 0 /\ Discount
    BY <1>4 DEF IpcRmid
  <2>2. hdrs' = 0 /\ bytes' = 0
    BY <1>0, <2>1 DEF Discount, Types
  <2>3. Total(SizeOf, <<>>) = 0
    BY DEF Total, ListLaws, SumOfNone
  <2> QED
    BY <1>01, <2>1, <2>2, <2>3
<1>5. ASSUME NEW m, NEW gone, Enqueues(p, m, gone) PROVE Accounting'
  <2>1. /\ m \in Message /\ messages' = Append(messages, m)
        /\ cbytes' = cbytes + m.size /\ qnum' = qnum + 1
        /\ hdrs' = hdrs + 1 /\ bytes' = bytes + m.size
    BY <1>5 DEF Enqueues, Accepts
  <2>2. messages \in Seq(Message) /\ SizeOf[m] = m.size
    BY <2>1 DEF Types, SizeOf
  <2>3. Total(SizeOf, messages') = Total(SizeOf, messages) + m.size
    BY <1>0, <2>1, <2>2 DEF ListLaws, TotalAppended
  <2>4. Len(messages') = Len(messages) + 1
    BY <2>1, <2>2
  <2> QED
    BY <1>0, <1>01, <2>1, <2>3, <2>4
<1>6. ASSUME NEW m, NEW gone, NEW h, HandsOver(p, m, gone, h) PROVE Accounting'
  BY <1>0, <1>01, <1>6 DEF HandsOver, queueVars
<1>7. ASSUME NEW r, NEW at, Takes(p, r, at) PROVE Accounting'
  <2>1. /\ messages' = Without(messages, {messages[at]})
        /\ qnum' = qnum - 1 /\ cbytes' = cbytes - messages[at].size
        /\ hdrs' = hdrs - 1 /\ bytes' = bytes - messages[at].size
    BY <1>7 DEF Takes
  <2>2. at \in 1..Len(messages)
    BY <1>7, TakesFacts
  <2>3. messages \in Seq(Message) /\ messages[at] \in Message /\ SizeOf[messages[at]] = messages[at].size
    <3>1. messages \in Seq(Message)
      BY DEF Types
    <3> QED
      BY <2>2, <3>1 DEF SizeOf
  <2>4. ASSUME NEW i \in 1..Len(messages), messages[i] = messages[at] PROVE i = at
    <3>1. messages[at].n \in Nat /\ DOMAIN messages = 1..Len(messages) /\ Len(messages) \in Nat
      BY <2>3, MessageFacts
    <3>2. ~(i < at) /\ ~(at < i)
      BY <2>2, <2>4, <3>1 DEF Order
    <3> QED
      BY <2>2, <3>1, <3>2
  <2>5. /\ Len(messages') = Len(messages) - 1
        /\ Total(SizeOf, messages') = Total(SizeOf, messages) - SizeOf[messages[at]]
    BY <1>0, <2>1, <2>2, <2>3, <2>4, Zenon DEF ListLaws, TotalRemoved
  <2> QED
    BY <1>0, <1>01, <2>1, <2>3, <2>5
<1>8. CASE RcvGets(p)
  BY <1>0, <1>01, <1>8 DEF RcvGets, OutSuccess, queueVars
<1> QED
  BY <1>2, <1>3, <1>4, <1>5, <1>6, <1>7, <1>8, StillSteps, Zenon DEF Moves

-----------------------------------------------------------------------------
MsgInv ==
    Types /\ Calls /\ OrderInv /\ NoStuckSender /\ OnePlace /\ Accounting

LEMMA InitInv ==
  ASSUME FiniteLaws, ListLaws
  PROVE  Init => MsgInv
<1> SUFFICES ASSUME Init PROVE MsgInv
  OBVIOUS
<1>0. messages = <<>> /\ receivers = <<>> /\ senders = <<>> /\ Range(receivers) = {} /\ Range(senders) = {}
  BY DEF Init, Range
<1>1. Types
  <2>1. Sending = {} /\ Cardinality({}) = 0
    BY DEF Sending, Init, FiniteLaws, EmptySize
  <2>2. <<>> \in Seq(Proc) /\ NoRepeat(<<>>) /\ <<>> \in Seq(Message)
    BY DEF NoRepeat
  <2>3. sent \in Nat /\ sent + Cardinality(Sending) <= MaxMsgs
    BY <2>1, BoundAssumption DEF Init
  <2>4. rmsg \in [Proc -> Rmsg] /\ pc \in [Proc -> Pc]
    BY RmsgFacts DEF Init, Pc
  <2>5. qid \in {NoQueue} \cup 0..MaxSeq /\ seq \in 0..(MaxSeq + 1)
    BY BoundAssumption DEF Init
  <2> QED
    BY <1>0, <2>2, <2>3, <2>4, <2>5 DEF Types, Init
<1>2. Calls
  BY <1>0, RmsgFacts DEF Calls, CallOK, Init, InMsgrcv
<1>3. OrderInv
  BY <1>0 DEF OrderInv, Order, FifoPerType, NoMissedMessage, Init
<1>4. NoStuckSender
  BY DEF NoStuckSender, Init
<1>5. OnePlace
  <2> SUFFICES ASSUME NEW n \in 1..MaxMsgs PROVE Nowhere(n) /\ ~(n <= sent)
    BY Zenon DEF OnePlace
  <2>1. Listed(n) = {}
    BY <1>0 DEF Listed
  <2>2. Held(n) = {}
    BY RmsgFacts DEF Held, Init
  <2> QED
    BY <2>1, <2>2 DEF Nowhere, Init
<1>6. Accounting
  BY <1>0 DEF Accounting, Init, ListLaws, SumOfNone
<1> QED
  BY <1>1, <1>2, <1>3, <1>4, <1>5, <1>6 DEF MsgInv

(* A step that changes nothing.                                            *)
LEMMA Stutter == MsgInv /\ UNCHANGED vars => MsgInv'
<1> SUFFICES ASSUME MsgInv, UNCHANGED vars PROVE MsgInv'
  OBVIOUS
<1> USE DEF vars, queueVars, ghosts
<1>1. Types'
  <2>1. Sending' = Sending
    BY DEF Sending
  <2>2. Types
    BY DEF MsgInv
  <2> QED
    BY <2>1, <2>2 DEF Types
<1>2. Calls'
  <2>1. \A p \in Proc : CallOK(p)'
    <3> TAKE p \in Proc
    <3>1. CallOK(p)
      BY DEF MsgInv, Calls
    <3> QED
      BY <3>1, Zenon DEF CallOK, InMsgrcv
  <2> QED
    BY <2>1, Zenon DEF MsgInv, Calls
<1>3. OrderInv'
  <2>1. Order'
    BY DEF MsgInv, OrderInv, Order
  <2>2. FifoPerType'
    BY DEF MsgInv, OrderInv, FifoPerType
  <2>3. NoMissedMessage'
    BY DEF MsgInv, OrderInv, NoMissedMessage
  <2> QED
    BY <2>1, <2>2, <2>3 DEF OrderInv
<1>4. NoStuckSender'
  <2>1. \A s : Full(s)' <=> Full(s)
    BY DEF Full
  <2> QED
    BY <2>1 DEF MsgInv, NoStuckSender
<1>5. OnePlace'
  <2> SUFFICES ASSUME NEW n \in 1..MaxMsgs PROVE Place(n)'
    BY Zenon DEF OnePlace, Place
  <2>1. Place(n)
    BY Zenon DEF MsgInv, OnePlace, Place
  <2>2. Listed(n)' = Listed(n) /\ Held(n)' = Held(n)
    BY DEF Listed, Held
  <2> QED
    BY <2>1, <2>2, PlaceKept, Zenon
<1>6. Accounting'
  BY DEF MsgInv, Accounting
<1> QED
  BY <1>1, <1>2, <1>3, <1>4, <1>5, <1>6 DEF MsgInv

LEMMA InvStep ==
  ASSUME FiniteLaws, ListLaws
  PROVE  MsgInv /\ [Next]_vars => MsgInv'
<1>1. ASSUME MsgInv, Next PROVE MsgInv'
  <2>0. Types /\ Calls /\ OrderInv /\ NoStuckSender /\ OnePlace /\ Accounting /\ Order /\ NoMissedMessage
    BY <1>1 DEF MsgInv, OrderInv
  <2>1. PICK p \in Proc : Step(p)
    BY <1>1, <2>0, Cases
  <2>2. Types'
    BY <2>0, <2>1, TypesStep
  <2>3. Calls'
    BY <2>0, <2>1, CallsStep1, CallsStep2, CallsStep3, Zenon DEF Step
  <2>4. Order' /\ FifoPerType'
    BY <2>0, <2>1, <2>2, OrderStep
  <2>5. NoMissedMessage'
    BY <2>0, <2>1, <2>2, NoMissedStep
  <2>6. NoStuckSender'
    BY <2>0, <2>1, NoStuckStep
  <2>7. OnePlace'
    BY <2>0, <2>1, <2>2, PlaceStep
  <2>8. Accounting'
    BY <2>0, <2>1, <2>2, AccountStep
  <2> QED
    BY <2>2, <2>3, <2>4, <2>5, <2>6, <2>7, <2>8 DEF MsgInv, OrderInv
<1> QED
  BY <1>1, Stutter

LEMMA InvTypeOK ==
  ASSUME FiniteLaws, ListLaws, MsgInv
  PROVE  TypeOK
<1>0. Types /\ Accounting
  BY DEF MsgInv
<1>1. messages \in Seq(Message) /\ Len(messages) \in Nat /\ DOMAIN messages = 1..Len(messages)
  BY <1>0, MessageFacts DEF Types
<1>2. cbytes \in Nat
  <2> DEFINE f == [i \in DOMAIN messages |-> messages[i].size]
  <2>1. \A i \in DOMAIN messages : f[i] \in Nat
    BY <1>0, <1>1, MessageFacts
  <2>2. IsFiniteSet(DOMAIN messages)
    <3>1. 1 \in Int /\ Len(messages) \in Int
      BY <1>1
    <3> QED
      BY <1>1, <3>1, Zenon DEF FiniteLaws, IntervalFinite
  <2>3. cbytes = SumFunctionOnSet(f, DOMAIN messages)
    BY <1>0 DEF Accounting
  <2> HIDE DEF f
  <2> QED
    BY <2>1, <2>2, <2>3, Zenon DEF ListLaws, SumIsNat
<1>3. {cbytes, qnum, qbytes, hdrs, bytes} \subseteq Nat
  BY <1>0, <1>1, <1>2 DEF Accounting, Types
<1>4. IsInjective(receivers) /\ IsInjective(senders)
  <2>1. /\ DOMAIN receivers = 1..Len(receivers) /\ NoRepeat(receivers)
        /\ DOMAIN senders = 1..Len(senders) /\ NoRepeat(senders)
    BY <1>0 DEF Types
  <2> QED
    BY <2>1 DEF NoRepeat, IsInjective
<1>5. sent \in 0..MaxMsgs
  <2>1. IsFiniteSet(Sending)
    BY ProcAssumption DEF Sending, FiniteLaws, SubsetSize
  <2>2. Cardinality(Sending) \in Nat
    BY <2>1 DEF FiniteLaws, SizeIsNat
  <2> QED
    BY <1>0, <2>2, BoundAssumption, SMTT(20) DEF Types
<1>6. ASSUME NEW p \in Proc
      PROVE  /\ rmsg[p].err \in {"none", "unused", "EAGAIN", "EIDRM", "E2BIG"}
             /\ rmsg[p].msg \in Message \union {None}
  <2>1. rmsg[p] \in Rmsg
    BY <1>0 DEF Types
  <2>2. ASSUME NEW e \in {"unused", "EAGAIN", "EIDRM", "E2BIG"}, rmsg[p] = Err(e)
        PROVE  rmsg[p].err = e /\ rmsg[p].msg = None
    BY <2>2 DEF Err
  <2>3. ASSUME NEW m \in Message, rmsg[p] = Arrived(m) PROVE rmsg[p].err = "none" /\ rmsg[p].msg = m
    BY <2>3 DEF Arrived
  <2> QED
    BY <2>1, <2>2, <2>3, Zenon DEF Rmsg
<1> QED
  BY <1>0, <1>3, <1>4, <1>5, <1>6 DEF Types, TypeOK

LEMMA InvExactlyOnce ==
  ASSUME FiniteLaws, MsgInv
  PROVE  ExactlyOnce
<1> SUFFICES ASSUME NEW n \in 1..MaxMsgs PROVE Places(n) = IF n <= sent THEN 1 ELSE 0
  BY DEF ExactlyOnce
<1>1. Place(n)
  BY Zenon DEF MsgInv, OnePlace, Place
<1>2. Places(n) = Cardinality(Listed(n)) + Cardinality(Held(n)) + returned[n] + (IF n \in purged THEN 1 ELSE 0)
  BY DEF Places, Listed, Held
<1>3. Cardinality({}) = 0 /\ \A x : Cardinality({x}) = 1
  BY Zenon DEF FiniteLaws, EmptySize, SingletonSize
<1>4. CASE Nowhere(n) /\ ~(n <= sent)
  BY <1>2, <1>3, <1>4 DEF Nowhere
<1>5. CASE OneListed(n) /\ n <= sent
  <2>1. Cardinality(Listed(n)) = 1 /\ Cardinality(Held(n)) = 0 /\ returned[n] = 0 /\ n \notin purged
    BY <1>3, <1>5, Zenon DEF OneListed
  <2> QED
    BY <1>2, <1>5, <2>1
<1>6. CASE OneHeld(n) /\ n <= sent
  <2>1. Cardinality(Held(n)) = 1 /\ Cardinality(Listed(n)) = 0 /\ returned[n] = 0 /\ n \notin purged
    BY <1>3, <1>6, Zenon DEF OneHeld
  <2> QED
    BY <1>2, <1>6, <2>1
<1>7. CASE OneReturned(n) /\ n <= sent
  BY <1>2, <1>3, <1>7 DEF OneReturned
<1>8. CASE OnePurged(n) /\ n <= sent
  BY <1>2, <1>3, <1>8 DEF OnePurged
<1> QED
  BY <1>1, <1>4, <1>5, <1>6, <1>7, <1>8, Zenon DEF Place

LEMMA InvNoForgottenReceiver ==
  ASSUME MsgInv
  PROVE  NoForgottenReceiver
<1> SUFFICES ASSUME NEW p \in Proc, pc[p] = "rsleep"
             PROVE  \/ qid # NoQueue /\ p \in Range(receivers)
                    \/ \E q \in Proc : pc[q] = "waking" /\ arg[q] = p
  BY DEF NoForgottenReceiver
<1>1. CallOK(p) /\ InMsgrcv(p) /\ (p \in Range(receivers) => qid # NoQueue)
  BY DEF MsgInv, Calls, InMsgrcv
<1> QED
  BY <1>1, Zenon DEF CallOK

LEMMA InvFindsFirstOfLeast ==
  ASSUME FiniteLaws, MsgInv
  PROVE  FindsFirstOfLeast
<1>0. Types
  BY DEF MsgInv
<1>1. Typed(messages) /\ Len(messages) \in Nat /\ DOMAIN messages = 1..Len(messages)
  BY <1>0, MessageFacts
<1>2. ASSUME NEW r \in RcvMenu
      PROVE  LET at    == FindMsg(messages, r)
                 suits == {i \in DOMAIN messages : Suits(messages[i], r)}
                 rank(i) == IF r.msgtyp < 0 THEN messages[i].type ELSE 0
             IN  IF suits = {} THEN at = 0
                 ELSE /\ at \in suits
                      /\ \A i \in suits : \/ rank(at) < rank(i)
                                          \/ rank(at) = rank(i) /\ at <= i
  <2>1. r.msgtyp \in Int
    BY MenuAssumption
  <2> DEFINE at == FindMsg(messages, r)
             found == Seen(messages, r, Len(messages))
  <2>2. /\ at \in Nat
        /\ at = 0 => found = {}
        /\ at # 0 => at \in found /\ \A j \in found : Sooner(messages, r, at, j)
    BY <1>1, <2>1, FindMsgCorrect
  <2>3. found = {i \in DOMAIN messages : Suits(messages[i], r)}
    BY <1>1 DEF Seen
  <2> HIDE DEF at, found
  <2>4. IF found = {} THEN at = 0 ELSE at \in found /\ \A j \in found : Sooner(messages, r, at, j)
    BY <2>2
  <2> QED
    BY <2>3, <2>4 DEF at, Sooner, Rank
<1> QED
  BY <1>2 DEF FindsFirstOfLeast

-----------------------------------------------------------------------------
INSTANCE DataProofs

LEMMA InvAlways == Spec => []MsgInv
<1>1. Init => MsgInv
  BY InitInv, FiniteLawsHold, ListLawsHold
<1>2. MsgInv /\ [Next]_vars => MsgInv'
  BY InvStep, FiniteLawsHold, ListLawsHold
<1> QED
  BY <1>1, <1>2, PTL DEF Spec

(* The queue, its two lists, the pending calls and the counters keep their *)
(* types: no counter of a queue or of MSG_INFO falls below zero.           *)
THEOREM TypeCorrect == Spec => []TypeOK
<1>1. MsgInv => TypeOK
  BY InvTypeOK, FiniteLawsHold, ListLawsHold, SMTT(20)
<1> QED
  BY <1>1, InvAlways, PTL

(* The counters of a queue, and those MSG_INFO reports, agree with the     *)
(* messages on it, for any number of processes, messages and queues.       *)
THEOREM AccountingHolds == Spec => []Accounting
<1>1. MsgInv => Accounting
  BY DEF MsgInv
<1> QED
  BY <1>1, InvAlways, PTL

(* Every accepted message is in exactly one place: on the queue, with the  *)
(* one receiver pipelined_send() gave it to, returned once, or freed with  *)
(* its queue.                                                              *)
THEOREM ExactlyOnceHolds == Spec => []ExactlyOnce
<1>1. MsgInv => ExactlyOnce
  BY InvExactlyOnce, FiniteLawsHold
<1> QED
  BY <1>1, InvAlways, PTL

(* Messages of one type are given out in the order of sending, also when   *)
(* one goes to a sleeping receiver directly.                               *)
THEOREM FifoHolds == Spec => []FifoPerType
<1>1. MsgInv => FifoPerType
  BY DEF MsgInv, OrderInv
<1> QED
  BY <1>1, InvAlways, PTL

(* A sender sleeps only while its message does not fit, on the list that   *)
(* the next msgrcv(), IPC_SET or IPC_RMID wakes.                           *)
THEOREM NoStuckSenderHolds == Spec => []NoStuckSender
<1>1. MsgInv => NoStuckSender
  BY DEF MsgInv
<1> QED
  BY <1>1, InvAlways, PTL

(* No message on the queue would do for a receiver that waits: what        *)
(* pipelined_send() does not offer it, it has found by itself.             *)
THEOREM NoMissedMessageHolds == Spec => []NoMissedMessage
<1>1. MsgInv => NoMissedMessage
  BY DEF MsgInv, OrderInv
<1> QED
  BY <1>1, InvAlways, PTL

(* A sleeping receiver is on the list of a queue that exists, or the send  *)
(* that gave it a message has still to wake it.                            *)
THEOREM NoForgottenReceiverHolds == Spec => []NoForgottenReceiver
<1>1. MsgInv => NoForgottenReceiver
  BY InvNoForgottenReceiver, SMTT(20)
<1> QED
  BY <1>1, InvAlways, PTL

(* The BUG() of sys_msgrcv(), for a queue that vanished under a receiver   *)
(* that was not told, is never reached.                                    *)
THEOREM NoBUGHolds == Spec => []NoBUG
<1>1. MsgInv => NoBUG
  BY DEF MsgInv, Calls, CallOK, NoBUG
<1> QED
  BY <1>1, InvAlways, PTL

(* The search loop of sys_msgrcv() finds the first message of the least    *)
(* type that suits, on a queue of any length.                              *)
THEOREM FindsFirstHolds == Spec => []FindsFirstOfLeast
<1>1. MsgInv => FindsFirstOfLeast
  BY InvFindsFirstOfLeast, FiniteLawsHold
<1> QED
  BY <1>1, InvAlways, PTL
=============================================================================
