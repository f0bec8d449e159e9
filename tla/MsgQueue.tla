------------------------------ MODULE MsgQueue ------------------------------
(***************************************************************************)
(* System V message queues (ipc/msg.c): one slot of the id table, senders  *)
(* and receivers that sleep on it, are interrupted by signals, woken by    *)
(* IPC_SET and thrown out by IPC_RMID.                                     *)
(*                                                                         *)
(* A step is what a process does between taking and dropping msg_lock(),   *)
(* which is one spinlock for the table, taken here to exclude (module      *)
(* IpcIds is about the lock itself).  Two things happen outside: a         *)
(* woken receiver reads its r_msg before it takes the lock, and may do so  *)
(* while a sender that has just stored a message there is still busy with  *)
(* it; that sender's region is cut in two.  msg_ids.sem is left out: what  *)
(* it serialises (create, set, remove) is done in one region each.         *)
(*                                                                         *)
(* Left out: permissions, times, the commands that only read, the segments *)
(* of a long message, q_lspid and q_lrpid.                                 *)
(***************************************************************************)
EXTENDS Integers, FiniteSets, Sequences, Functions, Lists

CONSTANTS Proc,     \* the processes
          SndMenu,  \* messages they send: [type, size, nowait]
          RcvMenu,  \* receives: [msgtyp, except, size, noerror, nowait]
          QBytes,   \* the limits a queue is created with or set to
          MaxMsgs,  \* bound on the number of messages sent
          MaxSeq,   \* bound on the sequence numbers, i.e. on queues created
          Signals,  \* whether sleepers may be sent signals
          None      \* nobody, nothing

ASSUME ProcAssumption  == IsFiniteSet(Proc) /\ None \notin Proc
ASSUME BoundAssumption == MaxMsgs \in Nat /\ MaxSeq \in Nat
(* sys_msgsnd() refuses a type below 1 and a negative size, sys_msgrcv()   *)
(* a negative size.                                                        *)
ASSUME MenuAssumption  ==
    /\ SndMenu \subseteq [type : Nat \ {0}, size : Nat, nowait : BOOLEAN]
    /\ RcvMenu \subseteq [msgtyp : Int, except : BOOLEAN, size : Nat, noerror : BOOLEAN, nowait : BOOLEAN]
    /\ QBytes \subseteq Nat

VARIABLES qid,       \* the id of the queue in the slot, or NoQueue
          seq,       \* msg_ids.seq
          messages,  \* q_messages: [n, type, size], n numbers them as sent
          cbytes,    \* q_cbytes
          qnum,      \* q_qnum
          qbytes,    \* q_qbytes
          receivers, \* q_receivers
          senders,   \* q_senders
          hdrs,      \* msg_hdrs
          bytes,     \* msg_bytes
          lock,      \* who holds the lock between two steps
          pc,        \* where each process is
          arg,       \* its call
          rmsg,      \* its msr_d.r_msg: an error or a message
          sig,       \* signal_pending()
          sent,      \* how many messages were accepted
          returned,  \* how often each was returned by msgrcv()
          purged,    \* those that went with a removed queue
          last       \* the last message of each type given to a receiver

queueVars == <<messages, cbytes, qnum, hdrs, bytes>>
ghosts    == <<sent, returned, purged, last>>
vars      == <<qid, seq, queueVars, qbytes, receivers, senders, lock,
               pc, arg, rmsg, sig, ghosts>>

NoQueue == -1

Type    == {s.type : s \in SndMenu}
Message == [n : 1..MaxMsgs, type : Type, size : {s.size : s \in SndMenu}]

(* r_msg: an error, or a message (err = "none").                           *)
Err(e)     == [err |-> e, msg |-> None]
Arrived(m) == [err |-> "none", msg |-> m]
NoMsg      == Err("unused")

(* "ssleep", "rsleep": asleep as a sender or a receiver; "sawake",         *)
(* "rawake": out of schedule(); "rlock": about to take the lock, having    *)
(* found an error in r_msg; "waking": a sender between the store to r_msg  *)
(* and the end of its region, with the lock; "bug": BUG().                 *)
Pc == {"user", "ssleep", "sawake", "rsleep", "rawake", "rlock", "waking", "bug"}

(***************************************************************************)
(* Which message suits which receiver.                                     *)
(***************************************************************************)
ConvertMode(r) ==
    IF r.msgtyp = 0 THEN "ANY"
    ELSE IF r.msgtyp < 0 THEN "LESSEQUAL"
    ELSE IF r.except THEN "NOTEQUAL" ELSE "EQUAL"

Abs(n) == IF n < 0 THEN -n ELSE n

Testmsg(type, msgtyp, mode) ==
    \/ mode = "ANY"
    \/ mode = "LESSEQUAL" /\ type <= msgtyp
    \/ mode = "EQUAL" /\ type = msgtyp
    \/ mode = "NOTEQUAL" /\ type # msgtyp

Suits(m, r) == Testmsg(m.type, Abs(r.msgtyp), ConvertMode(r))

(* What is looked for after a message of this type was found.              *)
BelowOrEqual(type) == type \* mutant
Below(type) == type - 1

(* The search loop of sys_msgrcv(): with SEARCH_LESSEQUAL it goes on with  *)
(* a smaller msgtyp until it meets a message of type 1.                    *)
FindMsg(ms, r) ==
    LET mode == ConvertMode(r)
        scan[i \in 0..Len(ms)] ==
            IF i = 0 THEN [at |-> 0, msgtyp |-> Abs(r.msgtyp), done |-> FALSE]
            ELSE LET b == scan[i-1] IN
                 IF b.done \/ ~Testmsg(ms[i].type, b.msgtyp, mode) THEN b
                 ELSE IF mode = "LESSEQUAL" /\ ms[i].type # 1
                   THEN [at |-> i, msgtyp |-> Below(ms[i].type), done |-> FALSE]
                   ELSE [b EXCEPT !.at = i, !.done = TRUE]
    IN  scan[Len(ms)].at

(* msr_d.r_maxsize                                                         *)
Fits(m, r) == r.noerror \/ m.size <= r.size

(* The test of sys_msgsnd() before it sends.                               *)
Full(size) == size + cbytes > qbytes \/ 1 + qnum > qbytes

(***************************************************************************)
(* Returning and waking.                                                   *)
(***************************************************************************)
AwakeSender(q) == IF q = "ssleep" THEN "sawake" ELSE q \* mutant: receivers sleep on
Woken(q) == CASE q = "ssleep" -> "sawake" [] q = "rsleep" -> "rawake" [] OTHER -> q

(* wake_up_process() of the processes ws; p, which runs, goes to "at".     *)
Run(p, at, ws) ==
    pc' = [q \in Proc |-> IF q = p THEN at ELSE IF q \in ws THEN Woken(pc[q]) ELSE pc[q]]

(* p returns to user mode, where it takes its signals.                     *)
Leave(p) ==
    /\ arg' = [arg EXCEPT ![p] = None]
    /\ sig' = [sig EXCEPT ![p] = FALSE]

Return(p, ws) == Run(p, "user", ws) /\ Leave(p)

(* Message m is taken by, or handed to, a receiver.                        *)
Give(m) == last' = [last EXCEPT ![m.type] = m.n]

-----------------------------------------------------------------------------
(* newque()                                                                *)
Msgget(p) ==
    /\ pc[p] = "user" /\ lock = None
    /\ qid = NoQueue /\ seq <= MaxSeq
    /\ qid' = seq
    /\ seq' = seq + 1
    /\ qbytes' \in QBytes
    /\ messages' = <<>> /\ cbytes' = 0 /\ qnum' = 0
    /\ receivers' = <<>> /\ senders' = <<>>
    /\ UNCHANGED <<hdrs, bytes, lock, pc, arg, rmsg, sig, sent, returned, purged, last>>

(***************************************************************************)
(* sys_msgsnd()                                                            *)
(***************************************************************************)

(* list_add_tail()                                                         *)
AddHead(ms, m) == <<m>> \o ms \* mutant
AddTail(ms, m) == Append(ms, m)

(* Which of the receivers that can have the message get it.                *)
EveryOne(is)  == is            \* mutant
HeadOnly(is)  == is \intersect {1} \* mutant
FirstOnly(is) == {k \in is : \A j \in is : k <= j}

(* pipelined_send(): receivers m suits but does not fit get E2BIG, up to   *)
(* the first one that can have it.  Without one m goes on the queue.       *)
Send(p, m, snds) ==
    LET suited == {i \in DOMAIN receivers : Suits(m, arg[receivers[i]])}
        fits   == {i \in suited : Fits(m, arg[receivers[i]])}
        passed == {i \in suited : \A j \in fits : i < j}
        gone   == {receivers[i] : i \in passed}
        first  == {receivers[i] : i \in FirstOnly(fits)}
    IN  /\ sent' = m.n
        /\ receivers' = Without(receivers, gone \union first)
        /\ senders' = snds
        /\ rmsg' = [q \in Proc |-> IF q \in gone THEN Err("E2BIG")
                                   ELSE IF q \in first THEN Arrived(m) ELSE rmsg[q]]
        /\ \/ /\ first = {}
              /\ messages' = AddTail(messages, m)
              /\ cbytes' = cbytes + m.size
              /\ qnum' = qnum + 1
              /\ hdrs' = hdrs + 1
              /\ bytes' = bytes + m.size
              /\ Return(p, gone)
              /\ UNCHANGED <<lock, last>>
           \/ \E q \in first :
              /\ Give(m)
              /\ Run(p, "waking", gone)
              /\ arg' = [arg EXCEPT ![p] = q]
              /\ lock' = p
              /\ UNCHANGED <<queueVars, sig>>

(* From "retry:" on.  "snds" is q_senders without p.                       *)
TrySend(p, a, snds) ==
    \/ /\ Full(a.size) /\ a.nowait
       /\ Return(p, {})
       /\ senders' = snds
       /\ UNCHANGED <<queueVars, receivers, lock, rmsg, ghosts>>
    \/ /\ Full(a.size) /\ ~a.nowait
       /\ senders' = Append(snds, p)
       /\ Run(p, "ssleep", {})
       /\ arg' = [arg EXCEPT ![p] = a]
       /\ UNCHANGED <<queueVars, receivers, lock, rmsg, sig, ghosts>>
    \/ /\ ~Full(a.size)
       /\ Send(p, [n |-> sent + 1, type |-> a.type, size |-> a.size], snds)
       /\ UNCHANGED <<returned, purged>>

Msgsnd(p) ==
    /\ pc[p] = "user" /\ lock = None
    /\ qid # NoQueue
    /\ sent + Cardinality({q \in Proc : pc[q] \in {"ssleep", "sawake"}}) < MaxMsgs
    /\ \E s \in SndMenu :
         TrySend(p, [id |-> qid, type |-> s.type, size |-> s.size, nowait |-> s.nowait], senders)
    /\ UNCHANGED <<qid, seq, qbytes>>

(* The rest of pipelined_send() and sys_msgsnd(): wake msr->r_tsk.  If its *)
(* owner has seen the message and returned, msr is a dead stack frame and  *)
(* whoever is found there is woken, or nobody.                             *)
InMsgrcv(q) == pc[q] \in {"rsleep", "rawake", "rlock"}

SndNoWake(p) == \* mutant
    /\ pc[p] = "waking"
    /\ lock' = None
    /\ Return(p, {})
    /\ UNCHANGED <<qid, seq, queueVars, qbytes, receivers, senders, rmsg, ghosts>>

SndWake(p) ==
    /\ pc[p] = "waking"
    /\ lock' = None
    /\ \/ InMsgrcv(arg[p]) /\ Return(p, {arg[p]})
       \/ ~InMsgrcv(arg[p]) /\ \E ws \in {{}} \union {{q} : q \in Proc} : Return(p, ws)
    /\ UNCHANGED <<qid, seq, queueVars, qbytes, receivers, senders, rmsg, ghosts>>

(* ss_del(); freeque() has unlinked the senders of a removed queue.        *)
SsDel(p) == IF qid = NoQueue THEN senders ELSE Without(senders, {p})

(* After schedule(): the queue is gone, ss_del(), a signal, another queue  *)
(* took the slot (msg_checkid()), or try again.                            *)
SndResume(p) ==
    /\ pc[p] = "sawake" /\ lock = None
    /\ LET snds == SsDel(p) IN
       \/ /\ qid = NoQueue \/ sig[p] \/ qid # arg[p].id
          /\ Return(p, {})
          /\ senders' = snds
          /\ UNCHANGED <<queueVars, receivers, lock, rmsg, ghosts>>
       \/ /\ qid # NoQueue /\ ~sig[p] /\ qid = arg[p].id
          /\ TrySend(p, arg[p], snds)
    /\ UNCHANGED <<qid, seq, qbytes>>

(***************************************************************************)
(* sys_msgrcv()                                                            *)
(***************************************************************************)

(* ss_wakeup() wakes every sender.                                         *)
FirstSender == {senders[i] : i \in DOMAIN senders \intersect {1}} \* mutant
AllSenders  == Range(senders)

(* From "retry:" on.  "rcvs" is q_receivers without p.  Taking a message   *)
(* wakes every sender.                                                     *)
TryReceive(p, r, rcvs) ==
    LET at == FindMsg(messages, r) IN
    \/ /\ at # 0 /\ ~Fits(messages[at], r)           \* E2BIG
       /\ Return(p, {})
       /\ receivers' = rcvs
       /\ rmsg' = [rmsg EXCEPT ![p] = NoMsg]
       /\ UNCHANGED <<queueVars, returned, last>>
    \/ /\ at # 0 /\ Fits(messages[at], r)
       /\ LET m == messages[at] IN
          /\ messages' = Without(messages, {m})
          /\ qnum' = qnum - 1
          /\ cbytes' = cbytes - m.size
          /\ hdrs' = hdrs - 1
          /\ bytes' = bytes - m.size
          /\ returned' = [returned EXCEPT ![m.n] = @ + 1]
          /\ Give(m)
       /\ Return(p, AllSenders)
       /\ receivers' = rcvs
       /\ rmsg' = [rmsg EXCEPT ![p] = NoMsg]
    \/ /\ at = 0 /\ r.nowait                         \* ENOMSG
       /\ Return(p, {})
       /\ receivers' = rcvs
       /\ rmsg' = [rmsg EXCEPT ![p] = NoMsg]
       /\ UNCHANGED <<queueVars, returned, last>>
    \/ /\ at = 0 /\ ~r.nowait
       /\ receivers' = Append(rcvs, p)
       /\ rmsg' = [rmsg EXCEPT ![p] = Err("EAGAIN")]
       /\ Run(p, "rsleep", {})
       /\ arg' = [arg EXCEPT ![p] = r]
       /\ UNCHANGED <<queueVars, sig, returned, last>>

(* There is no msg_checkid() here: whatever queue is in the slot is read.  *)
Msgrcv(p) ==
    /\ pc[p] = "user" /\ lock = None
    /\ qid # NoQueue
    /\ \E r \in RcvMenu : TryReceive(p, r, receivers)
    /\ UNCHANGED <<qid, seq, qbytes, senders, lock, sent, purged>>

(* out_success, for a message found in r_msg.                              *)
OutSuccess(p) ==
    /\ returned' = [returned EXCEPT ![rmsg[p].msg.n] = @ + 1]
    /\ rmsg' = [rmsg EXCEPT ![p] = NoMsg]
    /\ Return(p, {})
    /\ UNCHANGED <<queueVars, receivers, last>>

(* After schedule(): r_msg is read without the lock.                       *)
RcvPeek(p) ==
    /\ pc[p] = "rawake"
    /\ \/ rmsg[p].err = "none" /\ OutSuccess(p)
       \/ /\ rmsg[p].err # "none"
          /\ Run(p, "rlock", {})
          /\ UNCHANGED <<queueVars, receivers, arg, rmsg, sig, returned, last>>
    /\ UNCHANGED <<qid, seq, qbytes, senders, lock, sent, purged>>

(* And again with it.                                                      *)
RcvLock(p) ==
    /\ pc[p] = "rlock" /\ lock = None
    /\ \/ rmsg[p].err = "none" /\ OutSuccess(p)
       \/ /\ rmsg[p].err \in {"EIDRM", "E2BIG"}
          /\ Return(p, {})
          /\ rmsg' = [rmsg EXCEPT ![p] = NoMsg]
          /\ UNCHANGED <<queueVars, receivers, returned, last>>
       \/ /\ rmsg[p].err = "EAGAIN" /\ qid = NoQueue
          /\ Run(p, "bug", {})
          /\ UNCHANGED <<queueVars, receivers, arg, rmsg, sig, returned, last>>
       \/ /\ rmsg[p].err = "EAGAIN" /\ qid # NoQueue /\ sig[p]
          /\ Return(p, {})
          /\ receivers' = Without(receivers, {p})
          /\ rmsg' = [rmsg EXCEPT ![p] = NoMsg]
          /\ UNCHANGED <<queueVars, returned, last>>
       \/ /\ rmsg[p].err = "EAGAIN" /\ qid # NoQueue /\ ~sig[p]
          /\ TryReceive(p, arg[p], Without(receivers, {p}))
    /\ UNCHANGED <<qid, seq, qbytes, senders, lock, sent, purged>>

(***************************************************************************)
(* sys_msgctl() and signals.                                               *)
(***************************************************************************)

(* expunge_all(): the receivers are told to look again, and stay listed.   *)
ExpungeAsleep(res) == \* mutant: those a signal has woken are passed over
    rmsg' = [q \in Proc |-> IF q \in Range(receivers) /\ pc[q] = "rsleep"
                              THEN Err(res) ELSE rmsg[q]]
ExpungeAll(res) ==
    rmsg' = [q \in Proc |-> IF q \in Range(receivers) THEN Err(res) ELSE rmsg[q]]

Sleepers == Range(receivers) \union Range(senders)

IpcSet(p) ==
    /\ pc[p] = "user" /\ lock = None
    /\ qid # NoQueue
    /\ qbytes' \in QBytes
    /\ ExpungeAll("EAGAIN")
    /\ Return(p, Sleepers)
    /\ UNCHANGED <<qid, seq, queueVars, receivers, senders, lock, ghosts>>

(* freeque(): the senders are unlinked, the messages are freed.            *)
DiscountOne == hdrs' = hdrs - 1 /\ bytes' = bytes - cbytes \* mutant
Discount    == hdrs' = hdrs - Len(messages) /\ bytes' = bytes - cbytes

IpcRmid(p) ==
    /\ pc[p] = "user" /\ lock = None
    /\ qid # NoQueue
    /\ qid' = NoQueue
    /\ ExpungeAll("EIDRM")
    /\ Return(p, Sleepers)
    /\ receivers' = <<>> /\ senders' = <<>>
    /\ Discount
    /\ purged' = purged \union {messages[i].n : i \in DOMAIN messages}
    /\ messages' = <<>> /\ cbytes' = 0 /\ qnum' = 0
    /\ UNCHANGED <<seq, qbytes, lock, sent, returned, last>>

(* A signal that comes before the process sleeps keeps schedule() from     *)
(* blocking; that is the same as being woken at once.                      *)
Signal(p) ==
    /\ Signals
    /\ pc[p] \in {"ssleep", "sawake", "rsleep", "rawake", "rlock"}
    /\ ~sig[p]
    /\ sig' = [sig EXCEPT ![p] = TRUE]
    /\ pc' = [pc EXCEPT ![p] = Woken(@)]
    /\ UNCHANGED <<qid, seq, queueVars, qbytes, receivers, senders, lock, arg, rmsg, ghosts>>

Init ==
    /\ qid = NoQueue /\ seq = 0
    /\ messages = <<>> /\ cbytes = 0 /\ qnum = 0 /\ hdrs = 0 /\ bytes = 0
    /\ qbytes = 0
    /\ receivers = <<>> /\ senders = <<>>
    /\ lock = None
    /\ pc = [p \in Proc |-> "user"]
    /\ arg = [p \in Proc |-> None]
    /\ rmsg = [p \in Proc |-> NoMsg]
    /\ sig = [p \in Proc |-> FALSE]
    /\ sent = 0
    /\ returned = [n \in 1..MaxMsgs |-> 0]
    /\ purged = {}
    /\ last = [t \in Type |-> 0]

(* The steps of a process inside a call.                                   *)
Continue(p) == SndWake(p) \/ SndResume(p) \/ RcvPeek(p) \/ RcvLock(p)

Next == \E p \in Proc :
    \/ Msgget(p) \/ Msgsnd(p) \/ Msgrcv(p) \/ IpcSet(p) \/ IpcRmid(p)
    \/ Continue(p) \/ Signal(p)

Spec == Init /\ [][Next]_vars

-----------------------------------------------------------------------------
TypeOK ==
    /\ qid \in {NoQueue} \union 0..MaxSeq
    /\ seq \in 0..(MaxSeq + 1)
    /\ messages \in Seq(Message)
    /\ {cbytes, qnum, qbytes, hdrs, bytes} \subseteq Nat
    /\ receivers \in Seq(Proc) /\ IsInjective(receivers)
    /\ senders \in Seq(Proc) /\ IsInjective(senders)
    /\ lock \in Proc \union {None}
    /\ pc \in [Proc -> Pc]
    /\ \A p \in Proc :
         /\ rmsg[p].err \in {"none", "unused", "EAGAIN", "EIDRM", "E2BIG"}
         /\ rmsg[p].msg \in Message \union {None}
    /\ sig \in [Proc -> BOOLEAN]
    /\ sent \in 0..MaxMsgs

(* The counters of a queue and those MSG_INFO reports for all queues agree *)
(* with the messages on the list, however they came and went.              *)
Accounting ==
    /\ qnum = Len(messages)
    /\ cbytes = SumFunctionOnSet([i \in DOMAIN messages |-> messages[i].size], DOMAIN messages)
    /\ hdrs = qnum /\ bytes = cbytes

(* Every accepted message is in exactly one place: on the queue, in the    *)
(* hands of one receiver, returned once, or freed with its queue.  A       *)
(* signal, IPC_SET or IPC_RMID that meets a delivery neither loses it nor  *)
(* doubles it.                                                             *)
Places(n) ==
    Cardinality({i \in DOMAIN messages : messages[i].n = n})
    + Cardinality({p \in Proc : rmsg[p].err = "none" /\ rmsg[p].msg.n = n})
    + returned[n]
    + (IF n \in purged THEN 1 ELSE 0)

ExactlyOnce ==
    \A n \in 1..MaxMsgs : Places(n) = IF n <= sent THEN 1 ELSE 0

(* Messages of one type are given out in the order in which they were      *)
(* sent: none overtakes one that is still on the queue, not even when it   *)
(* is handed to a sleeping receiver directly.                              *)
FifoPerType ==
    \A i \in DOMAIN messages : messages[i].n > last[messages[i].type]

(* A sender sleeps only while its message does not fit, and on the list    *)
(* the next msgrcv() or IPC_SET wakes.                                     *)
NoStuckSender ==
    \A p \in Proc : pc[p] = "ssleep" =>
        qid = arg[p].id /\ p \in Range(senders) /\ Full(arg[p].size)

(* A receiver that waits for a message does not leave one behind that      *)
(* would do: pipelined_send() offers each message to all of them.          *)
NoMissedMessage ==
    \A p \in Range(receivers) : \A i \in DOMAIN messages : ~Suits(messages[i], arg[p])

(* And it is on the list of a queue that exists, unless it was woken.      *)
NoForgottenReceiver ==
    \A p \in Proc : pc[p] = "rsleep" =>
        \/ qid # NoQueue /\ p \in Range(receivers)
        \/ \E q \in Proc : pc[q] = "waking" /\ arg[q] = p

(* sys_msgrcv() asserts with BUG() that a queue does not vanish under a    *)
(* receiver without telling it.                                            *)
NoBUG == \A p \in Proc : pc[p] # "bug"

(* The search finds the first message of the least type that suits, or of  *)
(* any type that suits when msgtyp is not negative.                        *)
FindsFirstOfLeast ==
    \A r \in RcvMenu :
        LET at    == FindMsg(messages, r)
            suits == {i \in DOMAIN messages : Suits(messages[i], r)}
            rank(i) == IF r.msgtyp < 0 THEN messages[i].type ELSE 0
        IN  IF suits = {} THEN at = 0
            ELSE /\ at \in suits
                 /\ \A i \in suits : \/ rank(at) < rank(i)
                                     \/ rank(at) = rank(i) /\ at <= i

(* Who is in a call goes on with it.  The lock is not fair, but MaxMsgs    *)
(* bounds how often a sender keeps it over a step.                         *)
FairSpec == Spec /\ \A p \in Proc : WF_vars(Continue(p))

(* A message handed to a receiver is returned by its msgrcv().             *)
DeliveredReturns ==
    \A p \in Proc : rmsg[p].err = "none" ~> pc[p] = "user"

(* A signal ends the wait of a sender or a receiver.                       *)
SignalEndsCall == \A p \in Proc : sig[p] ~> ~sig[p]
=============================================================================
