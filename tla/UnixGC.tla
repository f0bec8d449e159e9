-------------------------------- MODULE UnixGC --------------------------------
(***************************************************************************)
(* Passing descriptors over AF_UNIX sockets, and the garbage collector for *)
(* the cycles that arise when sockets lie in each other's queues          *)
(* (net/unix/garbage.c, net/unix/af_unix.c, net/core/scm.c).               *)
(*                                                                         *)
(* Messages without descriptors, and the peers of sockets, are left out: a *)
(* message may go to any socket that can have one.  A message carries each *)
(* socket at most once, in any order, and the sockets are listed in any    *)
(* order (their hash chains).  The steps are those of a uniprocessor: a    *)
(* send and a receive can sleep between taking the message and queueing it *)
(* or handing it over, accept() between dequeueing a connection and giving *)
(* it a file, and the collector when it releases files ("fput() may        *)
(* block", garbage.c:40), but not when it marks and sweeps.                *)
(* One process at a time releases files.  A datagram that is looked at     *)
(* with MSG_PEEK is out of the queue meanwhile, as in a stream.            *)
(***************************************************************************)
EXTENDS Integers, SequencesExt

CONSTANTS Sock,     \* sockets
          Task,     \* processes that send and receive
          MaxFds,   \* descriptors of a socket that users have
          MaxQueue, \* messages in a receive queue (max_ack_backlog)
          MaxPass,  \* descriptors in a message (SCM_MAX_FD)
          MaxTotal, \* descriptors in flight (a bound of the model)
          Nothing

ASSUME MaxAssumption == MaxFds \in Nat /\ MaxQueue \in Nat /\ MaxPass \in Nat /\ MaxTotal \in Nat

VARIABLES state,    \* "none", "open", "listen", or "embryo": connected, and without a file
          users,    \* descriptors of the socket in tables of files
          count,    \* f_count of its file
          inflight, \* af_unix.inflight
          queue,    \* receive_queue
          half,     \* the send, receive or accept of a process that is half-way, or Nothing
          frames,   \* calls of the process that releases files, innermost last
          gcsem,    \* unix_gc_sem
          phase,    \* "off" or "mark": whether a collection runs
          orphan,   \* sockets with gc_tree = GC_ORPHAN
          stack     \* sockets on the stack gc_current

gc == <<phase, orphan, stack>>
unix_vars == <<state, users, count, inflight, queue, half, frames, gcsem, gc>>

Msg == [fp : SUBSET Sock, sk : Sock \cup {Nothing}]
Live == {s \in Sock : state[s] # "none"}
Bump(f, S, n) == [s \in Sock |-> IF s \in S THEN f[s] + n ELSE f[s]]
tot_inflight == FoldFunction(LAMBDA a, b : a + b, 0, inflight)

-----------------------------------------------------------------------------
(* A frame has messages still to be freed (a queue being flushed, or a     *)
(* hitlist) and files still to be put.                                     *)
Frame(kind, todo, puts) == [kind |-> kind, todo |-> todo, puts |-> puts]

(* Nobody is in the middle of a collection.                                *)
Idle == phase = "off"

ReleaseUnflushed(s, below) == \* mutant
    /\ state' = [state EXCEPT ![s] = "none"]
    /\ queue' = [queue EXCEPT ![s] = << >>]
    /\ frames' = Append(below, Frame("release", << >>, << >>))
(* unix_release_sock(): the socket is dead, its queue is to be flushed.    *)
Release(s, below) ==
    /\ state' = [state EXCEPT ![s] = "none"]
    /\ queue' = [queue EXCEPT ![s] = << >>]
    /\ frames' = Append(below, Frame("release", queue[s], << >>))

Top == Last(frames)

(* fput(): the last one releases the socket.                               *)
Fput ==
    /\ Idle /\ frames # << >> /\ Top.puts # << >>
    /\ LET s == Head(Top.puts)
           rest == Append(Front(frames), [Top EXCEPT !.puts = Tail(@)])
       IN /\ count' = [count EXCEPT ![s] = @ - 1]
          /\ IF count[s] = 1 THEN Release(s, rest)
             ELSE frames' = rest /\ UNCHANGED <<state, queue>>
    /\ UNCHANGED <<users, inflight, half, gcsem, gc>>

(* kfree_skb() of the next message, with unix_destruct_fds(); in the queue *)
(* of a listening socket, unix_release_sock() of the embryo first.         *)
FreeMsg ==
    /\ Idle /\ frames # << >> /\ Top.puts = << >> /\ Top.todo # << >>
    /\ \E puts \in SetToSeqs(Head(Top.todo).fp) :
       LET m == Head(Top.todo)
           rest == Append(Front(frames), [Top EXCEPT !.todo = Tail(@), !.puts = puts])
       IN /\ inflight' = Bump(inflight, m.fp, -1)
          /\ IF m.sk # Nothing THEN Release(m.sk, rest)
             ELSE frames' = rest /\ UNCHANGED <<state, queue>>
    /\ UNCHANGED <<users, count, half, gcsem, gc>>

(* "If all instances of the descriptor are not in flight we are in use."   *)
Roots == {s \in Live : state[s] # "embryo" /\ count[s] > inflight[s]}

(* What a socket keeps alive: the descriptors in its queue, and the        *)
(* connections that wait to be accepted.                                   *)
Children(s) ==
    UNION {m.fp : m \in ToSet(queue[s])}
        \cup (IF state[s] = "listen" THEN {m.sk : m \in ToSet(queue[s])} ELSE {})

(* The end of a call.  unix_release_sock() calls unix_gc(), which returns  *)
(* when down_trylock() succeeds, and else marks everything and pushes the  *)
(* roots.  unix_gc() ends with up().                                       *)
Return ==
    /\ Idle /\ frames # << >> /\ Top.puts = << >> /\ Top.todo = << >>
    /\ \/ /\ Top.kind = "release" /\ tot_inflight > 0 /\ gcsem = 0
          /\ frames' = Append(Front(frames), Frame("gc", << >>, << >>))
          /\ phase' = "mark" /\ stack' = Roots /\ orphan' = Live \ Roots
          /\ UNCHANGED gcsem
       \/ /\ ~(Top.kind = "release" /\ tot_inflight > 0 /\ gcsem = 0)
          /\ frames' = Front(frames)
          /\ gcsem' = CASE Top.kind = "gc" -> gcsem + 1
                        [] Top.kind = "release" /\ tot_inflight > 0 -> gcsem - 1
                        [] OTHER -> gcsem
          /\ UNCHANGED gc
    /\ UNCHANGED <<state, users, count, inflight, queue, half>>

PopFds == \* mutant
    /\ phase = "mark"
    /\ \E x \in stack :
          LET fps == UNION {m.fp : m \in ToSet(queue[x])}
          IN stack' = (stack \ {x}) \cup (fps \cap orphan) /\ orphan' = orphan \ fps
    /\ UNCHANGED <<state, users, count, inflight, queue, half, frames, gcsem, phase>>
PopUnpushed == \* mutant
    /\ phase = "mark"
    /\ \E x \in stack : stack' = stack \ {x} /\ orphan' = orphan \ Children(x)
    /\ UNCHANGED <<state, users, count, inflight, queue, half, frames, gcsem, phase>>
(* pop_stack(), and maybe_unmark_and_push() of what its queue holds.       *)
Pop ==
    /\ phase = "mark"
    /\ \E x \in stack :
          /\ stack' = (stack \ {x}) \cup (Children(x) \cap orphan)
          /\ orphan' = orphan \ Children(x)
    /\ UNCHANGED <<state, users, count, inflight, queue, half, frames, gcsem, phase>>

Carries(m) == m.fp # {}

(* The messages with descriptors in the queues of orphans go to the        *)
(* hitlist, which is freed after the locks are dropped.                    *)
Sweep ==
    /\ phase = "mark" /\ stack = {}
    /\ \E list \in SetToSeqs(orphan) :
       LET hit == FlattenSeq([i \in DOMAIN list |-> SelectSeq(queue[list[i]], LAMBDA m : Carries(m))])
       IN frames' = Append(Front(frames), [Top EXCEPT !.todo = hit])
    /\ queue' = [s \in Sock |->
                    IF s \in orphan THEN SelectSeq(queue[s], LAMBDA m : ~Carries(m)) ELSE queue[s]]
    /\ phase' = "off" /\ orphan' = {}
    /\ UNCHANGED <<state, users, count, inflight, half, gcsem, stack>>

-----------------------------------------------------------------------------
(* Other processes run when nobody releases files, or when the collector   *)
(* sleeps in fput().                                                       *)
Running == Idle /\ (frames # << >> => Top.kind = "gc" /\ Top.puts # << >>)

(* A structure that nothing refers to any more.                            *)
Unused(s) == state[s] = "none" /\ ~\E p \in Task : half[p] # Nothing /\ half[p].sock = s

(* socket()                                                                *)
Create(s) ==
    /\ Running /\ Unused(s)
    /\ state' = [state EXCEPT ![s] = "open"]
    /\ users' = [users EXCEPT ![s] = 1]
    /\ count' = [count EXCEPT ![s] = 1]
    /\ UNCHANGED <<inflight, queue, half, frames, gcsem, gc>>

(* close() of a descriptor                                                 *)
Close(s) ==
    /\ Running /\ frames = << >> /\ users[s] > 0
    /\ users' = [users EXCEPT ![s] = @ - 1]
    /\ frames' = <<Frame("put", << >>, <<s>>)>>
    /\ UNCHANGED <<state, count, inflight, queue, half, gcsem, gc>>

Listen(s) ==
    /\ Running /\ users[s] > 0 /\ state[s] = "open" /\ queue[s] = << >>
    /\ ~\E p \in Task : half[p] # Nothing /\ half[p].sock = s
    /\ state' = [state EXCEPT ![s] = "listen"]
    /\ UNCHANGED <<users, count, inflight, queue, half, frames, gcsem, gc>>

(* unix_stream_connect() to s: the new socket e waits in its queue.        *)
Connect(s) ==
    /\ Running /\ state[s] = "listen" /\ Len(queue[s]) < MaxQueue
    /\ \E e \in Sock :
          /\ Unused(e)
          /\ state' = [state EXCEPT ![e] = "embryo"]
          /\ queue' = [queue EXCEPT ![s] = Append(@, [fp |-> {}, sk |-> e])]
    /\ UNCHANGED <<users, count, inflight, half, frames, gcsem, gc>>

(* unix_accept() has taken the connection off the queue; sys_accept()      *)
(* holds the listening file, and still has to copy the address and to find *)
(* a descriptor and a file for the connection.                             *)
AcceptBegin(p) ==
    /\ Running /\ half[p] = Nothing
    /\ \E s \in Sock :
          /\ users[s] > 0 /\ state[s] = "listen" /\ queue[s] # << >>
          /\ half' = [half EXCEPT ![p] = [op |-> "accept", sock |-> s, msg |-> Head(queue[s])]]
          /\ queue' = [queue EXCEPT ![s] = Tail(@)]
          /\ count' = [count EXCEPT ![s] = @ + 1]
    /\ UNCHANGED <<state, users, inflight, frames, gcsem, gc>>

(* sock_map_fd() gives the connection its file, or one of these fails and  *)
(* it is released; sockfd_put() of the listening file.                     *)
AcceptEnd(p) ==
    /\ Running /\ frames = << >> /\ half[p] # Nothing /\ half[p].op = "accept"
    /\ LET e == half[p].msg.sk
           put == Frame("put", << >>, <<half[p].sock>>)
       IN \/ /\ state' = [state EXCEPT ![e] = "open"]
             /\ users' = [users EXCEPT ![e] = 1]
             /\ count' = [count EXCEPT ![e] = 1]
             /\ frames' = <<put>>
             /\ UNCHANGED queue
          \/ Release(e, <<put>>) /\ UNCHANGED <<users, count>>
    /\ half' = [half EXCEPT ![p] = Nothing]
    /\ UNCHANGED <<inflight, gcsem, gc>>

(* scm_send() and unix_attach_fds(); the data is still to be copied.       *)
SendBegin(p) ==
    /\ Running /\ half[p] = Nothing
    /\ \E t \in Sock, fp \in SUBSET {s \in Sock : users[s] > 0} :
          /\ state[t] \in {"open", "embryo"}
          /\ fp # {} /\ Cardinality(fp) <= MaxPass /\ tot_inflight + Cardinality(fp) <= MaxTotal
          /\ count' = Bump(count, fp, 1)
          /\ inflight' = Bump(inflight, fp, 1)
          /\ half' = [half EXCEPT ![p] = [op |-> "send", sock |-> t, msg |-> [fp |-> fp, sk |-> Nothing]]]
    /\ UNCHANGED <<state, users, queue, frames, gcsem, gc>>

(* The message is queued, or, after an error, freed.                       *)
SendEnd(p) ==
    /\ Running /\ half[p] # Nothing /\ half[p].op = "send"
    /\ \/ /\ state[half[p].sock] \in {"open", "embryo"} /\ Len(queue[half[p].sock]) < MaxQueue
          /\ queue' = [queue EXCEPT ![half[p].sock] = Append(@, half[p].msg)]
          /\ UNCHANGED frames
       \/ /\ frames = << >>
          /\ frames' = <<Frame("put", <<half[p].msg>>, << >>)>>
          /\ UNCHANGED queue
    /\ half' = [half EXCEPT ![p] = Nothing]
    /\ UNCHANGED <<state, users, count, inflight, gcsem, gc>>

(* The call holds the receiving file (sockfd_lookup()) and has dequeued    *)
(* the message.                                                            *)
RecvBegin(p) ==
    /\ Running /\ half[p] = Nothing
    /\ \E s \in Sock :
          /\ users[s] > 0 /\ state[s] = "open" /\ queue[s] # << >>
          /\ half' = [half EXCEPT ![p] = [op |-> "recv", sock |-> s, msg |-> Head(queue[s])]]
          /\ queue' = [queue EXCEPT ![s] = Tail(@)]
          /\ count' = [count EXCEPT ![s] = @ + 1]
    /\ UNCHANGED <<state, users, inflight, frames, gcsem, gc>>

(* The copy is done: unix_detach_fds(), and scm_detach_fds() installs what *)
(* fits and puts the rest; with MSG_PEEK the message is queued again and   *)
(* clones of its descriptors are installed.  Or the copy fails: a stream   *)
(* queues the message again, a datagram is freed.                          *)
RecvEnd(p) ==
    /\ Running /\ frames = << >> /\ half[p] # Nothing /\ half[p].op = "recv"
    /\ LET m == half[p].msg
           s == half[p].sock
       IN \/ \E in \in SUBSET {x \in m.fp : users[x] < MaxFds} :
                /\ inflight' = Bump(inflight, m.fp, -1)
                /\ users' = Bump(users, in, 1)
                /\ \E rest \in SetToSeqs(m.fp \ in) : frames' = <<Frame("put", << >>, Append(rest, s))>>
                /\ UNCHANGED <<count, queue>>
          \/ \E in \in SUBSET {x \in m.fp : users[x] < MaxFds} :
                /\ queue' = [queue EXCEPT ![s] = <<m>> \o @]
                /\ users' = Bump(users, in, 1)
                /\ count' = Bump(count, in, 1)
                /\ frames' = <<Frame("put", << >>, <<s>>)>>
                /\ UNCHANGED inflight
          \/ /\ frames' = <<Frame("put", << >>, <<s>>), Frame("put", <<m>>, << >>)>>
             /\ UNCHANGED <<users, count, inflight, queue>>
    /\ half' = [half EXCEPT ![p] = Nothing]
    /\ UNCHANGED <<state, gcsem, gc>>

UnixInit ==
    /\ state = [s \in Sock |-> "none"]
    /\ users = [s \in Sock |-> 0]
    /\ count = [s \in Sock |-> 0]
    /\ inflight = [s \in Sock |-> 0]
    /\ queue = [s \in Sock |-> << >>]
    /\ half = [p \in Task |-> Nothing]
    /\ frames = << >>
    /\ gcsem = 1
    /\ phase = "off" /\ orphan = {} /\ stack = {}

UnixNext ==
    \/ Fput \/ FreeMsg \/ Return \/ Pop \/ Sweep
    \/ \E s \in Sock : Create(s) \/ Close(s) \/ Listen(s) \/ Connect(s)
    \/ \E p \in Task :
          AcceptBegin(p) \/ AcceptEnd(p) \/ SendBegin(p) \/ SendEnd(p) \/ RecvBegin(p) \/ RecvEnd(p)

UnixSpec == UnixInit /\ [][UnixNext]_unix_vars

-----------------------------------------------------------------------------
(* Where messages are: queues, calls half-way, frames.                     *)
Carrying(s, q) == Len(SelectSeq(q, LAMBDA m : s \in m.fp))
InTransit(s) == Cardinality({p \in Task : half[p] # Nothing /\ s \in half[p].msg.fp})
SumOver(S, f) == FoldFunctionOnSet(LAMBDA a, b : a + b, 0, f, S)
References(s) ==
    SumOver(Sock, [x \in Sock |-> Carrying(s, queue[x])]) + InTransit(s)
        + SumOver(DOMAIN frames, [i \in DOMAIN frames |-> Carrying(s, frames[i].todo)])
Puts(s) == SumOver(DOMAIN frames, [i \in DOMAIN frames |-> Len(SelectSeq(frames[i].puts, LAMBDA x : x = s))])
Receiving(s) ==
    Cardinality({p \in Task : half[p] # Nothing /\ half[p].op \in {"recv", "accept"} /\ half[p].sock = s})

(* The counts the collector compares are right in every state, also while  *)
(* messages are half sent, half received or half freed, and a collection   *)
(* runs inside another: in flight are the references held by messages, and *)
(* f_count has those, the users' and those of calls in progress.  A socket *)
(* that was given a file is there exactly as long as the file has          *)
(* references.                                                             *)
CountsRight ==
    \A s \in Sock :
        /\ inflight[s] = References(s)
        /\ count[s] = users[s] + References(s) + Puts(s) + Receiving(s)
        /\ state[s] \in {"open", "listen"} <=> count[s] > 0

(* With a socket, C has what the socket keeps alive.                       *)
Closed(C) == \A s \in C \cap Live : Children(s) \cap Live \subseteq C
(* What marking is after: what is reached from the roots through queues.   *)
FromRoots == {s \in Sock : \A C \in SUBSET Sock : Roots \subseteq C /\ Closed(C) => s \in C}

(* What is on its way into the queue of s, and what a process has in hand: *)
(* the sockets in a message it receives, the connection it accepts.        *)
Coming(s) ==
    UNION {half[p].msg.fp :
              p \in {q \in Task : half[q] # Nothing /\ half[q].op = "send" /\ half[q].sock = s}}
InHand ==
    UNION {half[p].msg.fp \cup {half[p].msg.sk} :
              p \in {q \in Task : half[q] # Nothing /\ half[q].op # "send"}}
HalfWay == InHand \cup UNION {Coming(s) : s \in Sock}
(* What can be got at from the sockets R, once the calls half-way are done.*)
Stable(C) == \A s \in C \cap Live : (Children(s) \cup Coming(s)) \cap Live \subseteq C
Reach(R) == {s \in Sock : \A C \in SUBSET Sock : R \cap Live \subseteq C /\ Stable(C) => s \in C}
(* What a process can still receive from.                                  *)
InUse == Reach(Roots \cup InHand)

(* "Invariant to be maintained: everything unmarked is either on the stack *)
(* or has all of its children unmarked; everything on the stack is always  *)
(* unmarked" (garbage.c:193-198).                                          *)
MarkInvariant ==
    phase = "mark" =>
        /\ stack \cap orphan = {}
        /\ \A s \in Live \ (orphan \cup stack) : Children(s) \cap orphan = {}

(* When marking ends, every socket that no process can ever receive from   *)
(* is an orphan, cycles included.  No socket that is reached from a root   *)
(* through queues is one, connections not yet accepted included.  But what *)
(* a call has half-way is in no queue: a socket that is in use and hangs   *)
(* on such a call alone may be an orphan, and then loses the messages with *)
(* descriptors in its queue (garbage.c:212, 233-259).                      *)
OrphansExact ==
    phase = "mark" /\ stack = {} =>
        /\ Live \ InUse \subseteq orphan
        /\ orphan \cap FromRoots = {}
        /\ orphan \cap InUse \subseteq Reach(HalfWay)
=============================================================================
