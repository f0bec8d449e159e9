-------------------------------- MODULE Locks --------------------------------
(***************************************************************************)
(* The locks of one file (fs/locks.c): POSIX locks on ranges of bytes,     *)
(* flock() locks on the whole file, and reads and writes of a file under   *)
(* mandatory locking, which wait as if they asked for a lock.              *)
(*                                                                         *)
(* Everything here runs with the big kernel lock, which is given up only   *)
(* by sleeping, so a step goes from the entry of a call, or from waking    *)
(* up, to the next sleep or the return.  A waiter is on the block list of  *)
(* the lock it met; since it waits for that lock with its one request, the *)
(* list holds processes.                                                   *)
(*                                                                         *)
(* An open file has one filp, which the processes that inherit it share;   *)
(* threads share their table of files besides.  Left out: failures of      *)
(* kmalloc() (nothing is changed before them), F_GETLK (changes nothing),  *)
(* and the lock operations of network filesystems.                         *)
(***************************************************************************)
EXTENDS Integers, SequencesExt

CONSTANTS Proc,       \* the processes
          Files,      \* the table of files of a process (fl_owner)
          Filp,       \* its open file (fl_file)
          OFFSET_MAX, \* the largest offset
          Calls,      \* the calls each process may make: sets of <<kind, type, start, end>>
          None

ASSUME CallsAssumption ==
    \A p \in Proc : \A c \in Calls[p] :
        /\ c[1] \in {"posix", "flock", "io"} /\ c[2] \in {"R", "W", "U"} /\ c[1] = "io" => c[2] # "U"
        /\ c[3] \in 0..OFFSET_MAX /\ c[4] \in c[3]..OFFSET_MAX
        /\ c[1] = "flock" => c[3] = 0 /\ c[4] = OFFSET_MAX

VARIABLES list,  \* inode->i_flock
          pc,    \* "user", "blocked", "woken", or "yield" in locks_wake_up_blocks()
          req,   \* the call a process is in, or None
          dying, \* the block list of the lock that a process in "yield" deletes
          sig,   \* signal_pending()
          held   \* ghost: what each process was granted, byte by byte

vars == <<list, pc, req, dying, sig, held>>

Bytes == 0..OFFSET_MAX

(***************************************************************************)
(* Locks and block lists.                                                  *)
(***************************************************************************)
Whom(p, kind) == IF kind = "flock" THEN Filp[p] ELSE p

Lock(p, r) ==
    [kind |-> r.kind, owner |-> Whom(p, r.kind), type |-> r.type,
     start |-> r.start, end |-> r.end, blocks |-> << >>]

Overlap(a, b) == a.end >= b.start /\ b.end >= a.start

(* locks_conflict(), after posix_locks_conflict() or flock_locks_conflict().*)
(* A read or a write asks as a POSIX lock does.                            *)
Conflict(p, r, fl) ==
    /\ fl.kind = IF r.kind = "flock" THEN "flock" ELSE "posix"
    /\ fl.owner # Whom(p, r.kind)
    /\ Overlap(r, fl)
    /\ r.type = "W" \/ fl.type = "W"

(* locks_delete_block()                                                    *)
Unblock(L, p) ==
    [i \in DOMAIN L |-> [L[i] EXCEPT !.blocks = SelectSeq(@, LAMBDA q : q # p)]]

(* locks_wake_up_blocks() without waiting: the processes of the block      *)
(* lists of "fls".                                                         *)
Sleepers(fls) == UNION {ToSet(fl.blocks) : fl \in fls}
Woken(W) == [q \in Proc |-> IF q \in W THEN "woken" ELSE pc[q]]

(* The processes reached from those of S by going, again and again, from a *)
(* process that is blocked to the owner of the POSIX lock it is blocked on.*)
RECURSIVE Behind(_, _)
Behind(L, S) ==
    LET owners == {fl.owner : fl \in {f \in ToSet(L) : f.kind = "posix" /\ ToSet(f.blocks) \cap S # {}}}
    IN  IF owners \subseteq S THEN S ELSE Behind(L, S \cup owners)

DirectOnly(L, p, fl) == \* mutant
    fl.owner = p \/ \E f \in ToSet(L) : f.kind = "posix" /\ f.owner = p /\ Contains(f.blocks, fl.owner)
(* posix_locks_deadlock(): p is reached from the owner of the lock.        *)
Deadlock(L, p, fl) == p \in Behind(L, {fl.owner})

(***************************************************************************)
(* posix_lock_file() once nothing conflicts.  The loop over the locks of   *)
(* the caller goes through states s: the list, the position of "before",   *)
(* the range of *caller, the position of the lock that "caller" has become *)
(* (0: none yet), left, right, and who has been woken.                     *)
(***************************************************************************)
NoInc(x) == x \* mutant
(* off_t is signed and wraps round.                                        *)
Inc(x) == IF x = OFFSET_MAX THEN -OFFSET_MAX - 1 ELSE x + 1

Delete(s) == [s EXCEPT !.l = RemoveAt(s.l, s.at), !.woken = @ \cup Sleepers({s.l[s.at]})]

(* The same type, adjacent or overlapping: one lock out of the two.        *)
Merge(s) ==
    LET fl == s.l[s.at]
        a == IF fl.start > s.start THEN s.start ELSE fl.start
        b == IF fl.end < s.end THEN s.end ELSE fl.end
        t == [s EXCEPT !.start = a, !.end = b]
    IN  IF s.me # 0
        THEN [Delete(t) EXCEPT !.l[s.me].start = a, !.l[s.me].end = b]
        ELSE [t EXCEPT !.l[s.at].start = a, !.l[s.at].end = b, !.me = s.at, !.at = @ + 1]

(* Another type and no part of the old lock outside the new one: the old   *)
(* one goes, or becomes the new one.                                       *)
Replace(s, type) ==
    IF type = "U" \/ s.me # 0 THEN Delete(s)
    ELSE [s EXCEPT !.l[s.at] = [@ EXCEPT !.start = s.start, !.end = s.end, !.type = type, !.blocks = << >>],
                   !.woken = @ \cup Sleepers({s.l[s.at]}), !.me = s.at, !.at = @ + 1]

RECURSIVE Scan(_, _, _)
Scan(s, p, type) ==
    LET fl == s.l[s.at]
        next == [s EXCEPT !.at = @ + 1]
    IN  IF s.at > Len(s.l) \/ fl.kind # "posix" \/ fl.owner # p THEN s
        ELSE IF fl.type = type
        THEN IF fl.end < s.start - 1 THEN Scan(next, p, type)
             ELSE IF fl.start > Inc(s.end) THEN s
             ELSE Scan(Merge(s), p, type)
        ELSE IF fl.end < s.start THEN Scan(next, p, type)
             ELSE IF fl.start > s.end THEN s
             ELSE LET t == [s EXCEPT !.left = IF fl.start < s.start THEN s.at ELSE @]
                  IN  IF fl.end > s.end THEN [t EXCEPT !.right = s.at]
                      ELSE IF fl.start < s.start THEN Scan([t EXCEPT !.at = @ + 1], p, type)
                      ELSE Scan(Replace(t, type), p, type)

CutUnwoken(s, i) == [s EXCEPT !.l[i].blocks = << >>] \* mutant
(* A lock that has lost a part wakes those that wait for it.               *)
WakeCut(s, i) == [s EXCEPT !.l[i].blocks = << >>, !.woken = @ \cup Sleepers({s.l[i]})]

(* After the loop: insert the lock, split the old one, cut left and right. *)
Finish(s, p, r) ==
    LET ins   == r.type # "U" /\ s.me = 0
        l1    == IF ins THEN InsertAt(s.l, s.at, [Lock(p, r) EXCEPT !.start = s.start, !.end = s.end]) ELSE s.l
        at    == IF ins THEN s.right + 1 ELSE s.right
        split == s.right # 0 /\ s.left = s.right
        l2    == IF split THEN InsertAt(l1, s.at, [l1[at] EXCEPT !.blocks = << >>]) ELSE l1
        right == IF split THEN at + 1 ELSE at
        s1    == [s EXCEPT !.l = l2]
        s2    == IF s.right = 0 THEN s1 ELSE WakeCut([s1 EXCEPT !.l[right].start = Inc(s.end)], right)
    IN  IF s.left = 0 THEN s2 ELSE WakeCut([s2 EXCEPT !.l[s.left].end = s.start - 1], s.left)

SetAtHead(L, p, r) == \* mutant
    Finish(Scan([l |-> L, at |-> 1, start |-> r.start, end |-> r.end,
                 me |-> 0, left |-> 0, right |-> 0, woken |-> {}], p, r.type), p, r)
(* First the locks of other processes are skipped.                         *)
SetLock(L, p, r) ==
    LET first == SelectInSeq(L, LAMBDA fl : fl.kind = "posix" /\ fl.owner = p)
        s == [l |-> L, at |-> IF first = 0 THEN Len(L) + 1 ELSE first,
              start |-> r.start, end |-> r.end, me |-> 0, left |-> 0, right |-> 0, woken |-> {}]
    IN  Finish(Scan(s, p, r.type), p, r)

-----------------------------------------------------------------------------
(* p returns to user mode, where it takes its signals.                     *)
Leave(p) ==
    /\ req' = [req EXCEPT ![p] = None]
    /\ sig' = [sig EXCEPT ![p] = FALSE]

Stay(p, r, at) ==
    /\ req' = [req EXCEPT ![p] = r]
    /\ pc' = [pc EXCEPT ![p] = at]
    /\ UNCHANGED sig

(* locks_insert_block() and interruptible_sleep_on()                       *)
Block(p, r, L, i) ==
    /\ list' = [L EXCEPT ![i].blocks = Append(@, p)]
    /\ Stay(p, r, "blocked")
    /\ UNCHANGED held

Granted(p, r) ==
    [held EXCEPT ![p] = [b \in Bytes |-> IF b \in r.start..r.end THEN r.type ELSE @[b]]]

(* posix_lock_file() and locks_mandatory_area() from "repeat" on: the      *)
(* first lock that conflicts decides.                                      *)
PosixTry(p, r, L) ==
    LET i == IF r.type = "U" THEN 0 ELSE SelectInSeq(L, LAMBDA fl : Conflict(p, r, fl))
    IN  \/ /\ i = 0 /\ r.kind = "posix"
           /\ LET s == SetLock(L, p, r)
              IN  list' = s.l /\ pc' = [Woken(s.woken) EXCEPT ![p] = "user"]
           /\ held' = Granted(p, r)
           /\ Leave(p)
        \/ /\ (i = 0 /\ r.kind = "io") \/ (i # 0 /\ (~r.wait \/ sig[p] \/ Deadlock(L, p, L[i])))
           /\ list' = L /\ pc' = [pc EXCEPT ![p] = "user"]
           /\ Leave(p) /\ UNCHANGED held
        \/ /\ i # 0 /\ r.wait /\ ~sig[p] /\ ~Deadlock(L, p, L[i])
           /\ Block(p, r, L, i)

-----------------------------------------------------------------------------
(* flock locks are at the head of the list, and the loops stop at the      *)
(* first lock that is not one.                                             *)
Flocks(L) == SubSeq(L, 1, SelectInSeq(Append(L, [kind |-> "end"]), LAMBDA fl : fl.kind # "flock") - 1)

(* The loop "search": a lock of this open file that has another type is    *)
(* deleted.  When somebody is blocked on it the caller yields until they   *)
(* are gone ("again"), then searches once more.                            *)
RECURSIVE Search(_, _, _)
Search(L, p, r) ==
    LET i == SelectInSeq(Flocks(L), LAMBDA fl : fl.owner = Filp[p])
    IN  IF i = 0 THEN [l |-> L, then |-> IF r.type = "U" THEN "out" ELSE "repeat", blocks |-> << >>]
        ELSE IF L[i].type = r.type THEN [l |-> L, then |-> "out", blocks |-> << >>]
        ELSE IF r.type = "U" THEN [l |-> RemoveAt(L, i), then |-> "out", blocks |-> L[i].blocks]
        ELSE IF L[i].blocks = << >> THEN Search(RemoveAt(L, i), p, r)
        ELSE [l |-> RemoveAt(L, i), then |-> "again", blocks |-> L[i].blocks]

(* From "repeat" on.                                                       *)
FlockTry(p, r, L) ==
    LET i == SelectInSeq(Flocks(L), LAMBDA fl : Conflict(p, r, fl))
    IN  \/ /\ sig[p] \/ (i # 0 /\ ~r.wait)
           /\ list' = L /\ pc' = [pc EXCEPT ![p] = "user"]
           /\ Leave(p) /\ UNCHANGED held
        \/ /\ ~sig[p] /\ i # 0 /\ r.wait
           /\ Block(p, r, L, i)
        \/ /\ ~sig[p] /\ i = 0
           /\ list' = <<Lock(p, r)>> \o L /\ pc' = [pc EXCEPT ![p] = "user"]
           /\ Leave(p) /\ UNCHANGED held

FlockSearch(p, r) ==
    LET s == Search(list, p, r)
    IN  \/ s.then = "repeat" /\ FlockTry(p, r, s.l) /\ UNCHANGED dying
        \/ /\ s.then = "out"
           /\ list' = s.l /\ pc' = [Woken(ToSet(s.blocks)) EXCEPT ![p] = "user"]
           /\ Leave(p) /\ UNCHANGED <<dying, held>>
        \/ /\ s.then = "again"
           /\ list' = s.l /\ dying' = [dying EXCEPT ![p] = s.blocks]
           /\ req' = [req EXCEPT ![p] = r]
           /\ pc' = [Woken({Head(s.blocks)}) EXCEPT ![p] = "yield"]
           /\ UNCHANGED <<sig, held>>

-----------------------------------------------------------------------------
(* posix_make_lock(), flock_make_lock(): the request of a call.            *)
Requests(p, kinds) ==
    {[kind |-> c[1], type |-> c[2], start |-> c[3], end |-> c[4], wait |-> w] :
        c \in {d \in Calls[p] : d[1] \in kinds}, w \in BOOLEAN}

(* fcntl(F_SETLK, F_SETLKW), and read() and write() of a mandatory file.   *)
Fcntl(p) ==
    /\ pc[p] = "user"
    /\ \E r \in Requests(p, {"posix", "io"}) : PosixTry(p, r, list)
    /\ UNCHANGED dying

(* flock()                                                                 *)
Flock(p) ==
    /\ pc[p] = "user"
    /\ \E r \in Requests(p, {"flock"}) : FlockSearch(p, r)

(* A waiter runs again: off the block list, and back to "repeat".  A read  *)
(* or write gives up waiting when the file is no longer a mandatory one.   *)
Resume(p) ==
    /\ pc[p] = "woken"
    /\ dying' = [q \in Proc |-> SelectSeq(dying[q], LAMBDA w : w # p)]
    /\ \/ req[p].kind # "flock" /\ PosixTry(p, req[p], Unblock(list, p))
       \/ req[p].kind = "flock" /\ FlockTry(p, req[p], Unblock(list, p))
       \/ /\ req[p].kind = "io"
          /\ list' = Unblock(list, p) /\ pc' = [pc EXCEPT ![p] = "user"]
          /\ Leave(p) /\ UNCHANGED held

(* In locks_wake_up_blocks(), after schedule().                            *)
Yield(p) ==
    /\ pc[p] = "yield"
    /\ \/ /\ dying[p] # << >> /\ pc[Head(dying[p])] = "blocked"
          /\ pc' = Woken({Head(dying[p])})
          /\ UNCHANGED <<list, req, dying, sig, held>>
       \/ dying[p] = << >> /\ FlockSearch(p, req[p])

(* filp_close(): locks_remove_posix(), then, with the last reference to    *)
(* the open file, locks_remove_flock().                                    *)
Close(p) ==
    /\ pc[p] = "user"
    /\ \E last \in BOOLEAN :
         LET gone == {fl \in ToSet(list) :
                        \/ fl.kind = "posix" /\ Files[fl.owner] = Files[p]
                        \/ last /\ fl.kind = "flock" /\ fl.owner = Filp[p]}
         IN /\ last => \A q \in Proc : Filp[q] = Filp[p] =>
                         /\ pc[q] = "user"
                         /\ Files[q] # Files[p] => held[q] = [b \in Bytes |-> "U"]
            /\ list' = SelectSeq(list, LAMBDA fl : fl \notin gone)
            /\ pc' = Woken(Sleepers(gone))
    /\ held' = [q \in Proc |-> IF Files[q] = Files[p] THEN [b \in Bytes |-> "U"] ELSE held[q]]
    /\ UNCHANGED <<req, dying, sig>>

(* A signal wakes a process that is blocked; it stays on the block list.   *)
(* One that comes later has the effect it would have had then.             *)
Signal(p) ==
    /\ pc[p] = "blocked"
    /\ sig' = [sig EXCEPT ![p] = TRUE]
    /\ pc' = [pc EXCEPT ![p] = "woken"]
    /\ UNCHANGED <<list, req, dying, held>>

Init ==
    /\ list = << >>
    /\ pc = [p \in Proc |-> "user"]
    /\ req = [p \in Proc |-> None]
    /\ dying = [p \in Proc |-> << >>]
    /\ sig = [p \in Proc |-> FALSE]
    /\ held = [p \in Proc |-> [b \in Bytes |-> "U"]]

Next == \E p \in Proc :
    Fcntl(p) \/ Flock(p) \/ Resume(p) \/ Yield(p) \/ Close(p) \/ Signal(p)

Spec == Init /\ [][Next]_vars

-----------------------------------------------------------------------------
Posix == SelectSeq(list, LAMBDA fl : fl.kind = "posix")

(* Whatever was merged, replaced, cut and split on the way, the locks of a *)
(* process cover a byte with the type it last asked for there and was      *)
(* granted, and with no other, until it or a thread that shares its files  *)
(* closes the file.                                                        *)
LocksExact ==
    \A p \in Proc, b \in Bytes :
        {fl.type : fl \in {f \in ToSet(Posix) : f.owner = p /\ b \in f.start..f.end}}
            = {held[p][b]} \ {"U"}

(* "We merge adjacent locks whenever possible. POSIX locks are sorted by   *)
(* owner task, then by starting address" (locks.c:913-914).                *)
SortedAndMerged ==
    \A i, j \in DOMAIN Posix : i < j /\ Posix[i].owner = Posix[j].owner =>
        /\ Posix[j-1].owner = Posix[j].owner
        /\ Posix[i].end < Posix[j].start
        /\ Posix[i].type = Posix[j].type => Posix[i].end + 1 < Posix[j].start

(* A lock for writing excludes every other lock on the same bytes, but for *)
(* those of the same process or, with flock(), of the same open file.      *)
Exclusive ==
    \A i, j \in DOMAIN list :
        i # j /\ list[i].kind = list[j].kind /\ Overlap(list[i], list[j]) /\ list[i].type = "W"
            => list[i].owner = list[j].owner

(* Who is blocked is blocked by a lock that still conflicts with what it   *)
(* asks for: a lock that goes, shrinks or changes its type wakes those     *)
(* that wait for it, so none sleeps on when it could have the lock.        *)
BlockedByConflict ==
    \A p \in Proc : pc[p] = "blocked" =>
        \/ \E i \in DOMAIN list : Contains(list[i].blocks, p) /\ Conflict(p, req[p], list[i])
        \/ \E q \in Proc : Contains(dying[q], p)

(* No processes wait for each other's POSIX locks in a circle: the check   *)
(* before each sleep finds every one that would arise, through any number  *)
(* of processes, although a waiter is queued at one of the locks that      *)
(* conflict with its request only.  It also means that the check ends      *)
(* ("until either blocked_task isn't found, or ...", locks.c:791).         *)
NoCircularWait ==
    \A p \in Proc : \A fl \in ToSet(Posix) :
        Contains(fl.blocks, p) => p \notin Behind(list, {fl.owner})
=============================================================================
