--------------------------- MODULE SysVSemProofs ---------------------------
(***************************************************************************)
(* System V semaphores, second part: every action keeps the invariant, and *)
(* the theorems, for every set of processes and of semaphores, every       *)
(* SEMVMX, and arrays of operations of any length.                         *)
(***************************************************************************)
EXTENDS SemQueueProofs

(* A leaf that names no prover is for Zenon.                               *)
USE Untyped, ZenonT(40)

-----------------------------------------------------------------------------
(***************************************************************************)
(* sys_semop() from try_atomic_semop() on.                                 *)
(***************************************************************************)
GhostTypes == ledger \in [Sem -> Int] /\ owed \in [Proc -> [Sem -> Shorts]]

(* Performed or refused, then the end of the call: S is the state p has    *)
(* left the queue in.                                                      *)
LEMMA EndStep ==
  ASSUME LoopLaw, FiniteLaws, SumLaws, WithoutLaw, WithoutOrder, VarTypes, GhostTypes, NEW p \in Proc,
         NEW S \in Queues, ~S.stop, S.status = status, S.woken = {}, NEW ops \in Seq(Sembuf), NEW r, NEW T,
         Tried(S, p, ops, r, T), Return(Finish(T, ops), p), NEW id, NEW u, Undos(ops) => u[p] = id,
         Sound(S.val, S.adj, S.pend, StatusOf(p), ArgOf(p), PcOf(p, "user"), id, u, ledger, owed),
         Alter(ops) \/ Served(S.val, S.pend, StatusOf(p), ArgOf(p)),
         IF r.result = "ok" THEN Record(p, ops) ELSE UNCHANGED_ghosts
  PROVE  Whole(Finish(T, ops).val, Finish(T, ops).adj, Finish(T, ops).pend, status', arg', pc', id, u, ledger', owed')
<1>1. T \in Queues /\ ~T.stop /\ T.status = status /\ T.woken = {} /\ T.pend = S.pend
  BY DEF Tried
<1>2. PcOf(p, "user")[p] \notin InCall
  <2>1. "user" \in Pc /\ "user" \notin InCall
    BY SMT DEF Pc, InCall
  <2> QED
    BY <2>1, RunIs
<1>3. Sound(T.val, T.adj, T.pend, StatusOf(p), ArgOf(p), PcOf(p, "user"), id, u, ledger', owed') /\ (~Alter(ops) => T.val = S.val)
  <2>1. CASE r.result = "ok"
    <3>1. Recorded(p, ops, ledger, owed, ledger', owed')
      BY <2>1, RecordIs DEF GhostTypes
    <3>2. Granted(S, p, ops, r, T, StatusOf(p), ArgOf(p), PcOf(p, "user"), id, u, ledger, owed, ledger', owed')
      BY <1>2, <2>1, <3>1 DEF Granted
    <3> QED
      BY <3>2, Performs, SMT
  <2>2. CASE r.result # "ok"
    <3>1. T.val = S.val /\ T.adj = S.adj
      BY <2>2 DEF Tried
    <3>2. ledger' = ledger /\ owed' = owed
      BY <2>2, SMT DEF UNCHANGED_ghosts
    <3> QED
      BY <1>1, <3>1, <3>2
  <2> QED
    BY <2>1, <2>2
<1>4. Alter(ops) \/ Served(T.val, T.pend, StatusOf(p), ArgOf(p))
  BY <1>1, <1>3
<1> QED
  BY <1>1, <1>3, <1>4, FinishReturn

(* What Numbers needs to know.                                             *)
Counted(p, id) ==
    /\ sig' \in [Proc -> BOOLEAN] /\ Besides(p, arg', arg) /\ arg'[p].id \in {NoSet, id, arg[p].id}
    /\ pc'[p] \notin Unlocked /\ NoneNew(p, pc')

LEMMA ReturnCounted ==
  ASSUME VarTypes, sig \in [Proc -> BOOLEAN], NEW p \in Proc, NEW U, Return(U, p), NEW id
  PROVE  Counted(p, id)
<1>1. "user" \in Pc /\ "user" \notin InCall /\ "user" \notin Unlocked
  BY SMT DEF Pc, InCall, Unlocked
<1>2. pc' = Run(U, p, "user") /\ arg' = ArgOf(p) /\ sig' = [sig EXCEPT ![p] = FALSE]
  BY DEF Return, ArgOf
<1>3. sig' \in [Proc -> BOOLEAN]
  BY <1>2, SMT
<1>4. Besides(p, ArgOf(p), arg) /\ ArgOf(p)[p] = NoArg
  BY LeftIs
<1>5. NoArg.id \in {NoSet, id}
  BY NoArgIs, SMT
<1>6. Run(U, p, "user")[p] = "user" /\ NoneNew(p, Run(U, p, "user"))
  BY <1>1, RunIs
<1>7. pc'[p] = "user" /\ NoneNew(p, pc')
  BY <1>2, <1>6
<1> QED
  BY <1>1, <1>2, <1>3, <1>4, <1>5, <1>7 DEF Counted

WholeNext(id, u) == Whole(val', adj', pend', status', arg', pc', id, u, ledger', owed')

LEMMA AttemptStep ==
  ASSUME LoopLaw, FiniteLaws, SumLaws, WithoutLaw, WithoutOrder, AppendLaw, VarTypes, GhostTypes, sig \in [Proc -> BOOLEAN],
         NEW p \in Proc, NEW S \in Queues, ~S.stop, S.status = status, S.woken = {}, NEW a \in Calls,
         NEW id, id # NoSet, a.id = id, NEW u, Undos(a.ops) => u[p] = id, pc[p] \notin InCall,
         Whole(S.val, S.adj, S.pend, status, arg, pc, id, u, ledger, owed), Attempt(S, p, a)
  PROVE  WholeNext(id, u) /\ Counted(p, id)
<1> DEFINE ops == a.ops
           r == Try(S, p, ops, FALSE)
           T == Commit(S, p, r)
           U == Finish(T, ops)
<1>1. IF r.result # "block"
        THEN Install(U) /\ Return(U, p) /\ IF r.result = "ok" THEN Record(p, ops) ELSE UNCHANGED_ghosts
        ELSE /\ Install([T EXCEPT !.pend = Enqueue(@, p, ops)])
             /\ pc' = [pc EXCEPT ![p] = IF sig[p] THEN "awake" ELSE "sleep"]
             /\ status' = [S.status EXCEPT ![p] = "EINTR"]
             /\ arg' = [arg EXCEPT ![p] = a]
             /\ UNCHANGED <<sig, ledger, owed>>
  BY DEF Attempt
<1>2. ops \in Seq(Sembuf)
  <2>1. a.ops \in Menu \cup {<<>>}
    BY SMT DEF Calls
  <2>2. <<>> \in Seq(Sembuf) /\ Menu \subseteq Seq(Sembuf)
    BY MenuAssumption, SMT
  <2> QED
    BY <2>1, <2>2
<1> HIDE DEF ops
<1>3. Tried(S, p, ops, r, T)
  BY <1>2, Attempted
<1> HIDE DEF r, T
<1>4. CASE r.result # "block"
  <2>1. Install(U) /\ Return(U, p) /\ IF r.result = "ok" THEN Record(p, ops) ELSE UNCHANGED_ghosts
    BY <1>1, <1>4
  <2>2. Leaves(p, status, arg, pc, StatusOf(p), ArgOf(p), PcOf(p, "user"))
    BY LeftIs
  <2>3. Whole(S.val, S.adj, S.pend, StatusOf(p), ArgOf(p), PcOf(p, "user"), id, u, ledger, owed)
    BY <2>2, LeaveWhole
  <2>4. /\ Sound(S.val, S.adj, S.pend, StatusOf(p), ArgOf(p), PcOf(p, "user"), id, u, ledger, owed)
        /\ Served(S.val, S.pend, StatusOf(p), ArgOf(p))
    BY <2>3 DEF Whole, Served
  <2>5. Undos(ops) => u[p] = id
    BY DEF ops
  <2>6. Whole(U.val, U.adj, U.pend, status', arg', pc', id, u, ledger', owed')
    BY <1>2, <1>3, <2>1, <2>4, <2>5, EndStep
  <2>7. Counted(p, id)
    BY <2>1, ReturnCounted
  <2> QED
    BY <2>1, <2>6, <2>7 DEF Install, WholeNext
<1>5. CASE r.result = "block"
  <2>1. /\ Install([T EXCEPT !.pend = Enqueue(@, p, ops)])
        /\ pc' = [pc EXCEPT ![p] = IF sig[p] THEN "awake" ELSE "sleep"]
        /\ status' = [status EXCEPT ![p] = "EINTR"]
        /\ arg' = [arg EXCEPT ![p] = a]
        /\ UNCHANGED <<sig, ledger, owed>>
    BY <1>1, <1>5
  <2>2. /\ T.val = S.val /\ T.adj = S.adj /\ T.pend = S.pend /\ Expected(S.val, ops) = "block"
    <3>1. "block" # "ok"
      BY SMT
    <3> QED
      BY <1>3, <1>5, <3>1 DEF Tried
  <2>3. val' = S.val /\ adj' = S.adj /\ pend' = Enqueue(S.pend, p, ops)
    <3>1. T \in Queues
      BY <1>3 DEF Tried
    <3>2. /\ [T EXCEPT !.pend = Enqueue(@, p, ops)].val = T.val /\ [T EXCEPT !.pend = Enqueue(@, p, ops)].adj = T.adj
          /\ [T EXCEPT !.pend = Enqueue(@, p, ops)].pend = Enqueue(T.pend, p, ops)
      BY <3>1, SMT DEF Queues
    <3> QED
      BY <2>1, <2>2, <3>2 DEF Install
  <2>4. ledger' = ledger /\ owed' = owed /\ sig' = sig
    BY <2>1, SMT
  <2> DEFINE at == IF sig[p] THEN "awake" ELSE "sleep"
  <2>5. at \in Pc /\ at \in InCall /\ at \notin Unlocked /\ "EINTR" \in Status
    BY SMT DEF Pc, InCall, Unlocked, Status
  <2>6. pc' = [pc EXCEPT ![p] = at]
    BY <2>1
  <2> HIDE DEF at
  <2>7. /\ pc' \in [Proc -> Pc] /\ pc'[p] = at /\ Besides(p, pc', pc)
        /\ status' \in [Proc -> Status] /\ status'[p] = "EINTR" /\ Besides(p, status', status)
        /\ arg' \in [Proc -> Calls] /\ arg'[p] = a /\ Besides(p, arg', arg)
    <3>1. pc' \in [Proc -> Pc] /\ pc'[p] = at /\ Besides(p, pc', pc)
      BY <2>5, <2>6, SMT DEF VarTypes, Besides
    <3>2. status' \in [Proc -> Status] /\ status'[p] = "EINTR" /\ Besides(p, status', status)
      BY <2>1, <2>5, SMT DEF VarTypes, Besides
    <3>3. arg' \in [Proc -> Calls] /\ arg'[p] = a /\ Besides(p, arg', arg)
      BY <2>1, SMT DEF VarTypes, Besides
    <3> QED
      BY <3>1, <3>2, <3>3
  <2>8. Sleeps(p, a, status, arg, pc, status', arg', pc')
    BY <2>5, <2>7 DEF Sleeps
  <2>9. Expected(S.val, a.ops) = "block"
    BY <2>2 DEF ops
  <2>10. Whole(S.val, S.adj, Enqueue(S.pend, p, a.ops), status', arg', pc', id, u, ledger, owed)
    BY <2>8, <2>9, Blocked
  <2>11. Counted(p, id)
    <3>1. arg'[p].id \in {NoSet, id, arg[p].id}
      BY <2>7, SMT
    <3>2. NoneNew(p, pc')
      BY <2>7 DEF NoneNew, Besides
    <3> QED
      BY <2>4, <2>5, <2>7, <3>1, <3>2 DEF Counted
  <2> QED
    BY <2>3, <2>4, <2>10, <2>11 DEF WholeNext, ops
<1> QED
  BY <1>4, <1>5

-----------------------------------------------------------------------------
(***************************************************************************)
(* The actions.                                                            *)
(***************************************************************************)
LEMMA NumbersStep ==
  ASSUME Numbers, NEW p \in Proc, semid' = semid, seq' = seq, un' \in [Proc -> {NoSet} \cup 0..MaxSeq], Besides(p, un', un),
         un'[p] \in {NoSet, semid, un[p]}, sig' \in [Proc -> BOOLEAN], Besides(p, arg', arg),
         arg'[p].id \in {NoSet, semid, arg[p].id}, NoneNew(p, pc'), pc'[p] = "alloc" => un'[p] = NoSet,
         pc'[p] \in Unlocked => arg'[p].id # NoSet
  PROVE  Numbers'
<1>1. /\ semid \in {NoSet} \cup 0..MaxSeq /\ seq \in 0..(MaxSeq + 1) /\ semid < seq
      /\ \A r \in Proc : /\ un[r] < seq /\ arg[r].id < seq
                         /\ pc[r] = "alloc" => un[r] = NoSet
                         /\ pc[r] \in Unlocked => arg[r].id # NoSet
  BY DEF Numbers
<1>2. NoSet < seq
  BY <1>1, MenuAssumption, SMT DEF NoSet
<1>3. ASSUME NEW r \in Proc
      PROVE  /\ un'[r] < seq /\ arg'[r].id < seq /\ (pc'[r] = "alloc" => un'[r] = NoSet)
             /\ pc'[r] \in Unlocked => arg'[r].id # NoSet
  <2>1. CASE r # p
    <3>1. "alloc" \in Unlocked
      BY SMT DEF Unlocked
    <3> QED
      BY <1>1, <2>1, <3>1 DEF Besides, NoneNew
  <2>2. CASE r = p
    <3>1. un'[p] = NoSet \/ un'[p] = semid \/ un'[p] = un[p]
      BY SMT
    <3>2. arg'[p].id = NoSet \/ arg'[p].id = semid \/ arg'[p].id = arg[p].id
      BY SMT
    <3> QED
      BY <1>1, <1>2, <2>2, <3>1, <3>2
  <2> QED
    BY <2>1, <2>2
<1> QED
  BY <1>1, <1>3 DEF Numbers

LEMMA CountedStep ==
  ASSUME Numbers, NEW p \in Proc, semid' = semid, seq' = seq, un' = un, Counted(p, semid)
  PROVE  Numbers'
<1>1. un' \in [Proc -> {NoSet} \cup 0..MaxSeq] /\ Besides(p, un', un)
  BY DEF Numbers, Besides
<1>2. un'[p] \in {NoSet, semid, un[p]}
  BY SMT
<1>3. arg'[p].id \in {NoSet, semid, arg[p].id}
  BY DEF Counted
<1>4. sig' \in [Proc -> BOOLEAN] /\ Besides(p, arg', arg) /\ NoneNew(p, pc') /\ (pc'[p] = "alloc" => un'[p] = NoSet)
      /\ (pc'[p] \in Unlocked => arg'[p].id # NoSet)
  <2>1. "alloc" \in Unlocked
    BY SMT DEF Unlocked
  <2> QED
    BY <2>1 DEF Counted
<1> QED
  BY <1>1, <1>2, <1>3, <1>4, NumbersStep

Now == Whole(val, adj, pend, status, arg, pc, semid, un, ledger, owed)

LEMMA StateIs ==
  ASSUME Inv
  PROVE  /\ Numbers /\ Now /\ VarTypes /\ GhostTypes /\ sig \in [Proc -> BOOLEAN]
         /\ State \in Queues /\ State.val = val /\ State.adj = adj /\ State.pend = pend /\ State.status = status
         /\ ~State.stop /\ State.woken = {}
         /\ pend \in Seq(Proc) /\ NoRepeat(pend) /\ val \in [Sem -> Nat] /\ adj \in [Proc -> [Sem -> Shorts]]
         /\ un \in [Proc -> {NoSet} \cup 0..MaxSeq] /\ semid \in {NoSet} \cup 0..MaxSeq
<1>1. Types(val, adj, pend, status, arg, pc, ledger, owed)
  BY DEF Inv, Whole, Sound
<1>2. /\ val \in [Sem -> Nat] /\ adj \in [Proc -> [Sem -> Shorts]] /\ pend \in Seq(Proc) /\ NoRepeat(pend)
      /\ status \in [Proc -> Status] /\ arg \in [Proc -> Calls] /\ pc \in [Proc -> Pc]
      /\ ledger \in [Sem -> Int] /\ owed \in [Proc -> [Sem -> Shorts]]
  BY <1>1 DEF Types
<1>3. /\ State \in Queues /\ State.val = val /\ State.adj = adj /\ State.pend = pend /\ State.status = status
      /\ State.stop = FALSE /\ State.woken = {}
  BY <1>2, SMT DEF State, Queues
<1> QED
  BY <1>2, <1>3 DEF VarTypes, GhostTypes, Inv, Numbers, Now

(* SETVAL, SETALL and alloc_undo() that fail: p only returns.              *)
LEMMA OnlyReturns ==
  ASSUME FiniteLaws, SumLaws, Inv, NEW p \in Proc, pc[p] \notin InCall, Return(State, p),
         UNCHANGED <<semid, seq, val, adj, pend, un, ledger, owed>>
  PROVE  Inv'
<1>1. Numbers /\ Now /\ VarTypes /\ sig \in [Proc -> BOOLEAN] /\ State.status = status /\ State.woken = {}
  BY StateIs
<1>2. Counted(p, semid)
  BY <1>1, ReturnCounted
<1>3. status' = StatusOf(p) /\ arg' = ArgOf(p) /\ pc' = PcOf(p, "user")
  BY <1>1, StayReturn
<1>4. Leaves(p, status, arg, pc, StatusOf(p), ArgOf(p), PcOf(p, "user"))
  BY <1>1, LeftIs
<1>5. Whole(val, adj, pend, StatusOf(p), ArgOf(p), PcOf(p, "user"), semid, un, ledger, owed)
  BY <1>1, <1>4, LeaveWhole DEF Now
<1>6. semid' = semid /\ seq' = seq /\ un' = un /\ val' = val /\ adj' = adj /\ pend' = pend /\ ledger' = ledger /\ owed' = owed
  BY SMT
<1>7. Numbers'
  BY <1>1, <1>2, <1>6, CountedStep
<1> QED
  BY <1>3, <1>5, <1>6, <1>7 DEF Inv

(* Only the undo structure of p, which is outside semop(), changes.        *)
LEMMA UndoWhole ==
  ASSUME LoopLaw, FiniteLaws, SumLaws, NEW p \in Proc, NEW v, NEW ad, NEW q, NEW st, NEW A, NEW P, NEW id, NEW u,
         NEW led, NEW ow, NEW ad2 \in [Proc -> [Sem -> Shorts]], NEW u2, Besides(p, ad2, ad), Besides(p, u2, u),
         P[p] \notin InCall, Clean(ad2, ow, u2, id, p), Whole(v, ad, q, st, A, P, id, u, led, ow)
  PROVE  Whole(v, ad2, q, st, A, P, id, u2, led, ow)
<1>1. Sound(v, ad, q, st, A, P, id, u, led, ow) /\ Types(v, ad, q, st, A, P, led, ow)
  BY DEF Whole, Sound
<1>2. Changes(p, v, ad, u, id, led, ow, v, ad2, u2, led, ow)
  BY <1>1 DEF Changes, Types, Shifts, Besides
<1>3. Sound(v, ad2, q, st, A, P, id, u2, led, ow)
  BY <1>1, <1>2, Alone, SMT
<1> QED
  BY <1>3 DEF Whole

OwesNone(ow, p) == \A s \in Sem : ow[p][s] = 0

LEMMA NothingOwed ==
  ASSUME NEW p \in Proc, NEW v, NEW ad, NEW q, NEW st, NEW A, NEW P, NEW id, NEW u, NEW led, NEW ow,
         Whole(v, ad, q, st, A, P, id, u, led, ow), id # NoSet, u[p] # id
  PROVE  OwesNone(ow, p)
  BY DEF Whole, Sound, UndoOK, UndoOne, OwesNone

LEMMA SemopInv ==
  ASSUME LoopLaw, FiniteLaws, SumLaws, WithoutLaw, WithoutOrder, AppendLaw
  PROVE  \A p \in Proc, ops \in Menu :
           /\ Inv
           /\ SemopOf(p, ops)
           => Inv'
<1>SemopArg. ASSUME NEW ops \in Menu, semid \in {NoSet} \cup 0..MaxSeq, NEW a,
                    a = [NoArg EXCEPT !.id = semid, !.ops = ops]
             PROVE  a \in Calls /\ a.id = semid /\ a.ops = ops
  <2> USE <1>SemopArg
  <2>1. Zero \in [Sem -> 0..SEMVMX]
    BY SEMVMXAssumption, SMT DEF Zero
  <2>2. a = [id |-> semid, ops |-> ops, vals |-> Zero]
    BY DEF NoArg
  <2> QED
    BY <2>1, <2>2, SMT DEF Calls
<1> SUFFICES ASSUME NEW p \in Proc, NEW ops \in Menu, Inv, SemopOf(p, ops)
             PROVE  Inv'
  OBVIOUS
<1> DEFINE a == [NoArg EXCEPT !.id = semid, !.ops = ops]
<1>1. /\ Numbers /\ Now /\ VarTypes /\ GhostTypes /\ sig \in [Proc -> BOOLEAN]
      /\ State \in Queues /\ State.val = val /\ State.adj = adj /\ State.pend = pend /\ State.status = status
      /\ ~State.stop /\ State.woken = {} /\ adj \in [Proc -> [Sem -> Shorts]]
      /\ un \in [Proc -> {NoSet} \cup 0..MaxSeq] /\ semid \in {NoSet} \cup 0..MaxSeq
  BY StateIs
<1>2. pc[p] = "user" /\ semid # NoSet /\ semid' = semid /\ seq' = seq
  BY SMT DEF SemopOf
<1>3. a \in Calls /\ a.id = semid /\ a.ops = ops
  BY <1>1, <1>SemopArg
<1>4. pc[p] \notin InCall
  BY <1>2, SMT DEF InCall
<1>5. CASE Undos(ops) /\ un[p] # semid
  <2>1. /\ pc' = PcOf(p, "alloc") /\ arg' = [arg EXCEPT ![p] = a] /\ un' = [un EXCEPT ![p] = NoSet]
        /\ val' = val /\ adj' = adj /\ pend' = pend /\ status' = status /\ sig' = sig /\ ledger' = ledger /\ owed' = owed
    BY <1>5, SMT DEF SemopOf, PcOf
  <2> HIDE DEF a
  <2>2. "alloc" \in Pc /\ "alloc" \notin InCall
    BY SMT DEF Pc, InCall
  <2>3. pc' \in [Proc -> Pc] /\ Besides(p, pc', pc) /\ pc'[p] = "alloc"
    BY <1>1, <2>1, <2>2, RunIs
  <2>4. arg' \in [Proc -> Calls] /\ Besides(p, arg', arg) /\ arg'[p] = a
    BY <1>1, <1>3, <2>1, SMT DEF VarTypes, Besides
  <2>5. Leaves(p, status, arg, pc, status, arg', pc')
    BY <1>1, <2>2, <2>3, <2>4 DEF Leaves, VarTypes, Besides
  <2>6. Whole(val, adj, pend, status, arg', pc', semid, un, ledger, owed)
    BY <1>1, <1>4, <2>5, LeaveWhole DEF Now
  <2>7. un' \in [Proc -> {NoSet} \cup 0..MaxSeq] /\ Besides(p, un', un) /\ un'[p] = NoSet
    BY <1>1, <2>1, SMT DEF Besides
  <2>8. OwesNone(owed, p)
    BY <1>1, <1>2, <1>5, NothingOwed DEF Now
  <2>9. Clean(adj, owed, un', semid, p)
    BY <1>2, <2>7, <2>8 DEF Clean, OwesNone
  <2>10. Besides(p, adj, adj)
    BY DEF Besides
  <2>11. Whole(val, adj, pend, status, arg', pc', semid, un', ledger, owed)
    BY <1>1, <2>2, <2>3, <2>6, <2>7, <2>9, <2>10, UndoWhole, SMT
  <2>12. NoneNew(p, pc')
    BY <2>3 DEF NoneNew, Besides
  <2>13. un'[p] \in {NoSet, semid, un[p]} /\ arg'[p].id \in {NoSet, semid, arg[p].id} /\ arg'[p].id # NoSet
    BY <1>2, <1>3, <2>4, <2>7, SMT
  <2>14. Numbers'
    BY <1>1, <1>2, <2>1, <2>4, <2>7, <2>12, <2>13, NumbersStep
  <2> QED
    BY <1>2, <2>1, <2>11, <2>14 DEF Inv
<1>6. CASE ~(Undos(ops) /\ un[p] # semid)
  <2>1. Attempt(State, p, a) /\ un' = un
    BY <1>6, SMT DEF SemopOf
  <2> HIDE DEF a
  <2>2. Undos(a.ops) => un[p] = semid
    BY <1>3, <1>6
  <2>3. Whole(State.val, State.adj, State.pend, status, arg, pc, semid, un, ledger, owed)
    BY <1>1 DEF Now
  <2>4. WholeNext(semid, un) /\ Counted(p, semid)
    BY <1>1, <1>2, <1>3, <1>4, <2>1, <2>2, <2>3, AttemptStep
  <2>5. Numbers'
    BY <1>1, <1>2, <2>1, <2>4, CountedStep
  <2> QED
    BY <1>2, <2>1, <2>4, <2>5 DEF Inv, WholeNext
<1> QED
  BY <1>5, <1>6

LEMMA AllocUndoInv ==
  ASSUME LoopLaw, FiniteLaws, SumLaws, WithoutLaw, WithoutOrder, AppendLaw, Inv, NEW p \in Proc, AllocUndo(p)
  PROVE  Inv'
<1> DEFINE S == [State EXCEPT !.adj[p] = Zero]
           ad2 == [adj EXCEPT ![p] = Zero]
<1>1. /\ Numbers /\ Now /\ VarTypes /\ GhostTypes /\ sig \in [Proc -> BOOLEAN]
      /\ State \in Queues /\ State.val = val /\ State.adj = adj /\ State.pend = pend /\ State.status = status
      /\ ~State.stop /\ State.woken = {} /\ adj \in [Proc -> [Sem -> Shorts]]
      /\ un \in [Proc -> {NoSet} \cup 0..MaxSeq] /\ semid \in {NoSet} \cup 0..MaxSeq
  BY StateIs
<1>2. pc[p] = "alloc" /\ semid' = semid /\ seq' = seq
  BY SMT DEF AllocUndo
<1>3. pc[p] \notin InCall /\ pc[p] \in Unlocked
  BY <1>2, SMT DEF InCall, Unlocked
<1>4. CASE Return(State, p) /\ UNCHANGED <<val, adj, pend, un, ledger, owed>>
  <2>1. UNCHANGED <<semid, seq, val, adj, pend, un, ledger, owed>>
    BY <1>2, <1>4, SMT
  <2> QED
    BY <1>3, <1>4, <2>1, OnlyReturns
<1>5. CASE Revalidate(p) /\ un' = [un EXCEPT ![p] = semid] /\ Attempt(S, p, arg[p])
  <2>1. semid = arg[p].id /\ semid # NoSet /\ un[p] # semid
    BY <1>1, <1>2, <1>3, <1>5 DEF Revalidate, Numbers
  <2>2. un' \in [Proc -> {NoSet} \cup 0..MaxSeq] /\ Besides(p, un', un) /\ un'[p] = semid
    BY <1>1, <1>5, SMT DEF Besides
  <2>3. ad2 \in [Proc -> [Sem -> Shorts]] /\ Besides(p, ad2, adj) /\ ad2[p] = Zero
    <3>1. Zero \in [Sem -> Shorts]
      BY ZeroIs
    <3> QED
      BY <1>1, <3>1, SMT DEF Besides
  <2>4. S \in Queues /\ S.val = val /\ S.adj = ad2 /\ S.pend = pend /\ S.status = status /\ ~S.stop /\ S.woken = {}
    <3>1. S = [State EXCEPT !.adj = ad2]
      BY <1>1, SMT DEF Queues
    <3> HIDE DEF S, ad2
    <3> QED
      BY <1>1, <2>3, <3>1 DEF Queues
  <2> HIDE DEF S, ad2
  <2>5. OwesNone(owed, p)
    BY <1>1, <2>1, NothingOwed DEF Now
  <2>6. Clean(ad2, owed, un', semid, p)
    <3>1. ASSUME NEW s \in Sem PROVE ad2[p][s] = Short(-(owed[p][s] + 0))
      <4>1. owed[p][s] = 0 /\ ad2[p][s] = 0
        BY <2>3, <2>5, ZeroIs DEF OwesNone
      <4>2. owed[p][s] + 0 \in Int /\ owed[p][s] + 0 = 0
        BY <4>1, SMT
      <4> QED
        BY <4>1, <4>2, ShortBack
    <3> QED
      BY <2>2, <3>1 DEF Clean, Owes
  <2>7. Whole(val, ad2, pend, status, arg, pc, semid, un', ledger, owed)
    BY <1>1, <1>3, <2>2, <2>3, <2>6, UndoWhole, SMT DEF Now
  <2>8. arg[p] \in Calls /\ arg[p].id = semid
    BY <1>1, <2>1, SMT DEF VarTypes
  <2>9. Whole(S.val, S.adj, S.pend, status, arg, pc, semid, un', ledger, owed)
    BY <2>4, <2>7
  <2>10. WholeNext(semid, un') /\ Counted(p, semid)
    BY <1>1, <1>3, <1>5, <2>1, <2>2, <2>4, <2>8, <2>9, AttemptStep
  <2>11. /\ sig' \in [Proc -> BOOLEAN] /\ Besides(p, arg', arg) /\ NoneNew(p, pc') /\ (pc'[p] = "alloc" => un'[p] = NoSet)
         /\ pc'[p] \in Unlocked => arg'[p].id # NoSet
    <3>1. "alloc" \in Unlocked
      BY SMT DEF Unlocked
    <3> QED
      BY <2>10, <3>1 DEF Counted
  <2>12. un'[p] \in {NoSet, semid, un[p]} /\ arg'[p].id \in {NoSet, semid, arg[p].id}
    <3>1. arg'[p].id \in {NoSet, semid, arg[p].id}
      BY <2>10 DEF Counted
    <3> QED
      BY <2>2, <3>1, SMT
  <2>13. Numbers'
    BY <1>1, <1>2, <2>2, <2>11, <2>12, NumbersStep
  <2> QED
    BY <1>2, <2>10, <2>13 DEF Inv, WholeNext
<1> QED
  BY <1>4, <1>5 DEF AllocUndo

LEMMA SignalInv ==
  ASSUME Inv, NEW p \in Proc, Signal(p)
  PROVE  Inv'
<1>1. Numbers /\ Now /\ VarTypes /\ sig \in [Proc -> BOOLEAN] /\ un \in [Proc -> {NoSet} \cup 0..MaxSeq]
  BY StateIs
<1>2. /\ pc[p] \in {"alloc", "sleep", "awake"} /\ sig' = [sig EXCEPT ![p] = TRUE]
      /\ pc' = [pc EXCEPT ![p] = IF pc[p] = "sleep" THEN "awake" ELSE pc[p]]
      /\ semid' = semid /\ seq' = seq /\ val' = val /\ pend' = pend /\ arg' = arg /\ status' = status
      /\ un' = un /\ adj' = adj /\ ledger' = ledger /\ owed' = owed
  BY SMT DEF Signal
<1>3. sig' \in [Proc -> BOOLEAN]
  BY <1>1, <1>2, SMT
<1>4. /\ pc' \in [Proc -> Pc] /\ \A r \in Proc : r # p => pc'[r] = pc[r]
      /\ pc'[p] = IF pc[p] = "sleep" THEN "awake" ELSE pc[p]
  BY <1>1, <1>2, SMT DEF VarTypes, Pc
<1>5. NoneNew(p, pc') /\ Besides(p, pc', pc) /\ Besides(p, un', un) /\ Besides(p, arg', arg) /\ Besides(p, status', status)
  BY <1>2, <1>4 DEF NoneNew, Besides
<1>6. un'[p] \in {NoSet, semid, un[p]} /\ arg'[p].id \in {NoSet, semid, arg[p].id}
  BY <1>2, SMT
<1>7. (pc'[p] = "alloc" => un'[p] = NoSet) /\ (pc'[p] \in Unlocked => arg'[p].id # NoSet)
  <2>1. pc'[p] \in Unlocked => pc'[p] = pc[p]
    BY <1>4, SMT DEF Unlocked
  <2>2. "alloc" \in Unlocked
    BY SMT DEF Unlocked
  <2> QED
    BY <1>1, <1>2, <2>1, <2>2 DEF Numbers
<1>8. Numbers'
  BY <1>1, <1>2, <1>3, <1>5, <1>6, <1>7, NumbersStep
<1>9. CASE pc[p] \in InCall
  <2>1. pc'[p] \in InCall /\ pc'[p] # "sleep"
    BY <1>4, <1>9, SMT DEF InCall
  <2>2. Stirs(p, val, pend, status, arg, pc, status, pc')
    BY <1>1, <1>2, <1>4, <1>5, <1>9, <2>1 DEF Stirs, VarTypes
  <2>3. Whole(val, adj, pend, status, arg, pc', semid, un, ledger, owed)
    BY <1>1, <2>2, Stir DEF Now
  <2> QED
    BY <1>2, <1>8, <2>3 DEF Inv
<1>10. CASE pc[p] \notin InCall
  <2>1. pc'[p] = pc[p]
    BY <1>4, <1>10, SMT DEF InCall
  <2>2. pc' = pc
    BY <1>1, <1>4, <2>1, SMT DEF VarTypes
  <2> QED
    BY <1>1, <1>2, <1>8, <2>2 DEF Inv, Now
<1> QED
  BY <1>9, <1>10

LEMMA RmidInv ==
  ASSUME Inv, NEW p \in Proc, Rmid(p)
  PROVE  Inv'
<1>1. Numbers /\ Now /\ VarTypes
  BY StateIs
<1>2. /\ semid' = NoSet /\ un' = [q \in Proc |-> NoSet]
      /\ status' = [q \in Proc |-> IF q \in Range(pend) THEN "EIDRM" ELSE status[q]]
      /\ pc' = [q \in Proc |-> IF q \in Range(pend) /\ pc[q] = "sleep" THEN "awake" ELSE pc[q]]
      /\ pend' = <<>> /\ val' = Zero /\ adj' = [q \in Proc |-> Zero] /\ ledger' = Zero /\ owed' = [q \in Proc |-> Zero]
      /\ seq' = seq /\ arg' = arg /\ sig' = sig
  BY SMT DEF Rmid, ToldRemoved
<1>3. status' \in [Proc -> Status] /\ \A r \in Proc : status'[r] = IF r \in Range(pend) THEN "EIDRM" ELSE status[r]
  BY <1>1, <1>2, SMT DEF VarTypes, Status
<1>4. pc' \in [Proc -> Pc] /\ \A r \in Proc : pc'[r] = IF r \in Range(pend) /\ pc[r] = "sleep" THEN "awake" ELSE pc[r]
  BY <1>1, <1>2, SMT DEF VarTypes, Pc
<1>5. Sound(val, adj, pend, status, arg, pc, semid, un, ledger, owed)
  BY <1>1 DEF Now, Whole
<1>6. Whole(Zero, [r \in Proc |-> Zero], <<>>, status', arg, pc', NoSet, un', Zero, [r \in Proc |-> Zero])
  BY <1>3, <1>4, <1>5, Removal, SMT
<1>7. Numbers'
  <2>1. NoSet \in {NoSet} \cup 0..MaxSeq /\ NoSet < seq /\ seq \in 0..(MaxSeq + 1)
    BY <1>1, MenuAssumption, SMTT(20) DEF Numbers, NoSet
  <2>2. un' \in [Proc -> {NoSet} \cup 0..MaxSeq] /\ \A r \in Proc : un'[r] = NoSet
    BY <1>2, <2>1, SMT
  <2>3. \A r \in Proc : pc'[r] \in Unlocked => pc'[r] = pc[r]
    BY <1>4, SMT DEF Unlocked
  <2>4. sig' \in [Proc -> BOOLEAN]
    BY <1>1, <1>2 DEF Numbers
  <2>5. ASSUME NEW r \in Proc
        PROVE  /\ un'[r] < seq /\ arg'[r].id < seq /\ (pc'[r] = "alloc" => un'[r] = NoSet)
               /\ pc'[r] \in Unlocked => arg'[r].id # NoSet
    BY <1>1, <1>2, <2>1, <2>2, <2>3 DEF Numbers
  <2> QED
    BY <1>2, <2>1, <2>2, <2>4, <2>5 DEF Numbers
<1> QED
  BY <1>2, <1>6, <1>7 DEF Inv

LEMMA SemgetInv ==
  ASSUME SumLaws, Inv, NEW p \in Proc, Semget(p)
  PROVE  Inv'
<1>1. Numbers /\ Now
  BY StateIs
<1>2. /\ semid = NoSet /\ seq <= MaxSeq /\ semid' = seq /\ seq' = seq + 1 /\ val' = Zero /\ pend' = <<>> /\ ledger' = Zero
      /\ owed' = [q \in Proc |-> Zero] /\ pc' = pc /\ arg' = arg /\ status' = status /\ un' = un /\ adj' = adj /\ sig' = sig
  BY SMT DEF Semget
<1>3. /\ seq \in 0..MaxSeq /\ seq + 1 \in 0..(MaxSeq + 1) /\ seq < seq + 1
      /\ \A n \in {NoSet} \cup 0..MaxSeq : n < seq => n < seq + 1 /\ n # seq
  BY <1>1, <1>2, MenuAssumption, SMT DEF Numbers, NoSet
<1>4. \A r \in Proc : un[r] \in {NoSet} \cup 0..MaxSeq /\ arg[r].id \in {NoSet} \cup 0..MaxSeq
  <2>1. arg \in [Proc -> Calls]
    BY StateIs DEF VarTypes
  <2>2. un \in [Proc -> {NoSet} \cup 0..MaxSeq]
    BY <1>1 DEF Numbers
  <2>3. \A r \in Proc : arg[r].id \in {NoSet} \cup 0..MaxSeq
    BY <2>1, SMT DEF Calls
  <2> QED
    BY <2>2, <2>3, SMT
<1>5. \A r \in Proc : un[r] < seq /\ arg[r].id < seq
  BY <1>1 DEF Numbers
<1>6. \A r \in Proc : arg[r].id # seq /\ un[r] # seq /\ un[r] < seq + 1 /\ arg[r].id < seq + 1
  BY <1>3, <1>4, <1>5
<1>7. Sound(val, adj, pend, status, arg, pc, NoSet, un, ledger, owed)
  BY <1>1, <1>2 DEF Now, Whole
<1>8. Whole(Zero, adj, <<>>, status, arg, pc, seq, un, Zero, [r \in Proc |-> Zero])
  <2>1. \A r \in Proc : arg[r].id # seq /\ un[r] # seq
    BY <1>6
  <2> QED
    BY <1>7, <2>1, Creation, SMT
<1>9. Numbers'
  <2>1. seq \in {NoSet} \cup 0..MaxSeq
    BY <1>3, SMT
  <2> QED
    BY <1>1, <1>2, <1>3, <1>6, <2>1 DEF Numbers
<1> QED
  BY <1>2, <1>8, <1>9 DEF Inv

LEMMA SetallCopyInv ==
  ASSUME FiniteLaws, SumLaws
  PROVE  \A p \in Proc :
           /\ Inv
           /\ SetallCopy(p)
           => Inv'
<1>SetallArg. ASSUME NEW vals \in [Sem -> SetVals], semid \in {NoSet} \cup 0..MaxSeq, NEW a,
                     a = [NoArg EXCEPT !.id = semid, !.vals = vals]
              PROVE  a \in Calls /\ a.id = semid
  <2> USE <1>SetallArg
  <2>1. vals \in [Sem -> 0..SEMVMX]
    BY MenuAssumption, SMT
  <2>2. a = [id |-> semid, ops |-> <<>>, vals |-> vals]
    BY DEF NoArg
  <2> QED
    BY <2>1, <2>2, SMT DEF Calls
<1> SUFFICES ASSUME NEW p \in Proc, Inv, SetallCopy(p)
             PROVE  Inv'
  OBVIOUS
<1>1. /\ Numbers /\ Now /\ VarTypes /\ sig \in [Proc -> BOOLEAN] /\ un \in [Proc -> {NoSet} \cup 0..MaxSeq]
      /\ semid \in {NoSet} \cup 0..MaxSeq
  BY StateIs
<1>2. PICK vals \in [Sem -> SetVals] : arg' = [arg EXCEPT ![p] = [NoArg EXCEPT !.id = semid, !.vals = vals]]
  BY DEF SetallCopy
<1>3. /\ pc[p] = "user" /\ semid # NoSet /\ pc' = PcOf(p, "setall")
      /\ semid' = semid /\ seq' = seq /\ val' = val /\ pend' = pend /\ status' = status
      /\ un' = un /\ adj' = adj /\ sig' = sig /\ ledger' = ledger /\ owed' = owed
  BY SMT DEF SetallCopy, PcOf
<1> DEFINE a == [NoArg EXCEPT !.id = semid, !.vals = vals]
<1>5. a \in Calls /\ a.id = semid
  BY <1>1, <1>SetallArg
<1>6. arg' = [arg EXCEPT ![p] = a]
  BY <1>2
<1> HIDE DEF a
<1>7. arg' \in [Proc -> Calls] /\ Besides(p, arg', arg) /\ arg'[p] = a
  BY <1>1, <1>5, <1>6, SMT DEF VarTypes, Besides
<1>8. "setall" \in Pc /\ "setall" \notin InCall /\ "setall" # "alloc" /\ pc[p] \notin InCall
  BY <1>3, SMT DEF Pc, InCall
<1>9. pc' \in [Proc -> Pc] /\ Besides(p, pc', pc) /\ pc'[p] = "setall"
  BY <1>1, <1>3, <1>8, RunIs
<1>10. Leaves(p, status, arg, pc, status, arg', pc')
  BY <1>1, <1>7, <1>8, <1>9 DEF Leaves, VarTypes, Besides
<1>11. Whole(val, adj, pend, status, arg', pc', semid, un, ledger, owed)
  BY <1>1, <1>8, <1>10, LeaveWhole DEF Now
<1>12. NoneNew(p, pc') /\ Besides(p, un', un)
  BY <1>3, <1>9 DEF NoneNew, Besides
<1>13. un'[p] \in {NoSet, semid, un[p]} /\ arg'[p].id \in {NoSet, semid, arg[p].id} /\ arg'[p].id # NoSet
  BY <1>3, <1>5, <1>7, SMT
<1>14. Numbers'
  BY <1>1, <1>3, <1>7, <1>8, <1>9, <1>12, <1>13, NumbersStep
<1> QED
  BY <1>3, <1>11, <1>14 DEF Inv

LEMMA DoneIs ==
  /\ Done = DoneIn(status, arg, pc, semid)
  /\ \A s : Unreturned(s) = Added(arg, DoneIn(status, arg, pc, semid), s)
  /\ \A p, s : UndoUnreturned(p, s) = Owing(arg, DoneIn(status, arg, pc, semid), p, s)
<1>1. Done = DoneIn(status, arg, pc, semid)
  BY DEF Done, DoneIn, InCall
<1> QED
  BY <1>1 DEF Unreturned, UndoUnreturned, Added, Owing

LEMMA NotDone ==
  ASSUME NEW p, NEW st, NEW A, NEW P, NEW id, P[p] \notin InCall \/ st[p] # "ok" \/ A[p].id # id
  PROVE  p \notin DoneIn(st, A, P, id)
BY DEF DoneIn

LEMMA SetValuesInv ==
  ASSUME LoopLaw, FiniteLaws, SumLaws, WithoutLaw, WithoutOrder
  PROVE  \A ss :
         \A p \in Proc, w \in [Sem -> Nat] :
           /\ Inv
           /\ pc[p] \notin InCall
           /\ semid # NoSet
           /\ SetValues(p, ss, w)
           /\ UNCHANGED <<semid, seq, un>>
           => Inv'
<1>SetIs. ASSUME Inv, NEW ss, NEW w \in [Sem -> Nat], NEW v2,
                 v2 = [s \in Sem |-> IF s \in ss THEN w[s] ELSE val[s]],
                 ledger' = [s \in Sem |-> IF s \in ss THEN w[s] - Unreturned(s) ELSE ledger[s]],
                 owed' = [q \in Proc |-> [s \in Sem |-> IF s \in ss THEN Short(-UndoUnreturned(q, s)) ELSE owed[q][s]]]
          PROVE  Sets(ss, w, val, adj, arg, DoneIn(status, arg, pc, semid), semid, un, ledger, owed, v2, Forget(ss), ledger', owed')
  <2> USE <1>SetIs
  <2> DEFINE D == DoneIn(status, arg, pc, semid)
  <2>1. VarTypes /\ GhostTypes /\ val \in [Sem -> Nat] /\ adj \in [Proc -> [Sem -> Shorts]]
    BY StateIs
  <2>2. (\A s : Unreturned(s) = Added(arg, D, s)) /\ (\A r, s : UndoUnreturned(r, s) = Owing(arg, D, r, s))
    BY DoneIs
  <2>3. D \in SUBSET Proc
    BY SMT DEF DoneIn
  <2>4. IsCalls(arg)
    BY <2>1, CallsAre DEF VarTypes
  <2> HIDE DEF D
  <2>5. \A s \in Sem : Unreturned(s) \in Int
    BY <2>2, <2>3, <2>4, AddedIs
  <2>6. \A r \in Proc, s \in Sem : Short(-UndoUnreturned(r, s)) \in Shorts
    <3> SUFFICES ASSUME NEW r \in Proc, NEW s \in Sem PROVE Short(-UndoUnreturned(r, s)) \in Shorts
      OBVIOUS
    <3>1. UndoDelta(arg[r].ops, s) \in Int
      <4>1. AllNumbers /\ arg[r].ops \in Seq(Sembuf)
        BY <2>4 DEF IsCalls, FiniteLaws
      <4> QED
        BY <4>1, Parts
    <3>2. UndoUnreturned(r, s) \in Int
      <4>1. 0 \in Int
        BY SMT
      <4> QED
        BY <2>2, <3>1, <4>1 DEF Owing
    <3>3. -UndoUnreturned(r, s) \in Int
      BY <3>2, SMT
    <3> QED
      BY <3>3, ShortIs
  <2>7. v2 \in [Sem -> Nat] /\ \A s \in Sem : v2[s] = IF s \in ss THEN w[s] ELSE val[s]
    BY <2>1, SMT
  <2>8. ledger' \in [Sem -> Int] /\ \A s \in Sem : ledger'[s] = IF s \in ss THEN w[s] - Unreturned(s) ELSE ledger[s]
    <3>1. \A s \in Sem : w[s] - Unreturned(s) \in Int
      <4> SUFFICES ASSUME NEW s \in Sem PROVE w[s] - Unreturned(s) \in Int
        OBVIOUS
      <4>1. w[s] \in Int /\ Unreturned(s) \in Int
        BY <2>5, SMT
      <4> QED
        BY <4>1, SMT
    <3>2. \A s \in Sem : ledger[s] \in Int
      BY <2>1, SMT DEF GhostTypes
    <3> QED
      BY <3>1, <3>2
  <2>9. owed' \in [Proc -> [Sem -> Shorts]] /\ \A r \in Proc, s \in Sem :
             owed'[r][s] = IF s \in ss THEN Short(-UndoUnreturned(r, s)) ELSE owed[r][s]
    <3>1. \A r \in Proc : \A s \in Sem : owed[r][s] \in Shorts
      BY <2>1, SMT DEF GhostTypes
    <3>2. \A r \in Proc : \A s \in Sem : (IF s \in ss THEN Short(-UndoUnreturned(r, s)) ELSE owed[r][s]) \in Shorts
      BY <2>6, <3>1
    <3>3. \A r \in Proc : [s \in Sem |-> IF s \in ss THEN Short(-UndoUnreturned(r, s)) ELSE owed[r][s]] \in [Sem -> Shorts]
      BY <3>2
    <3>4. \A r \in Proc : owed'[r] = [s \in Sem |-> IF s \in ss THEN Short(-UndoUnreturned(r, s)) ELSE owed[r][s]]
      OBVIOUS
    <3> QED
      BY <3>3, <3>4
  <2>10. Forget(ss) \in [Proc -> [Sem -> Shorts]] /\ \A r \in Proc, s \in Sem :
             Forget(ss)[r][s] = IF un[r] = semid /\ s \in ss THEN 0 ELSE adj[r][s]
    <3>1. \A r \in Proc : \A s \in Sem : adj[r][s] \in Shorts /\ 0 \in Shorts
      BY <2>1, SEMVMXAssumption, SMT DEF Shorts
    <3>2. \A r \in Proc : \A s \in Sem : (IF un[r] = semid /\ s \in ss THEN 0 ELSE adj[r][s]) \in Shorts
      BY <3>1
    <3>3. \A r \in Proc : [s \in Sem |-> IF un[r] = semid /\ s \in ss THEN 0 ELSE adj[r][s]] \in [Sem -> Shorts]
      BY <3>2
    <3>4. Forget(ss) = [r \in Proc |-> [s \in Sem |-> IF un[r] = semid /\ s \in ss THEN 0 ELSE adj[r][s]]]
      BY DEF Forget
    <3> QED
      BY <3>3, <3>4
  <2>11. Sets(ss, w, val, adj, arg, D, semid, un, ledger, owed, v2, Forget(ss), ledger', owed')
    BY <2>2, <2>7, <2>8, <2>9, <2>10 DEF Sets
  <2> QED
    BY <2>11 DEF D
<1> SUFFICES ASSUME NEW ss, NEW p \in Proc, NEW w \in [Sem -> Nat], Inv, pc[p] \notin InCall,
                    semid # NoSet, SetValues(p, ss, w), UNCHANGED <<semid, seq, un>>
             PROVE  Inv'
  OBVIOUS
<1> DEFINE v2 == [s \in Sem |-> IF s \in ss THEN w[s] ELSE val[s]]
           S == [State EXCEPT !.val = v2, !.adj = Forget(ss)]
           U == UpdateQueue(S)
<1>1. /\ Numbers /\ Now /\ VarTypes /\ sig \in [Proc -> BOOLEAN] /\ State \in Queues
      /\ State.val = val /\ State.adj = adj /\ State.pend = pend /\ State.status = status /\ ~State.stop
  BY StateIs
<1>2. /\ Install(U) /\ Return(U, p)
      /\ ledger' = [s \in Sem |-> IF s \in ss THEN w[s] - Unreturned(s) ELSE ledger[s]]
      /\ owed' = [q \in Proc |-> [s \in Sem |-> IF s \in ss THEN Short(-UndoUnreturned(q, s)) ELSE owed[q][s]]]
  BY DEF SetValues
<1>3. semid' = semid /\ seq' = seq /\ un' = un
  BY SMT
<1>4. Sets(ss, w, val, adj, arg, DoneIn(status, arg, pc, semid), semid, un, ledger, owed, v2, Forget(ss), ledger', owed')
  <2> HIDE DEF S, U
  <2> QED
    BY <1>2, <1>SetIs, SMT
<1>5. S \in Queues /\ ~S.stop /\ S.status = status /\ S.val = v2 /\ S.adj = Forget(ss) /\ S.pend = pend
  <2>1. v2 \in [Sem -> Nat] /\ Forget(ss) \in [Proc -> [Sem -> Shorts]]
    BY <1>4 DEF Sets
  <2> HIDE DEF v2
  <2> QED
    BY <1>1, <2>1 DEF Queues
<1> HIDE DEF v2, S, U
<1>6. Sound(v2, Forget(ss), pend, status, arg, pc, semid, un, ledger', owed')
  <2>1. Sound(val, adj, pend, status, arg, pc, semid, un, ledger, owed)
    BY <1>1 DEF Now, Whole
  <2> QED
    BY <1>4, <2>1, SetSound, SMT
<1>7. Sound(v2, Forget(ss), pend, StatusOf(p), ArgOf(p), PcOf(p, "user"), semid, un, ledger', owed')
  <2>1. Leaves(p, status, arg, pc, StatusOf(p), ArgOf(p), PcOf(p, "user"))
    BY <1>1, LeftIs
  <2>2. OutOf(pend, pend, p) /\ p \notin DoneIn(status, arg, pc, semid)
    BY <1>6, OutsideQueue
  <2> QED
    BY <1>6, <2>1, <2>2, Leave
<1>8. Sound(S.val, S.adj, S.pend, StatusOf(p), ArgOf(p), PcOf(p, "user"), semid, un, ledger', owed')
  BY <1>5, <1>7
<1>9. Whole(U.val, U.adj, U.pend, status', arg', pc', semid, un, ledger', owed')
  <2>1. U = UpdateQueue(S)
    BY DEF U
  <2> QED
    BY <1>1, <1>2, <1>5, <1>8, <2>1, UpdateReturn
<1>10. Counted(p, semid)
  BY <1>1, <1>2, ReturnCounted
<1>11. Numbers'
  BY <1>1, <1>3, <1>10, CountedStep
<1>12. val' = U.val /\ adj' = U.adj /\ pend' = U.pend
  BY <1>2 DEF Install
<1> QED
  BY <1>3, <1>9, <1>11, <1>12 DEF Inv

LEMMA SetvalInv ==
  ASSUME LoopLaw, FiniteLaws, SumLaws, WithoutLaw, WithoutOrder, Inv, NEW p \in Proc, Setval(p)
  PROVE  Inv'
<1>1. pc[p] = "user" /\ semid # NoSet /\ UNCHANGED <<semid, seq, un>>
  BY DEF Setval
<1>2. PICK s \in Sem, v \in SetVals : SetValues(p, {s}, [Zero EXCEPT ![s] = v])
  BY DEF Setval
<1>3. v \in Nat
  BY MenuAssumption, SEMVMXAssumption, SMT
<1>4. [Zero EXCEPT ![s] = v] \in [Sem -> Nat]
  BY <1>3, SMT DEF Zero
<1>5. pc[p] \notin InCall
  BY <1>1, SMT DEF InCall
<1> QED
  BY <1>1, <1>2, <1>4, <1>5, SetValuesInv

LEMMA SetallStoreInv ==
  ASSUME LoopLaw, FiniteLaws, SumLaws, WithoutLaw, WithoutOrder, Inv, NEW p \in Proc, SetallStore(p)
  PROVE  Inv'
<1>1. pc[p] = "setall" /\ UNCHANGED <<semid, seq, un>>
  BY DEF SetallStore
<1>2. pc[p] \notin InCall /\ pc[p] \in Unlocked
  BY <1>1, SMT DEF InCall, Unlocked
<1>3. CASE Return(State, p) /\ UNCHANGED <<val, adj, pend, ledger, owed>>
  <2>1. UNCHANGED <<semid, seq, val, adj, pend, un, ledger, owed>>
    BY <1>1, <1>3, SMT
  <2> QED
    BY <1>2, <1>3, <2>1, OnlyReturns
<1>4. CASE Revalidate(p) /\ SetValues(p, Sem, arg[p].vals)
  <2>1. arg[p].id # NoSet /\ arg \in [Proc -> Calls]
    BY <1>2, StateIs DEF Numbers, VarTypes
  <2>2. semid # NoSet
    BY <1>4, <2>1 DEF Revalidate
  <2>3. arg[p].vals \in [Sem -> 0..SEMVMX]
    BY <2>1, SMT DEF Calls
  <2>4. arg[p].vals \in [Sem -> Nat]
    BY <2>3, SEMVMXAssumption, SMT
  <2> QED
    BY <1>1, <1>2, <1>4, <2>2, <2>4, SetValuesInv
<1> QED
  BY <1>3, <1>4 DEF SetallStore

Adjusts(p, w, led2) ==
    w = [s \in Sem |-> Adjusted(p, s)] /\ led2 = [s \in Sem |-> ledger[s] + w[s] - val[s]]

LEMMA ExitInv ==
  ASSUME LoopLaw, FiniteLaws, SumLaws, WithoutLaw, WithoutOrder
  PROVE  \A p \in Proc :
           /\ Inv
           /\ Exit(p)
           => Inv'
(* p is gone: its undo structure is, and nothing is owed for it.         *)
<1>Gone. ASSUME NEW p \in Proc, NEW v, NEW ad, NEW q, NEW st, NEW A, NEW P, NEW id, NEW u,
                NEW led, NEW ow, NEW ad2 \in [Proc -> [Sem -> Shorts]], NEW u2,
                NEW ow2 \in [Proc -> [Sem -> Shorts]], Besides(p, ad2, ad), Besides(p, u2, u),
                Besides(p, ow2, ow), OwesNone(ow2, p), u2[p] = NoSet, P[p] \notin InCall,
                Whole(v, ad, q, st, A, P, id, u, led, ow)
         PROVE  Whole(v, ad2, q, st, A, P, id, u2, led, ow2)
  <2> USE <1>Gone
  <2>1. Sound(v, ad, q, st, A, P, id, u, led, ow) /\ Types(v, ad, q, st, A, P, led, ow)
    BY DEF Whole, Sound
  <2>2. id # NoSet => Clean(ad2, ow2, u2, id, p)
    BY DEF Clean, OwesNone
  <2>3. Changes(p, v, ad, u, id, led, ow, v, ad2, u2, led, ow2)
    BY <2>1, <2>2 DEF Changes, Types, Shifts
  <2>4. Sound(v, ad2, q, st, A, P, id, u2, led, ow2)
    BY <2>1, <2>3, Alone, SMT
  <2> QED
    BY <2>4 DEF Whole
<1>ExitAdjusts. \A w, led2, U :
                \A p \in Proc :
                  /\ Inv
                  /\ pc[p] \notin InCall
                  /\ semid # NoSet
                  /\ Adjusts(p, w, led2)
                  /\ U = UpdateQueue([State EXCEPT !.val = w])
                  => U \in Queues /\ Whole(U.val, U.adj, U.pend, U.status, arg, Run(U, p, "dead"), semid, un, led2, owed)
  <2>OutsideClean. ASSUME NEW p \in Proc, NEW v, NEW ad, NEW q, NEW st, NEW A, NEW P, NEW id,
                          id # NoSet, NEW u, NEW led, NEW ow,
                          Sound(v, ad, q, st, A, P, id, u, led, ow), P[p] \notin InCall
                   PROVE  Clean(ad, ow, u, id, p)
    <3> USE <2>OutsideClean
    <3>1. p \notin DoneIn(st, A, P, id)
      BY NotDone
    <3>2. UndoOne(ad, ow, u, id, A, DoneIn(st, A, P, id), p)
      BY DEF Sound, UndoOK
    <3>3. \A s : Owing(A, DoneIn(st, A, P, id), p, s) = 0
      BY <3>1 DEF Owing
    <3> QED
      BY <3>2, <3>3 DEF UndoOne, Clean, Owes
  <2>AdjustedIs. ASSUME NEW p \in Proc, val \in [Sem -> Nat], adj \in [Proc -> [Sem -> Shorts]],
                        ledger \in [Sem -> Int], NEW w, NEW led2, Adjusts(p, w, led2)
                 PROVE  w \in [Sem -> Nat] /\ led2 \in [Sem -> Int] /\ Shifts(val, ledger, w, led2)
    <3> USE <2>AdjustedIs
    <3>1. \A s \in Sem : adj[p][s] \in Int
      BY ShortId
    <3>2. \A s \in Sem : w[s] \in Nat
      <4> SUFFICES ASSUME NEW s \in Sem PROVE Adjusted(p, s) \in Nat
        BY DEF Adjusts
      <4> DEFINE a == adj[p][s]
      <4>1. a \in Int /\ val[s] \in Nat
        BY <3>1, SMT
      <4>2. Adjusted(p, s) = IF val[s] + a < 0 THEN 0 ELSE val[s] + a
        BY DEF Adjusted
      <4> HIDE DEF a
      <4> QED
        BY <4>1, <4>2, SMT
    <3>3. w \in [Sem -> Nat]
      BY <3>2 DEF Adjusts
    <3>4. \A s \in Sem : val[s] \in Int /\ ledger[s] \in Int /\ w[s] \in Int
      BY <3>3, SMT
    <3>5. \A s \in Sem : led2[s] = ledger[s] + w[s] - val[s]
      BY DEF Adjusts
    <3>6. \A s \in Sem : led2[s] \in Int /\ w[s] - led2[s] = val[s] - ledger[s]
      <4> SUFFICES ASSUME NEW s \in Sem PROVE led2[s] \in Int /\ w[s] - led2[s] = val[s] - ledger[s]
        OBVIOUS
      <4> DEFINE a == val[s]
                 b == ledger[s]
                 c == w[s]
                 d == led2[s]
      <4>1. a \in Int /\ b \in Int /\ c \in Int /\ d = b + c - a
        BY <3>4, <3>5
      <4> HIDE DEF a, b, c, d
      <4>2. d \in Int /\ c - d = a - b
        BY <4>1, SMT
      <4> QED
        BY <4>2 DEF a, b, c, d
    <3>7. led2 \in [Sem -> Int]
      BY <3>6 DEF Adjusts
    <3> QED
      BY <3>3, <3>6, <3>7 DEF Shifts
  <2> SUFFICES ASSUME NEW w, NEW led2, NEW U, NEW p \in Proc, Inv, pc[p] \notin InCall,
                      semid # NoSet, Adjusts(p, w, led2), U = UpdateQueue([State EXCEPT !.val = w])
               PROVE  U \in Queues /\ Whole(U.val, U.adj, U.pend, U.status, arg, Run(U, p, "dead"), semid, un, led2, owed)
    OBVIOUS
  <2> DEFINE S == [State EXCEPT !.val = w]
  <2>1. /\ Now /\ VarTypes /\ GhostTypes /\ State \in Queues /\ val \in [Sem -> Nat] /\ adj \in [Proc -> [Sem -> Shorts]]
        /\ State.val = val /\ State.adj = adj /\ State.pend = pend /\ State.status = status /\ ~State.stop
    BY StateIs
  <2>2. w \in [Sem -> Nat] /\ led2 \in [Sem -> Int] /\ Shifts(val, ledger, w, led2)
    BY <2>1, <2>AdjustedIs DEF GhostTypes
  <2>3. S \in Queues /\ ~S.stop /\ S.status = status /\ S.val = w /\ S.adj = adj /\ S.pend = pend
    BY <2>1, <2>2 DEF Queues
  <2>4. U = UpdateQueue(S)
    BY SMT
  <2> HIDE DEF S
  <2>5. "dead" \in Pc /\ "dead" \notin InCall
    BY SMT DEF Pc, InCall
  <2>6. /\ PcOf(p, "dead") \in [Proc -> Pc] /\ Besides(p, PcOf(p, "dead"), pc) /\ PcOf(p, "dead")[p] = "dead"
        /\ Run(U, p, "dead") \in [Proc -> Pc] /\ Wakes(PcOf(p, "dead"), U, Run(U, p, "dead"))
    BY <2>1, <2>5, RunIs
  <2>7. Leaves(p, status, arg, pc, status, arg, PcOf(p, "dead"))
    BY <2>1, <2>5, <2>6 DEF Leaves, VarTypes, Besides
  <2>8. Sound(val, adj, pend, status, arg, PcOf(p, "dead"), semid, un, ledger, owed)
    <3>1. Whole(val, adj, pend, status, arg, PcOf(p, "dead"), semid, un, ledger, owed)
      BY <2>1, <2>7, LeaveWhole DEF Now
    <3> QED
      BY <3>1 DEF Whole
  <2>9. Clean(adj, owed, un, semid, p)
    BY <2>5, <2>6, <2>8, <2>OutsideClean
  <2>10. Changes(p, val, adj, un, semid, ledger, owed, w, adj, un, led2, owed)
    BY <2>1, <2>2, <2>9 DEF Changes, Besides, GhostTypes
  <2>11. Sound(S.val, S.adj, S.pend, status, arg, PcOf(p, "dead"), semid, un, led2, owed)
    <3>1. Sound(w, adj, pend, status, arg, PcOf(p, "dead"), semid, un, led2, owed)
      BY <2>5, <2>6, <2>8, <2>10, Alone, SMT
    <3> QED
      BY <2>3, <3>1
  <2>12. IsCalls(arg)
    BY <2>1, CallsAre DEF VarTypes
  <2>13. Agrees(arg, arg, PcOf(p, "dead")) /\ Agrees(status, S.status, PcOf(p, "dead")) /\ Agrees(U.status, U.status, PcOf(p, "dead"))
    BY <2>3 DEF Agrees
  <2>14. Ready(S, arg)
    BY <2>3, <2>11, <2>13, SoundReady
  <2>15. U \in Queues
    BY <2>4, <2>12, <2>14, QueueUpdated DEF Updated
  <2>16. U.status \in [Proc -> Status]
    BY <2>15 DEF Queues
  <2>17. Whole(U.val, U.adj, U.pend, U.status, arg, Run(U, p, "dead"), semid, un, led2, owed)
    BY <2>3, <2>4, <2>6, <2>11, <2>12, <2>13, <2>16, Update
  <2> QED
    BY <2>15, <2>17
<1> SUFFICES ASSUME NEW p \in Proc, Inv, Exit(p)
             PROVE  Inv'
  OBVIOUS
<1> DEFINE w == [s \in Sem |-> Adjusted(p, s)]
           led2 == [s \in Sem |-> ledger[s] + w[s] - val[s]]
           U == UpdateQueue([State EXCEPT !.val = w])
<1>1. /\ Numbers /\ Now /\ VarTypes /\ GhostTypes /\ adj \in [Proc -> [Sem -> Shorts]]
      /\ un \in [Proc -> {NoSet} \cup 0..MaxSeq]
  BY StateIs
<1>2. /\ pc[p] = "user" /\ un' = [un EXCEPT ![p] = NoSet] /\ owed' = [owed EXCEPT ![p] = Zero]
      /\ semid' = semid /\ seq' = seq /\ arg' = arg /\ sig' = sig
  BY SMT DEF Exit
<1>3. pc[p] \notin InCall
  BY <1>2, SMT DEF InCall
<1>4. "dead" \in Pc /\ "dead" \notin InCall /\ "dead" \notin Unlocked /\ "dead" # "alloc"
  BY SMT DEF Pc, InCall, Unlocked
<1>5. un' \in [Proc -> {NoSet} \cup 0..MaxSeq] /\ Besides(p, un', un) /\ un'[p] = NoSet
  BY <1>1, <1>2, SMT DEF Besides
<1>6. owed' \in [Proc -> [Sem -> Shorts]] /\ Besides(p, owed', owed) /\ owed'[p] = Zero
  BY <1>1, <1>2, ZeroIs, SMT DEF Besides, GhostTypes
<1>7. OwesNone(owed', p)
  BY <1>6, ZeroIs DEF OwesNone
<1>8. \/ /\ semid # NoSet /\ Install([U EXCEPT !.adj[p] = Zero]) /\ status' = U.status /\ pc' = Run(U, p, "dead") /\ ledger' = led2
      \/ /\ pc' = PcOf(p, "dead") /\ val' = val /\ adj' = adj /\ pend' = pend /\ status' = status /\ ledger' = ledger
  BY SMT DEF Exit, PcOf
<1>9. Adjusts(p, w, led2) /\ U = UpdateQueue([State EXCEPT !.val = w])
  BY DEF Adjusts
<1> HIDE DEF w, led2, U
<1>10. Numbers'
  <2>1. pc' = Run(U, p, "dead") \/ pc' = PcOf(p, "dead")
    BY <1>8
  <2>2. NoneNew(p, pc') /\ pc'[p] = "dead"
    <3>1. /\ Besides(p, PcOf(p, "dead"), pc) /\ PcOf(p, "dead")[p] = "dead"
          /\ NoneNew(p, Run(U, p, "dead")) /\ Run(U, p, "dead")[p] = "dead"
      BY <1>1, <1>4, RunIs
    <3>2. NoneNew(p, PcOf(p, "dead"))
      BY <3>1 DEF NoneNew, Besides
    <3> QED
      BY <2>1, <3>1, <3>2
  <2>3. un'[p] \in {NoSet, semid, un[p]} /\ arg'[p].id \in {NoSet, semid, arg[p].id}
    BY <1>2, <1>5, SMT
  <2>4. sig' \in [Proc -> BOOLEAN] /\ Besides(p, arg', arg)
    BY <1>1, <1>2 DEF Numbers, Besides
  <2> QED
    BY <1>1, <1>2, <1>4, <1>5, <2>2, <2>3, <2>4, NumbersStep
<1>11. CASE /\ semid # NoSet /\ Install([U EXCEPT !.adj[p] = Zero]) /\ status' = U.status
            /\ pc' = Run(U, p, "dead") /\ ledger' = led2
  <2>1. U \in Queues /\ Whole(U.val, U.adj, U.pend, status', arg, pc', semid, un, ledger', owed)
    BY <1>3, <1>9, <1>11, <1>ExitAdjusts
  <2>2. U.adj \in [Proc -> [Sem -> Shorts]]
    BY <2>1 DEF Queues
  <2>3. val' = U.val /\ adj' = [U.adj EXCEPT ![p] = Zero] /\ pend' = U.pend
    BY <1>11, <2>1, SMTT(20) DEF Install, Queues
  <2>4. adj' \in [Proc -> [Sem -> Shorts]] /\ Besides(p, adj', U.adj)
    BY <2>2, <2>3, ZeroIs, SMT DEF Besides
  <2>5. pc'[p] \notin InCall
    BY <1>1, <1>4, <1>11, RunIs
  <2>6. Whole(U.val, adj', U.pend, status', arg, pc', semid, un', ledger', owed')
    BY <1>5, <1>6, <1>7, <2>1, <2>4, <2>5, <1>Gone, SMT
  <2> QED
    BY <1>2, <1>10, <2>3, <2>6 DEF Inv
<1>12. CASE pc' = PcOf(p, "dead") /\ val' = val /\ adj' = adj /\ pend' = pend /\ status' = status /\ ledger' = ledger
  <2>1. pc' \in [Proc -> Pc] /\ Besides(p, pc', pc) /\ pc'[p] = "dead"
    BY <1>1, <1>4, <1>12, RunIs
  <2>2. Leaves(p, status, arg, pc, status, arg, pc')
    BY <1>1, <1>4, <2>1 DEF Leaves, VarTypes, Besides
  <2>3. Whole(val, adj, pend, status, arg, pc', semid, un, ledger, owed)
    BY <1>1, <1>3, <2>2, LeaveWhole DEF Now
  <2>4. Besides(p, adj, adj) /\ pc'[p] \notin InCall
    BY <1>4, <2>1 DEF Besides
  <2>5. Whole(val, adj, pend, status, arg, pc', semid, un', ledger, owed')
    BY <1>1, <1>5, <1>6, <1>7, <2>3, <2>4, <1>Gone, SMT
  <2> QED
    BY <1>2, <1>10, <1>12, <2>5 DEF Inv
<1> QED
  BY <1>8, <1>11, <1>12

-----------------------------------------------------------------------------
(***************************************************************************)
(* Resume: p has returned from schedule().                                 *)
(***************************************************************************)
LEMMA LeaveIdle ==
  ASSUME FiniteLaws, SumLaws, NEW p \in Proc, NEW v, NEW ad, NEW q,
         NEW st, NEW A, NEW P, NEW st2, NEW A2, NEW P2, Leaves(p, st, A, P, st2, A2, P2), NEW id, NEW u, NEW led, NEW ow,
         Whole(v, ad, q, st, A, P, id, u, led, ow), p \notin Range(q), id = NoSet \/ p \notin DoneIn(st, A, P, id)
  PROVE  Whole(v, ad, q, st2, A2, P2, id, u, led, ow)
<1>1. /\ Sound(v, ad, q, st, A, P, id, u, led, ow) /\ ZeroOK(v, q, A) /\ (MenuMild => FirstOK(v, q, st, A))
      /\ Types(v, ad, q, st, A, P, led, ow)
  BY DEF Whole, Sound
<1>2. q \in Seq(Proc) /\ NoRepeat(q)
  BY <1>1 DEF Types
<1>3. OutOf(q, q, p)
  BY <1>2, OutOfSame
<1>4. Sound(v, ad, q, st2, A2, P2, id, u, led, ow)
  <2>1. CASE id = NoSet
    <3>1. QueuedOK(q, st, A, P, id) /\ InCallOK(q, st, A, P, id, u) /\ ZeroFirst(q, A)
      BY <1>1 DEF Sound
    <3>2. QueuedOK(q, st2, A2, P2, id) /\ InCallOK(q, st2, A2, P2, id, u) /\ ZeroFirst(q, A2)
      BY <1>3, <3>1, LeaveShape
    <3>3. Types(v, ad, q, st2, A2, P2, led, ow)
      BY <1>1 DEF Types, Leaves
    <3> QED
      BY <2>1, <3>2, <3>3 DEF Sound
  <2>2. CASE p \notin DoneIn(st, A, P, id)
    BY <1>1, <1>3, <2>2, Leave
  <2> QED
    BY <2>1, <2>2
<1>5. (ZeroOK(v, q, A) => ZeroOK(v, q, A2)) /\ (FirstOK(v, q, st, A) => FirstOK(v, q, st2, A2))
  BY <1>2, <1>3, LeaveServed
<1> QED
  BY <1>1, <1>4, <1>5 DEF Whole

(* A process that has to retry is still on the queue.                      *)
LEMMA Retrier ==
  ASSUME Inv, NEW p \in Proc, pc[p] = "awake", status[p] \in {"EINTR", "retry"}
  PROVE  /\ p \in Range(pend) /\ arg[p].id = semid /\ semid # NoSet
         /\ Undos(arg[p].ops) => un[p] = semid
         /\ status[p] = "retry" => Alter(arg[p].ops)
<1>1. Sound(val, adj, pend, status, arg, pc, semid, un, ledger, owed)
  BY StateIs DEF Now, Whole
<1>2. pc[p] \in InCall
  BY SMT DEF InCall
<1>3. InCallOne(pend, status, arg, pc, semid, un, p)
  BY <1>1, <1>2 DEF Sound, InCallOK
<1>4. p \in Range(pend)
  BY <1>3 DEF InCallOne
<1>5. QueuedOne(status, arg, pc, semid, p)
  BY <1>1, <1>4 DEF Sound, QueuedOK
<1>6. Decrease(arg[p].ops) => Alter(arg[p].ops)
  BY SMT DEF Decrease, Alter
<1> QED
  BY <1>3, <1>4, <1>5, <1>6 DEF QueuedOne, InCallOne

(* p takes itself off the queue.                                           *)
LEMMA Unqueued ==
  ASSUME FiniteLaws, SumLaws, WithoutLaw, WithoutOrder, Inv, NEW p \in Proc, status[p] # "ok",
         NEW S, S = [State EXCEPT !.pend = Without(@, {p})]
  PROVE  /\ S \in Queues /\ ~S.stop /\ S.status = status /\ S.woken = {} /\ S.val = val /\ S.adj = adj
         /\ Sound(S.val, S.adj, S.pend, StatusOf(p), ArgOf(p), PcOf(p, "user"), semid, un, ledger, owed)
         /\ Alter(arg[p].ops) \/ Served(S.val, S.pend, StatusOf(p), ArgOf(p))
<1>1. /\ Now /\ VarTypes /\ State \in Queues /\ State.val = val /\ State.adj = adj /\ State.pend = pend
      /\ State.status = status /\ ~State.stop /\ State.woken = {} /\ pend \in Seq(Proc) /\ NoRepeat(pend)
  BY StateIs
<1> DEFINE q2 == Without(pend, {p})
<1>2. OutOf(pend, q2, p)
  BY <1>1, OutOfWithout
<1>3. S = [State EXCEPT !.pend = q2] /\ q2 \in Seq(Proc)
  BY <1>1, <1>2 DEF OutOf
<1> HIDE DEF q2
<1>4. S \in Queues /\ ~S.stop /\ S.status = status /\ S.woken = {} /\ S.val = val /\ S.adj = adj /\ S.pend = q2
  BY <1>1, <1>3 DEF Queues
<1>5. Leaves(p, status, arg, pc, StatusOf(p), ArgOf(p), PcOf(p, "user"))
  BY <1>1, LeftIs
<1>6. Sound(val, adj, q2, StatusOf(p), ArgOf(p), PcOf(p, "user"), semid, un, ledger, owed)
  <2>1. Sound(val, adj, pend, status, arg, pc, semid, un, ledger, owed) /\ p \notin DoneIn(status, arg, pc, semid)
    BY <1>1, NotDone DEF Now, Whole
  <2> QED
    BY <1>2, <1>5, <2>1, Leave
<1>7. Alter(arg[p].ops) \/ Served(val, q2, StatusOf(p), ArgOf(p))
  <2>1. CASE ~Alter(arg[p].ops)
    <3>1. /\ ZeroOK(val, pend, arg) => ZeroOK(val, q2, ArgOf(p))
          /\ FirstOK(val, pend, status, arg) => FirstOK(val, q2, StatusOf(p), ArgOf(p))
      BY <1>1, <1>2, <1>5, <2>1, LeaveServed
    <3> QED
      BY <1>1, <3>1 DEF Now, Whole, Served
  <2> QED
    BY <2>1
<1> QED
  BY <1>4, <1>6, <1>7

LEMMA ResumeInv ==
  ASSUME LoopLaw, FiniteLaws, SumLaws, WithoutLaw, WithoutOrder
  PROVE  \A p \in Proc :
           /\ Inv
           /\ Resume(p)
           => Inv'
<1>ResumeRemoved. ASSUME Inv, NEW p \in Proc, semid = NoSet, Install(State),
                         IF status[p] = "EIDRM" THEN Return(State, p) ELSE pc' = [pc EXCEPT ![p] = "dead"] /\ UNCHANGED <<status, arg, sig>>,
                         UNCHANGED_ghosts
                  PROVE  WholeNext(semid, un) /\ Counted(p, semid)
  <2> USE <1>ResumeRemoved
  <2>1. /\ Numbers /\ Now /\ VarTypes /\ sig \in [Proc -> BOOLEAN] /\ State.val = val /\ State.adj = adj
        /\ State.pend = pend /\ State.status = status /\ State.woken = {}
    BY StateIs
  <2>2. p \notin Range(pend)
    BY <2>1 DEF Now, Whole, Sound, QueuedOK, QueuedOne
  <2>3. val' = val /\ adj' = adj /\ pend' = pend /\ ledger' = ledger /\ owed' = owed
    BY <2>1, SMT DEF Install, UNCHANGED_ghosts
  <2>4. Leaves(p, status, arg, pc, status', arg', pc') /\ Counted(p, semid)
    <3>1. CASE status[p] = "EIDRM"
      <4>1. Return(State, p)
        BY <3>1
      <4>2. status' = StatusOf(p) /\ arg' = ArgOf(p) /\ pc' = PcOf(p, "user")
        BY <2>1, <4>1, StayReturn
      <4>3. Leaves(p, status, arg, pc, StatusOf(p), ArgOf(p), PcOf(p, "user"))
        BY <2>1, LeftIs
      <4>4. Counted(p, semid)
        BY <2>1, <4>1, ReturnCounted
      <4> QED
        BY <4>2, <4>3, <4>4
    <3>2. CASE status[p] # "EIDRM"
      <4>1. pc' = PcOf(p, "dead") /\ status' = status /\ arg' = arg /\ sig' = sig
        BY <3>2, SMT DEF PcOf
      <4>2. "dead" \in Pc /\ "dead" \notin InCall /\ "dead" \notin Unlocked
        BY SMT DEF Pc, InCall, Unlocked
      <4>3. pc' \in [Proc -> Pc] /\ Besides(p, pc', pc) /\ pc'[p] = "dead"
        BY <2>1, <4>1, <4>2, RunIs
      <4>4. Leaves(p, status, arg, pc, status', arg', pc')
        BY <2>1, <4>1, <4>2, <4>3 DEF Leaves, VarTypes, Besides
      <4>5. arg'[p].id \in {NoSet, semid, arg[p].id} /\ Besides(p, arg', arg)
        BY <4>1, SMT DEF Besides
      <4>6. NoneNew(p, pc')
        BY <4>3 DEF NoneNew, Besides
      <4>7. Counted(p, semid)
        BY <2>1, <4>1, <4>2, <4>3, <4>5, <4>6 DEF Counted
      <4> QED
        BY <4>4, <4>7
    <3> QED
      BY <3>1, <3>2
  <2>5. Whole(val, adj, pend, status', arg', pc', semid, un, ledger, owed)
    BY <2>1, <2>2, <2>4, LeaveIdle DEF Now
  <2> QED
    BY <2>3, <2>4, <2>5 DEF WholeNext
<1>ResumeSleeps. ASSUME Inv, NEW p \in Proc, pc[p] = "awake", status[p] = "retry", NEW r,
                        r = Try(State, p, arg[p].ops, FALSE), r.result = "block",
                        Install(Commit(State, p, r)), status' = [status EXCEPT ![p] = "EINTR"],
                        pc' = [pc EXCEPT ![p] = IF sig[p] THEN "awake" ELSE "sleep"],
                        UNCHANGED <<arg, sig, ledger, owed>>
                 PROVE  WholeNext(semid, un) /\ Counted(p, semid)
  <2> USE <1>ResumeSleeps
  <2>1. /\ Now /\ VarTypes /\ sig \in [Proc -> BOOLEAN] /\ State \in Queues /\ State.val = val /\ State.adj = adj
        /\ State.pend = pend
    BY StateIs
  <2>2. arg[p].ops \in Seq(Sembuf)
    BY <2>1, CallsAre DEF VarTypes, IsCalls
  <2>3. Tried(State, p, arg[p].ops, r, Commit(State, p, r))
    BY <2>1, <2>2, Attempted
  <2>4. val' = val /\ adj' = adj /\ pend' = pend /\ Expected(val, arg[p].ops) = "block"
    <3>1. "block" # "ok"
      BY SMT
    <3> QED
      BY <2>1, <2>3, <3>1 DEF Tried, Install
  <2>5. arg' = arg /\ sig' = sig /\ ledger' = ledger /\ owed' = owed
    BY SMT
  <2>6. p \in Range(pend)
    <3>1. status[p] \in {"EINTR", "retry"}
      BY SMT
    <3> QED
      BY <3>1, Retrier
  <2> DEFINE at == IF sig[p] THEN "awake" ELSE "sleep"
  <2>7. at \in Pc /\ at \in InCall /\ at \notin Unlocked /\ "EINTR" \in Status /\ pc[p] \in InCall
    BY SMT DEF Pc, InCall, Unlocked, Status
  <2>8. pc' = [pc EXCEPT ![p] = at]
    BY SMT
  <2> HIDE DEF at
  <2>9. pc' \in [Proc -> Pc] /\ pc'[p] = at /\ Besides(p, pc', pc)
    BY <2>1, <2>7, <2>8, SMTT(20) DEF VarTypes, Besides
  <2>10. status' \in [Proc -> Status] /\ status'[p] = "EINTR" /\ Besides(p, status', status)
    BY <2>1, <2>7, SMT DEF VarTypes, Besides
  <2>11. Stirs(p, val, pend, status, arg, pc, status', pc')
    BY <2>4, <2>6, <2>7, <2>9, <2>10 DEF Stirs
  <2>12. Whole(val, adj, pend, status', arg, pc', semid, un, ledger, owed)
    BY <2>1, <2>11, Stir DEF Now
  <2>13. Counted(p, semid)
    <3>1. arg'[p].id \in {NoSet, semid, arg[p].id} /\ Besides(p, arg', arg)
      BY <2>5, SMT DEF Besides
    <3>2. NoneNew(p, pc')
      BY <2>9 DEF NoneNew, Besides
    <3> QED
      BY <2>1, <2>5, <2>7, <2>9, <3>1, <3>2 DEF Counted
  <2> QED
    BY <2>4, <2>5, <2>12, <2>13 DEF WholeNext
<1>ResumeRetries. ASSUME Inv, NEW p \in Proc, pc[p] = "awake", status[p] = "retry", NEW r,
                         r = Try(State, p, arg[p].ops, FALSE), NEW S,
                         S = [State EXCEPT !.pend = Without(@, {p})], NEW U,
                         U = Finish(Commit(S, p, r), arg[p].ops), Install(U), Return(U, p),
                         IF r.result = "ok" THEN Record(p, arg[p].ops) ELSE UNCHANGED_ghosts
                  PROVE  WholeNext(semid, un) /\ Counted(p, semid)
  <2> USE <1>ResumeRetries
  <2>1. VarTypes /\ GhostTypes /\ sig \in [Proc -> BOOLEAN] /\ State.val = val /\ State.adj = adj
    BY StateIs
  <2>2. arg[p].ops \in Seq(Sembuf)
    BY <2>1, CallsAre DEF VarTypes, IsCalls
  <2>3. "retry" # "ok" /\ "retry" \in {"EINTR", "retry"}
    BY SMT
  <2>4. /\ S \in Queues /\ ~S.stop /\ S.status = status /\ S.woken = {} /\ S.val = val /\ S.adj = adj
        /\ Sound(S.val, S.adj, S.pend, StatusOf(p), ArgOf(p), PcOf(p, "user"), semid, un, ledger, owed)
    BY <2>3, Unqueued
  <2>5. Try(State, p, arg[p].ops, FALSE) = Try(S, p, arg[p].ops, FALSE)
    BY <2>1, <2>4 DEF Try
  <2>6. Tried(S, p, arg[p].ops, r, Commit(S, p, r))
    BY <2>2, <2>4, <2>5, Attempted
  <2>7. Alter(arg[p].ops) /\ (Undos(arg[p].ops) => un[p] = semid)
    BY <2>3, Retrier
  <2>8. Whole(U.val, U.adj, U.pend, status', arg', pc', semid, un, ledger', owed')
    BY <2>1, <2>2, <2>4, <2>6, <2>7, EndStep
  <2>9. Counted(p, semid)
    BY <2>1, ReturnCounted
  <2> QED
    BY <2>8, <2>9 DEF WholeNext, Install
<1>ResumeInterrupted. ASSUME Inv, NEW p \in Proc, Queued(p), NEW S,
                             S = [State EXCEPT !.pend = Without(@, {p})], NEW U,
                             U = Finish(S, arg[p].ops), Install(U), Return(U, p),
                             UNCHANGED_ghosts
                      PROVE  WholeNext(semid, un) /\ Counted(p, semid)
  <2> USE <1>ResumeInterrupted
  <2>1. Now /\ VarTypes /\ sig \in [Proc -> BOOLEAN]
    BY StateIs
  <2>2. status[p] # "ok"
    <3>1. status[p] \in {"EINTR", "retry"}
      BY <2>1 DEF Now, Whole, Sound, QueuedOK, QueuedOne, Queued
    <3> QED
      BY <3>1, SMTT(20)
  <2>3. /\ S \in Queues /\ ~S.stop /\ S.status = status /\ S.woken = {}
        /\ Sound(S.val, S.adj, S.pend, StatusOf(p), ArgOf(p), PcOf(p, "user"), semid, un, ledger, owed)
        /\ Alter(arg[p].ops) \/ Served(S.val, S.pend, StatusOf(p), ArgOf(p))
    BY <2>2, Unqueued
  <2>4. Whole(U.val, U.adj, U.pend, status', arg', pc', semid, un, ledger, owed)
    BY <2>1, <2>3, FinishReturn
  <2>5. ledger' = ledger /\ owed' = owed
    BY SMT DEF UNCHANGED_ghosts
  <2>6. Counted(p, semid)
    BY <2>1, ReturnCounted
  <2> QED
    BY <2>4, <2>5, <2>6 DEF WholeNext, Install
<1>ResumeReturns. ASSUME Inv, NEW p \in Proc, pc[p] = "awake", semid # NoSet, ~Queued(p),
                         Install(State), Return(State, p),
                         IF status[p] = "ok" /\ semid = arg[p].id THEN Record(p, arg[p].ops) ELSE UNCHANGED_ghosts
                  PROVE  WholeNext(semid, un) /\ Counted(p, semid)
  <2> USE <1>ResumeReturns
  <2>1. /\ Now /\ VarTypes /\ GhostTypes /\ sig \in [Proc -> BOOLEAN] /\ State.val = val /\ State.adj = adj /\ State.pend = pend
        /\ State.status = status /\ State.woken = {} /\ pend \in Seq(Proc) /\ NoRepeat(pend)
    BY StateIs
  <2>2. p \notin Range(pend) /\ pc[p] \in InCall
    BY SMT DEF Queued, InCall
  <2>3. status' = StatusOf(p) /\ arg' = ArgOf(p) /\ pc' = PcOf(p, "user") /\ val' = val /\ adj' = adj /\ pend' = pend
    BY <2>1, StayReturn DEF Install
  <2>4. Leaves(p, status, arg, pc, status', arg', pc')
    BY <2>1, <2>3, LeftIs
  <2>5. Counted(p, semid)
    BY <2>1, ReturnCounted
  <2>6. CASE status[p] = "ok" /\ semid = arg[p].id
    <3>1. p \in DoneIn(status, arg, pc, semid)
      BY <2>2, <2>6 DEF DoneIn
    <3>2. arg[p].ops \in Seq(Sembuf)
      BY <2>1, CallsAre DEF VarTypes, IsCalls
    <3>3. Recorded(p, arg[p].ops, ledger, owed, ledger', owed')
      BY <2>1, <2>6, <3>2, RecordIs DEF GhostTypes
    <3>4. OutOf(pend, pend, p)
      BY <2>1, <2>2, OutOfSame
    <3>5. Sound(val, adj, pend, status, arg, pc, semid, un, ledger, owed) /\ Served(val, pend, status, arg)
      BY <2>1 DEF Now, Whole, Served
    <3>6. Sound(val, adj, pend, status', arg', pc', semid, un, ledger', owed')
      BY <2>4, <3>1, <3>3, <3>4, <3>5, Settle
    <3>7. /\ ZeroOK(val, pend, arg) => ZeroOK(val, pend, arg')
          /\ FirstOK(val, pend, status, arg) => FirstOK(val, pend, status', arg')
      BY <2>1, <2>2, <2>4, <3>4, LeaveServed
    <3> QED
      BY <2>3, <2>5, <3>5, <3>6, <3>7 DEF WholeNext, Whole, Served
  <2>7. CASE ~(status[p] = "ok" /\ semid = arg[p].id)
    <3>1. ledger' = ledger /\ owed' = owed
      BY <2>7, SMT DEF UNCHANGED_ghosts
    <3>2. p \notin DoneIn(status, arg, pc, semid)
      BY <2>7, NotDone
    <3>3. Whole(val, adj, pend, status', arg', pc', semid, un, ledger, owed)
      BY <2>1, <2>2, <2>4, <3>2, LeaveIdle DEF Now
    <3> QED
      BY <2>3, <2>5, <3>1, <3>3 DEF WholeNext
  <2> QED
    BY <2>6, <2>7
<1> SUFFICES ASSUME NEW p \in Proc, Inv, Resume(p)
             PROVE  Inv'
  OBVIOUS
<1> DEFINE ops == arg[p].ops
           r   == Try(State, p, ops, FALSE)
           gone == [State EXCEPT !.pend = Without(@, {p})]
           U == Finish(Commit(gone, p, r), ops)
           V == Finish(gone, ops)
<1>1. pc[p] = "awake" /\ semid' = semid /\ seq' = seq /\ un' = un
  BY SMT DEF Resume
<1>2. \/ /\ semid = NoSet /\ Install(State)
         /\ IF status[p] = "EIDRM" THEN Return(State, p) ELSE pc' = [pc EXCEPT ![p] = "dead"] /\ UNCHANGED <<status, arg, sig>>
         /\ UNCHANGED_ghosts
      \/ /\ status[p] = "retry" /\ r.result = "block" /\ Install(Commit(State, p, r))
         /\ status' = [status EXCEPT ![p] = "EINTR"] /\ pc' = [pc EXCEPT ![p] = IF sig[p] THEN "awake" ELSE "sleep"]
         /\ UNCHANGED <<arg, sig, ledger, owed>>
      \/ /\ status[p] = "retry" /\ Install(U) /\ Return(U, p)
         /\ IF r.result = "ok" THEN Record(p, ops) ELSE UNCHANGED_ghosts
      \/ Queued(p) /\ Install(V) /\ Return(V, p) /\ UNCHANGED_ghosts
      \/ /\ semid # NoSet /\ ~Queued(p) /\ Install(State) /\ Return(State, p)
         /\ IF status[p] = "ok" /\ semid = arg[p].id THEN Record(p, ops) ELSE UNCHANGED_ghosts
  BY DEF Resume
<1>3. WholeNext(semid, un) /\ Counted(p, semid)
  BY <1>1, <1>2, <1>ResumeRemoved, <1>ResumeSleeps, <1>ResumeRetries, <1>ResumeInterrupted, <1>ResumeReturns
<1>4. Numbers
  BY StateIs
<1>5. Numbers'
  BY <1>1, <1>3, <1>4, CountedStep
<1> QED
  BY <1>1, <1>3, <1>5 DEF Inv, WholeNext

-----------------------------------------------------------------------------
LEMMA InitInv ==
  ASSUME Init
  PROVE  Inv
<1>1. /\ semid = NoSet /\ seq = 0 /\ val = Zero /\ pend = <<>> /\ pc = [p \in Proc |-> "user"] /\ arg = [p \in Proc |-> NoArg]
      /\ status = [p \in Proc |-> "none"] /\ un = [p \in Proc |-> NoSet] /\ adj = [p \in Proc |-> Zero]
      /\ sig = [p \in Proc |-> FALSE] /\ ledger = Zero /\ owed = [p \in Proc |-> Zero]
  BY DEF Init
<1>2. "user" \in Pc /\ "none" \in Status /\ "user" \notin InCall /\ "user" \notin Unlocked /\ "user" # "alloc"
  BY SMT DEF Pc, Status, InCall, Unlocked
<1>3. /\ pc \in [Proc -> Pc] /\ \A p \in Proc : pc[p] = "user"
  BY <1>1, <1>2
<1>4. /\ arg \in [Proc -> Calls] /\ \A p \in Proc : arg[p].id = NoSet
  BY <1>1, NoArgIs
<1>5. /\ status \in [Proc -> Status] /\ adj \in [Proc -> [Sem -> Shorts]] /\ owed \in [Proc -> [Sem -> Shorts]]
      /\ val \in [Sem -> Nat] /\ ledger \in [Sem -> Int] /\ sig \in [Proc -> BOOLEAN]
  <2>1. FALSE \in BOOLEAN
    BY SMT
  <2> QED
    BY <1>1, <1>2, <2>1, ZeroIs
<1>6. MaxSeq \in Nat
  BY MenuAssumption, SMT
<1>7. NoSet \in {NoSet} \cup 0..MaxSeq /\ 0 \in 0..(MaxSeq + 1) /\ NoSet < 0
  BY <1>6, SMT DEF NoSet
<1>8. un \in [Proc -> {NoSet} \cup 0..MaxSeq] /\ \A p \in Proc : un[p] = NoSet
  BY <1>1, <1>7
<1>9. Numbers
  BY <1>1, <1>2, <1>3, <1>4, <1>5, <1>7, <1>8 DEF Numbers
<1>10. /\ pend \in Seq(Proc) /\ NoRepeat(pend) /\ QueuedOK(pend, status, arg, pc, semid) /\ ZeroFirst(pend, arg)
       /\ ZeroOK(val, pend, arg) /\ FirstOK(val, pend, status, arg)
  BY <1>1, EmptyQueue
<1>11. Types(val, adj, pend, status, arg, pc, ledger, owed)
  BY <1>3, <1>4, <1>5, <1>10 DEF Types
<1>12. InCallOK(pend, status, arg, pc, semid, un)
  BY <1>2, <1>3 DEF InCallOK
<1>13. Sound(val, adj, pend, status, arg, pc, semid, un, ledger, owed)
  BY <1>1, <1>10, <1>11, <1>12 DEF Sound
<1> QED
  BY <1>9, <1>10, <1>13 DEF Inv, Whole

LEMMA StepInv ==
  ASSUME LoopLaw, FiniteLaws, SumLaws, WithoutLaw, WithoutOrder, AppendLaw, Inv, Next
  PROVE  Inv'
<1>1. PICK p \in Proc : \/ Semget(p) \/ Semop(p) \/ AllocUndo(p) \/ Resume(p) \/ Signal(p)
                        \/ Setval(p) \/ SetallCopy(p) \/ SetallStore(p) \/ Rmid(p) \/ Exit(p)
  BY DEF Next
<1>2. CASE Semget(p)
  BY <1>2, SemgetInv
<1>3. CASE Semop(p)
  BY <1>3, SemopInv DEF Semop
<1>4. CASE AllocUndo(p)
  BY <1>4, AllocUndoInv
<1>5. CASE Resume(p)
  BY <1>5, ResumeInv
<1>6. CASE Signal(p)
  BY <1>6, SignalInv
<1>7. CASE Setval(p)
  BY <1>7, SetvalInv
<1>8. CASE SetallCopy(p)
  BY <1>8, SetallCopyInv
<1>9. CASE SetallStore(p)
  BY <1>9, SetallStoreInv
<1>10. CASE Rmid(p)
  BY <1>10, RmidInv
<1>11. CASE Exit(p)
  BY <1>11, ExitInv
<1> QED
  BY <1>1, <1>2, <1>3, <1>4, <1>5, <1>6, <1>7, <1>8, <1>9, <1>10, <1>11

LEMMA StutterInv ==
  ASSUME Inv, UNCHANGED vars
  PROVE  Inv'
<1>1. /\ semid' = semid /\ seq' = seq /\ val' = val /\ pend' = pend /\ pc' = pc /\ arg' = arg /\ status' = status
      /\ un' = un /\ adj' = adj /\ sig' = sig /\ ledger' = ledger /\ owed' = owed
  BY SMT DEF vars
<1>2. Numbers'
  BY <1>1 DEF Inv, Numbers
<1> QED
  BY <1>1, <1>2 DEF Inv

LEMMA InvTypeOK ==
  ASSUME Inv
  PROVE  TypeOK
<1>1. /\ Numbers /\ VarTypes /\ pend \in Seq(Proc) /\ NoRepeat(pend) /\ val \in [Sem -> Nat]
      /\ adj \in [Proc -> [Sem -> Shorts]]
  BY StateIs
<1>2. DOMAIN pend = 1..Len(pend)
  BY <1>1, SMT
<1>3. \A i, j \in DOMAIN pend : pend[i] = pend[j] => i = j
  BY <1>1, <1>2 DEF NoRepeat
<1>4. \A p \in Proc : arg[p].id \in {NoSet} \cup 0..MaxSeq
  BY <1>1, SMT DEF VarTypes, Calls
<1> QED
  BY <1>1, <1>3, <1>4 DEF TypeOK, Numbers, VarTypes, Shorts

LEMMA InvLedger ==
  ASSUME Inv
  PROVE  Ledger /\ UndoLedger
<1>1. Sound(val, adj, pend, status, arg, pc, semid, un, ledger, owed)
  BY StateIs DEF Now, Whole
<1>2. Ledger
  BY <1>1, DoneIs DEF Sound, Ledger, LedgerOK
<1>3. UndoLedger
  BY <1>1, DoneIs DEF Sound, UndoLedger, UndoOK, UndoOne
<1> QED
  BY <1>2, <1>3

LEMMA InvQueued ==
  ASSUME Inv
  PROVE  NoForgottenSleeper /\ NoStaleZeroWaiter
<1>1. Sound(val, adj, pend, status, arg, pc, semid, un, ledger, owed) /\ ZeroOK(val, pend, arg)
  BY StateIs DEF Now, Whole
<1>2. NoStaleZeroWaiter
  BY <1>1 DEF NoStaleZeroWaiter, ZeroOK, Waits
<1>3. ASSUME NEW p \in Proc, pc[p] = "sleep"
      PROVE  semid # NoSet /\ semid = arg[p].id /\ Queued(p) /\ status[p] = "EINTR"
  <2>1. pc[p] \in InCall
    BY <1>3, SMTT(20) DEF InCall
  <2>2. p \in Range(pend)
    BY <1>1, <1>3, <2>1 DEF Sound, InCallOK, InCallOne
  <2>3. QueuedOne(status, arg, pc, semid, p)
    BY <1>1, <2>2 DEF Sound, QueuedOK
  <2> QED
    BY <1>3, <2>2, <2>3 DEF QueuedOne, Queued
<1>4. NoForgottenSleeper
  BY <1>3 DEF NoForgottenSleeper
<1> QED
  BY <1>2, <1>4

LEMMA InvFirstServed ==
  ASSUME LoopLaw, FiniteLaws, Inv
  PROVE  FirstServed
<1>1. /\ Now /\ VarTypes /\ pend \in Seq(Proc) /\ NoRepeat(pend) /\ val \in [Sem -> Nat] /\ adj \in [Proc -> [Sem -> Shorts]]
      /\ State.val = val /\ State.adj = adj
  BY StateIs
<1> SUFFICES ASSUME \A ops \in Menu : OnlyAdds(ops) => \A i \in DOMAIN ops : ops[i].op # 0, NEW i \in DOMAIN pend,
                    Alter(arg[pend[i]].ops), \A j \in 1..(i - 1) : ~Alter(arg[pend[j]].ops)
             PROVE  status[pend[i]] = "retry" \/ Try(State, pend[i], arg[pend[i]].ops, TRUE).result = "block"
  BY DEF FirstServed
<1>2. FirstOK(val, pend, status, arg)
  <2>1. MenuMild
    BY DEF MenuMild
  <2> QED
    BY <1>1, <2>1 DEF Now, Whole
<1> DEFINE y == pend[i]
<1>3. y \in Range(pend) /\ y \in Proc /\ i \in 1..Len(pend) /\ Len(pend) \in Nat
  BY <1>1, SMT DEF Range
<1>4. ASSUME NEW x, Ahead(pend, x, y) PROVE ~Alter(arg[x].ops)
  <2>1. PICK j, k \in 1..Len(pend) : j < k /\ pend[j] = x /\ pend[k] = pend[i]
    BY <1>4 DEF Ahead
  <2>2. k = i
    BY <1>1, <1>3, <2>1 DEF NoRepeat
  <2>3. j \in 1..(i - 1)
    BY <1>3, <2>1, <2>2, SMT
  <2> QED
    BY <2>1, <2>3
<1>5. status[y] = "retry" \/ Expected(val, arg[y].ops) = "block"
  BY <1>2, <1>3, <1>4 DEF FirstOK
<1>6. arg[y].ops \in Seq(Sembuf)
  BY <1>1, <1>3, CallsAre DEF VarTypes, IsCalls
<1>7. Try(State, y, arg[y].ops, TRUE).result = Expected(val, arg[y].ops)
  <2> HIDE DEF y
  <2>1. AllNumbers /\ TRUE \in BOOLEAN
    BY DEF FiniteLaws
  <2>2. Tries(Try(State, y, arg[y].ops, TRUE), State.val, State.adj[y], arg[y].ops, TRUE)
    BY <1>1, <1>3, <1>6, <2>1, TryOnly
  <2> QED
    BY <1>1, <2>2 DEF Tries
<1> QED
  BY <1>5, <1>7

-----------------------------------------------------------------------------
INSTANCE DataProofs

LEMMA StoreAlways == StoreSpec => []StoreType
<1>1. StoreInit => StoreType
  BY StoreInitType
<1>2. StoreType /\ [StoreNext]_store => StoreType'
  <2> SUFFICES ASSUME StoreType, [StoreNext]_store PROVE StoreType'
    OBVIOUS
  <2>1. CASE StoreNext
    BY <2>1, StoreNextType, LoopLawHolds, FiniteLawsHold DEF FiniteLaws
  <2>2. CASE store' = store
    BY <2>2 DEF StoreType
  <2> QED
    BY <2>1, <2>2
<1> QED
  BY <1>1, <1>2, PTL DEF StoreSpec

(* try_atomic_semop() performs the whole array or nothing of it and answers*)
(* for the first operation that cannot be performed, for arrays of any     *)
(* length on any number of semaphores, which may name one many times.      *)
THEOREM AllOrNothingHolds == StoreSpec => []AllOrNothing
<1>1. StoreType => AllOrNothing
  BY StoreAllOrNothing, LoopLawHolds, FiniteLawsHold DEF FiniteLaws
<1> QED
  BY <1>1, StoreAlways, PTL

(* After an array that was performed sempid names the caller, and one that *)
(* was not leaves it alone, under the two conditions of PidOfLastOperation.*)
THEOREM PidOfLastOperationHolds == StoreSpec => []PidOfLastOperation
<1>1. StoreType => PidOfLastOperation
  BY StorePids, LoopLawHolds, FiniteLawsHold
<1> QED
  BY <1>1, StoreAlways, PTL

LEMMA InvAlways == Spec => []Inv
<1>1. Init => Inv
  BY InitInv
<1>2. LoopLaw /\ FiniteLaws /\ SumLaws /\ WithoutLaw /\ WithoutOrder /\ AppendLaw
  BY LoopLawHolds, FiniteLawsHold, SumLawsHold, ListLawsHold DEF ListLaws
<1>3. Inv /\ [Next]_vars => Inv'
  BY <1>2, StepInv, StutterInv
<1> QED
  BY <1>1, <1>3, PTL DEF Spec

(* The state of the semaphores stays in its types: no value is negative,   *)
(* no process is on the queue twice.                                       *)
THEOREM TypeCorrect == Spec => []TypeOK
<1>1. Inv => TypeOK
  BY InvTypeOK
<1> QED
  BY <1>1, InvAlways, PTL

(* Each semop() that returns 0 was performed exactly once, by itself or by *)
(* update_queue(), and one that failed, was interrupted or lost its set    *)
(* was not performed: the values are what completed calls add up to.       *)
THEOREM LedgerHolds == Spec => []Ledger
<1>1. Inv => Ledger
  BY InvLedger
<1> QED
  BY <1>1, InvAlways, PTL

(* sem_exit() will take back what a process did under SEM_UNDO since the   *)
(* value was last set, modulo the width of a semadj.                       *)
THEOREM UndoLedgerHolds == Spec => []UndoLedger
<1>1. Inv => UndoLedger
  BY InvLedger
<1> QED
  BY <1>1, InvAlways, PTL

(* A process that sleeps in semop() is on the queue of the set it waits    *)
(* for, and that set is still the one in the slot.                         *)
THEOREM NoForgottenSleeperHolds == Spec => []NoForgottenSleeper
<1>1. Inv => NoForgottenSleeper
  BY InvQueued
<1> QED
  BY <1>1, InvAlways, PTL

(* A process that only waits for zero is not left on the queue when all    *)
(* the values it waits for are zero, whatever update_queue() stopped at.   *)
THEOREM NoStaleZeroWaiterHolds == Spec => []NoStaleZeroWaiter
<1>1. Inv => NoStaleZeroWaiter
  BY InvQueued
<1> QED
  BY <1>1, InvAlways, PTL

(* The first process on the queue that would change a value has been told  *)
(* to retry or cannot go on, for every menu of arrays in which none that   *)
(* only increases also waits for zero.                                     *)
THEOREM FirstServedHolds == Spec => []FirstServed
<1>1. LoopLaw /\ FiniteLaws
  BY LoopLawHolds, FiniteLawsHold
<1>2. Inv => FirstServed
  BY <1>1, InvFirstServed
<1> QED
  BY <1>2, InvAlways, PTL

=============================================================================
