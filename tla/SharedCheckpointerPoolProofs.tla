-------------------- MODULE SharedCheckpointerPoolProofs --------------------
(* Theorems about SharedCheckpointerPool, for any runners, processes and   *)
(* pools: the election of a leader, the advisory lock and the followers.   *)
EXTENDS SharedCheckpointerPool, Integers, TLAPS

USE CheckpointerAssumption

-----------------------------------------------------------------------------
(* The inductive invariant.                                                *)

\* The advisory lock is held by exactly the leader that is past taking it.
Locking == {"setup", "unlock", "abort"}
LockInv == \A r \in Runners : pc[r] \in Locking <=> dblock = r

\* A runner follows somebody exactly while it waits, and then a leader.
FollowInv ==
    \A r \in Runners :
        /\ pc[r] = "follow" <=> follows[r] # NoRunner
        /\ pc[r] = "follow" => /\ ProcOf[follows[r]] = ProcOf[r]
                               /\ pc[follows[r]] \in Leading

\* The waiter of a process is of one of its own runners.
HomeInv == \A p \in Processes : waiter[p] # NoRunner => ProcOf[waiter[p]] = p

SetupInv == TypeOK /\ LoneLeader /\ LockInv /\ FollowInv /\ HomeInv

\* What Finish leaves of the runners' places: the leader's end, its followers
\* "ready", all others where they were.
LEMMA FinishPlaces ==
    ASSUME SetupInv, NEW r \in Runners, NEW end \in {"ready", "failed"},
           pc[r] \in Leading, Finish(r, end)
    PROVE  /\ pc' \in [Runners -> Steps]
           /\ follows' \in [Runners -> Runners \cup {NoRunner}]
           /\ waiter' \in [Processes -> Runners \cup {NoRunner}]
           /\ LoneLeader' /\ FollowInv' /\ HomeInv'
           /\ pc'[r] = end
           /\ \A u \in Runners \ {r} : pc'[u] = pc[u] \/ (pc[u] = "follow" /\ pc'[u] = "ready")
  <1>1. follows[r] = NoRunner /\ waiter[ProcOf[r]] = r
    BY DEF SetupInv, TypeOK, LoneLeader, FollowInv, Leading
  <1>2. /\ waiter' = [waiter EXCEPT ![ProcOf[r]] = NoRunner]
        /\ pc' = [u \in Runners |-> IF u = r THEN end
                                    ELSE IF follows[u] = r THEN "ready" ELSE pc[u]]
        /\ follows' = [u \in Runners |-> IF follows[u] = r THEN NoRunner ELSE follows[u]]
    BY DEF Finish
  <1>3. \A u \in Runners \ {r} : pc'[u] = pc[u] \/ (pc[u] = "follow" /\ pc'[u] = "ready")
    BY <1>2 DEF SetupInv, FollowInv
  <1>4. LoneLeader'
    <2>1. ASSUME NEW u \in Runners
          PROVE  pc'[u] \in Leading <=> waiter'[ProcOf[u]] = u
      <3>1. CASE ProcOf[u] = ProcOf[r]
        BY <3>1, <1>1, <1>2 DEF SetupInv, TypeOK, LoneLeader, Leading
      <3>2. CASE ProcOf[u] # ProcOf[r]
        BY <3>2, <1>2, <1>3 DEF SetupInv, TypeOK, LoneLeader, Leading
      <3> QED  BY <3>1, <3>2
    <2> QED  BY <2>1 DEF LoneLeader
  <1>5. FollowInv'
    <2>1. ASSUME NEW u \in Runners
          PROVE  /\ pc'[u] = "follow" <=> follows'[u] # NoRunner
                 /\ pc'[u] = "follow" => /\ ProcOf[follows'[u]] = ProcOf[u]
                                         /\ pc'[follows'[u]] \in Leading
      <3>1. CASE u = r
        BY <3>1, <1>1, <1>2
      <3>2. CASE u # r /\ follows[u] = r
        BY <3>2, <1>2
      <3>3. CASE u # r /\ follows[u] # r
        <4>1. pc'[u] = pc[u] /\ follows'[u] = follows[u]
          BY <3>3, <1>2
        <4>2. pc[u] = "follow" => /\ follows[u] \in Runners \ {r}
                                  /\ ProcOf[follows[u]] = ProcOf[u]
                                  /\ pc[follows[u]] \in Leading
          BY <3>3 DEF SetupInv, TypeOK, FollowInv
        <4>3. pc[u] = "follow" => pc'[follows[u]] \in Leading
          BY <4>2, <1>3 DEF Leading
        <4> QED  BY <4>1, <4>2, <4>3 DEF SetupInv, FollowInv
      <3> QED  BY <3>1, <3>2, <3>3
    <2> QED  BY <2>1 DEF FollowInv
  <1>6. /\ pc' \in [Runners -> Steps]
        /\ follows' \in [Runners -> Runners \cup {NoRunner}]
        /\ waiter' \in [Processes -> Runners \cup {NoRunner}]
    BY <1>2 DEF SetupInv, TypeOK, Steps, Leading
  <1>7. HomeInv'
    BY <1>2 DEF SetupInv, TypeOK, HomeInv
  <1> QED  BY <1>2, <1>3, <1>4, <1>5, <1>6, <1>7

\* Nobody leads, follows or holds the lock at first.
LEMMA SetupInit == Init => SetupInv
  <1> SUFFICES ASSUME Init PROVE SetupInv
    OBVIOUS
  <1>1. TypeOK
    BY DEF Init, TypeOK, Steps
  <1>2. LoneLeader /\ LockInv
    BY DEF Init, LoneLeader, LockInv, Leading, Locking, CheckpointerAssumption
  <1>3. FollowInv /\ HomeInv
    BY DEF Init, FollowInv, HomeInv
  <1> QED  BY <1>1, <1>2, <1>3 DEF SetupInv

\* A runner that is no follower goes on within or without its leadership, and
\* nobody else moves.
LEMMA MovePlaces ==
    ASSUME SetupInv, NEW r \in Runners, NEW place \in Steps, Goto(r, place),
           pc[r] # "follow", place # "follow", pc[r] \in Leading <=> place \in Leading,
           UNCHANGED <<waiter, follows>>
    PROVE  /\ pc' \in [Runners -> Steps]
           /\ LoneLeader' /\ FollowInv' /\ HomeInv'
           /\ (dblock' = dblock /\ (pc[r] \in Locking <=> place \in Locking)) => LockInv'
  <1>1. /\ pc' = [pc EXCEPT ![r] = place]
        /\ pc \in [Runners -> Steps]
        /\ follows \in [Runners -> Runners \cup {NoRunner}]
    BY DEF Goto, SetupInv, TypeOK
  <1>2. LoneLeader'
    BY <1>1 DEF SetupInv, LoneLeader
  <1>3. FollowInv'
    <2>1. ASSUME NEW u \in Runners
          PROVE  /\ pc'[u] = "follow" <=> follows'[u] # NoRunner
                 /\ pc'[u] = "follow" => /\ ProcOf[follows'[u]] = ProcOf[u]
                                         /\ pc'[follows'[u]] \in Leading
      BY <1>1 DEF SetupInv, FollowInv
    <2> QED  BY <2>1 DEF FollowInv
  <1>4. (dblock' = dblock /\ (pc[r] \in Locking <=> place \in Locking)) => LockInv'
    BY <1>1 DEF SetupInv, LockInv
  <1>5. HomeInv'
    BY DEF SetupInv, HomeInv
  <1> QED  BY <1>1, <1>2, <1>3, <1>4, <1>5

-----------------------------------------------------------------------------
(* One lemma for each group of steps.                                      *)

\* The pool handed out, bound, reset and closed: nobody's leadership, lock or
\* event is touched.
LEMMA PoolSteps ==
    ASSUME SetupInv, NEW r \in Runners,
           GetPool(r) \/ Reset(r) \/ ClosePool(r) \/ Leave(r)
    PROVE  SetupInv'
  <1>1. CASE GetPool(r)
    <2>1. TypeOK' /\ LoneLeader' /\ LockInv' /\ FollowInv' /\ HomeInv'
      BY <1>1, MovePlaces DEF GetPool, SetupInv, TypeOK, Steps, Leading, Locking
    <2> QED  BY <1>1, <2>1 DEF GetPool, SetupInv
  <1>2. CASE Reset(r)
    <2>1. LoneLeader' /\ LockInv' /\ FollowInv' /\ HomeInv' /\ pc' \in [Runners -> Steps]
      BY <1>2, MovePlaces DEF Reset, Steps, Leading, Locking
    <2>2. TypeOK'
      BY <1>2, <2>1 DEF Reset, SetupInv, TypeOK
    <2> QED  BY <2>1, <2>2 DEF SetupInv
  <1>3. CASE ClosePool(r)
    <2>1. LoneLeader' /\ LockInv' /\ FollowInv' /\ HomeInv' /\ pc' \in [Runners -> Steps]
      BY <1>3, MovePlaces DEF ClosePool, procVars, Steps, Leading, Locking
    <2>2. TypeOK'
      BY <1>3, <2>1 DEF ClosePool, procVars, SetupInv, TypeOK
    <2> QED  BY <2>1, <2>2 DEF SetupInv
  <1>4. CASE Leave(r)
    <2>1. LoneLeader' /\ LockInv' /\ FollowInv' /\ HomeInv' /\ pc' \in [Runners -> Steps]
      BY <1>4, MovePlaces DEF Leave, procVars, Steps, Leading, Locking
    <2>2. TypeOK'
      BY <1>4, <2>1 DEF Leave, procVars, SetupInv, TypeOK
    <2> QED  BY <2>1, <2>2 DEF SetupInv
  <1> QED  BY <1>1, <1>2, <1>3, <1>4

\* A pool bound by the daemon, or the shutdown of the shared one.
LEMMA ProcessSteps ==
    ASSUME SetupInv, NEW p \in Processes, Register(p) \/ CloseShared(p)
    PROVE  SetupInv'
  <1>1. UNCHANGED <<waiter, pc, follows, dblock>>
    BY DEF Register, CloseShared
  <1>2. TypeOK'
    <2>1. CASE Register(p)
      BY <2>1 DEF Register, SetupInv, TypeOK
    <2>2. CASE CloseShared(p)
      BY <2>2 DEF CloseShared, SetupInv, TypeOK
    <2> QED  BY <2>1, <2>2
  <1> QED  BY <1>1, <1>2 DEF SetupInv, LoneLeader, LockInv, FollowInv, HomeInv

\* The election: a runner leads, follows, or has nothing to do.
LEMMA ElectionSteps ==
    ASSUME SetupInv, NEW r \in Runners,
           AlreadyDone(r) \/ Lead(r) \/ Follow(r) \/ FollowTimeout(r)
    PROVE  SetupInv'
  <1>1. CASE AlreadyDone(r)
    <2>1. LoneLeader' /\ LockInv' /\ FollowInv' /\ HomeInv' /\ pc' \in [Runners -> Steps]
      BY <1>1, MovePlaces DEF AlreadyDone, procVars, Steps, Leading, Locking
    <2> QED  BY <1>1, <2>1 DEF AlreadyDone, procVars, SetupInv, TypeOK
  <1>2. CASE Lead(r)
    <2>1. /\ pc' = [pc EXCEPT ![r] = "lead"]
          /\ waiter' = [waiter EXCEPT ![ProcOf[r]] = r]
          /\ pc[r] = "got" /\ waiter[ProcOf[r]] = NoRunner
          /\ UNCHANGED <<shared, done, mine, doomed, follows, closed, dblock>>
      BY <1>2 DEF Lead, Goto
    <2>2. TypeOK'
      BY <2>1 DEF SetupInv, TypeOK, Steps, Leading
    <2>3. LoneLeader'
      BY <2>1 DEF SetupInv, TypeOK, LoneLeader, Leading
    <2>4. LockInv'
      BY <2>1 DEF SetupInv, TypeOK, LockInv, Locking
    <2>5. FollowInv'
      BY <2>1 DEF SetupInv, TypeOK, FollowInv, Leading
    <2>6. HomeInv'
      BY <2>1 DEF SetupInv, TypeOK, HomeInv
    <2> QED  BY <2>2, <2>3, <2>4, <2>5, <2>6 DEF SetupInv
  <1>3. CASE Follow(r)
    <2>1. /\ pc' = [pc EXCEPT ![r] = "follow"]
          /\ follows' = [follows EXCEPT ![r] = waiter[ProcOf[r]]]
          /\ pc[r] = "got" /\ waiter[ProcOf[r]] # NoRunner
          /\ UNCHANGED <<shared, done, waiter, mine, doomed, closed, dblock>>
      BY <1>3 DEF Follow, procVars, Goto
    <2>2. TypeOK'
      BY <2>1 DEF SetupInv, TypeOK, Steps, Leading
    <2>3. LoneLeader' /\ LockInv' /\ HomeInv'
      BY <2>1 DEF SetupInv, TypeOK, LoneLeader, LockInv, HomeInv, Leading, Locking
    <2>4. LET l == waiter[ProcOf[r]]
          IN  l \in Runners /\ ProcOf[l] = ProcOf[r] /\ pc[l] \in Leading
      BY <2>1 DEF SetupInv, TypeOK, HomeInv, LoneLeader
    <2>5. FollowInv'
      BY <2>1, <2>4 DEF SetupInv, TypeOK, FollowInv, Leading
    <2> QED  BY <2>2, <2>3, <2>5 DEF SetupInv
  <1>4. CASE FollowTimeout(r)
    <2>1. /\ pc' = [pc EXCEPT ![r] = "ready"]
          /\ follows' = [follows EXCEPT ![r] = NoRunner]
          /\ pc[r] = "follow"
          /\ UNCHANGED <<shared, done, waiter, mine, doomed, closed, dblock>>
      BY <1>4 DEF FollowTimeout, procVars, Goto
    <2>2. TypeOK'
      BY <2>1 DEF SetupInv, TypeOK, Steps, Leading
    <2>3. LoneLeader' /\ LockInv' /\ HomeInv'
      BY <2>1 DEF SetupInv, TypeOK, LoneLeader, LockInv, HomeInv, Leading, Locking
    <2>4. FollowInv'
      BY <2>1 DEF SetupInv, TypeOK, FollowInv, Leading
    <2> QED  BY <2>2, <2>3, <2>4 DEF SetupInv
  <1> QED  BY <1>1, <1>2, <1>3, <1>4

\* The leader's steps that do not end its leadership.
LEMMA WorkSteps ==
    ASSUME SetupInv, NEW r \in Runners,
           Connect(r) \/ Lock(r) \/ SetupOk(r) \/ SetupFail(r)
    PROVE  SetupInv'
  <1>1. CASE Connect(r)
    <2>1. LoneLeader' /\ LockInv' /\ FollowInv' /\ HomeInv' /\ pc' \in [Runners -> Steps]
      BY <1>1, MovePlaces DEF Connect, procVars, Steps, Leading, Locking
    <2> QED  BY <1>1, <2>1 DEF Connect, procVars, SetupInv, TypeOK
  <1>2. CASE Lock(r)
    <2> DEFINE place == IF done[ProcOf[r]] THEN "unlock" ELSE "setup"
    <2>1. /\ Goto(r, place) /\ place \in Locking
          /\ pc[r] = "lock" /\ dblock = NoRunner /\ dblock' = r
          /\ UNCHANGED <<shared, done, waiter, mine, doomed, follows, closed>>
      BY <1>2 DEF Lock, procVars, Locking
    <2> HIDE DEF place
    <2>2. LoneLeader' /\ FollowInv' /\ HomeInv' /\ pc' \in [Runners -> Steps]
      BY <2>1, MovePlaces DEF Steps, Leading, Locking
    <2>3. LockInv'
      BY <2>1 DEF Goto, SetupInv, TypeOK, LockInv, CheckpointerAssumption
    <2> QED  BY <2>1, <2>2, <2>3 DEF SetupInv, TypeOK
  <1>3. CASE SetupOk(r)
    <2>1. LoneLeader' /\ LockInv' /\ FollowInv' /\ HomeInv' /\ pc' \in [Runners -> Steps]
      BY <1>3, MovePlaces DEF SetupOk, Steps, Leading, Locking
    <2>2. TypeOK'
      BY <1>3, <2>1 DEF SetupOk, SetupInv, TypeOK
    <2> QED  BY <2>1, <2>2 DEF SetupInv
  <1>4. CASE SetupFail(r)
    <2>1. LoneLeader' /\ LockInv' /\ FollowInv' /\ HomeInv' /\ pc' \in [Runners -> Steps]
      BY <1>4, MovePlaces DEF SetupFail, procVars, Steps, Leading, Locking
    <2> QED  BY <1>4, <2>1 DEF SetupFail, procVars, SetupInv, TypeOK
  <1> QED  BY <1>1, <1>2, <1>3, <1>4

\* The steps that end a leadership and wake its followers.
LEMMA FinishSteps ==
    ASSUME SetupInv, NEW r \in Runners,
           ConnectFail(r) \/ Unlock(r)
    PROVE  SetupInv'
  <1>1. PICK end \in {"ready", "failed"} : Finish(r, end)
    BY DEF ConnectFail, Unlock
  <1>2. pc[r] \in Leading /\ UNCHANGED <<shared, done, mine, doomed, closed>>
    BY DEF ConnectFail, Unlock, Leading
  <1>3. /\ LoneLeader' /\ FollowInv' /\ HomeInv'
        /\ pc' \in [Runners -> Steps]
        /\ follows' \in [Runners -> Runners \cup {NoRunner}]
        /\ waiter' \in [Processes -> Runners \cup {NoRunner}]
        /\ pc'[r] = end
        /\ \A u \in Runners \ {r} : pc'[u] = pc[u] \/ (pc[u] = "follow" /\ pc'[u] = "ready")
    BY <1>1, <1>2, FinishPlaces
  <1>4. dblock' = IF dblock = r THEN NoRunner ELSE dblock
    <2>1. CASE ConnectFail(r)
      BY <2>1 DEF ConnectFail, SetupInv, LockInv, Locking
    <2>2. CASE Unlock(r)
      BY <2>2 DEF Unlock, SetupInv, LockInv, Locking
    <2> QED  BY <2>1, <2>2
  <1>5. LockInv'
    <2>1. ASSUME NEW u \in Runners PROVE pc'[u] \in Locking <=> dblock' = u
      <3>1. CASE u = r
        BY <3>1, <1>3, <1>4 DEF Locking, CheckpointerAssumption
      <3>2. CASE u # r
        BY <3>2, <1>3, <1>4 DEF SetupInv, LockInv, Locking, CheckpointerAssumption
      <3> QED  BY <3>1, <3>2
    <2> QED  BY <2>1 DEF LockInv
  <1>6. TypeOK'
    BY <1>2, <1>3, <1>4 DEF SetupInv, TypeOK
  <1> QED  BY <1>3, <1>5, <1>6 DEF SetupInv

\* A crash takes the leader, the followers and the lock of the process along,
\* and nobody of another process.
LEMMA CrashStep ==
    ASSUME SetupInv, NEW p \in Processes, Crash(p)
    PROVE  SetupInv'
  <1>1. TypeOK'
    BY DEF Crash, SetupInv, TypeOK, Steps
  <1>3. HomeInv'
    BY DEF Crash, SetupInv, TypeOK, HomeInv
  <1>4. LoneLeader'
    BY DEF Crash, SetupInv, TypeOK, LoneLeader, Leading, CheckpointerAssumption
  <1>5. LockInv'
    BY DEF Crash, SetupInv, TypeOK, LockInv, Locking, CheckpointerAssumption
  <1>6. FollowInv'
    <2>1. ASSUME NEW u \in Runners
          PROVE  /\ pc'[u] = "follow" <=> follows'[u] # NoRunner
                 /\ pc'[u] = "follow" => /\ ProcOf[follows'[u]] = ProcOf[u]
                                         /\ pc'[follows'[u]] \in Leading
      <3>1. CASE ProcOf[u] = p
        BY <3>1 DEF Crash
      <3>2. CASE ProcOf[u] # p
        <4>1. pc'[u] = pc[u] /\ follows'[u] = follows[u]
          BY <3>2 DEF Crash
        <4>2. pc[u] = "follow" => /\ follows[u] \in Runners
                                  /\ ProcOf[follows[u]] = ProcOf[u]
                                  /\ pc[follows[u]] \in Leading
          BY DEF SetupInv, TypeOK, FollowInv
        <4>3. pc[u] = "follow" => pc'[follows[u]] \in Leading
          BY <4>2, <3>2 DEF Crash
        <4> QED  BY <4>1, <4>2, <4>3 DEF SetupInv, FollowInv
      <3> QED  BY <3>1, <3>2
    <2> QED  BY <2>1 DEF FollowInv
  <1> QED  BY <1>1, <1>3, <1>4, <1>5, <1>6 DEF SetupInv

\* Every step keeps the invariant.
LEMMA SetupStep == SetupInv /\ [Next]_vars => SetupInv'
  <1> SUFFICES ASSUME SetupInv, [Next]_vars PROVE SetupInv'
    OBVIOUS
  <1>1. CASE UNCHANGED vars
    BY <1>1 DEF vars, SetupInv, TypeOK, LoneLeader, LockInv, FollowInv, HomeInv
  <1>2. ASSUME NEW r \in Runners, GetPool(r) \/ Reset(r) \/ ClosePool(r) \/ Leave(r)
        PROVE  SetupInv'
    BY <1>2, PoolSteps
  <1>3. ASSUME NEW r \in Runners,
               AlreadyDone(r) \/ Lead(r) \/ Follow(r) \/ FollowTimeout(r)
        PROVE  SetupInv'
    BY <1>3, ElectionSteps
  <1>4. ASSUME NEW r \in Runners, Leader(r) \/ Lock(r)
        PROVE  SetupInv'
    BY <1>4, WorkSteps, FinishSteps DEF Leader
  <1>5. ASSUME NEW p \in Processes, Register(p) \/ CloseShared(p) \/ Crash(p)
        PROVE  SetupInv'
    BY <1>5, ProcessSteps, CrashStep
  <1> QED  BY <1>1, <1>2, <1>3, <1>4, <1>5 DEF Next

\* Where a runner of a process that is not done may stand.
Early == {"lead", "lock", "setup"}

\* Only SetupOk sets the flag, and then its runner is the one leader; who comes
\* to lead or run setup has just read that the flag is not set.
LEMMA OnceStep ==
    ASSUME SetupInv, SetupOnce, [Next]_vars
    PROVE  SetupOnce'
  <1> DEFINE Quiet == /\ \A u \in Runners : pc'[u] \in Early => pc[u] \in Early
                      /\ \A p \in Processes : done'[p] => done[p]
  <1>1. Quiet => SetupOnce'
    BY DEF SetupOnce, Early, CheckpointerAssumption
  <1>2. CASE UNCHANGED vars
    BY <1>2, <1>1 DEF vars
  <1>3. ASSUME NEW r \in Runners,
               \/ GetPool(r) \/ AlreadyDone(r) \/ Follow(r) \/ FollowTimeout(r)
               \/ Connect(r) \/ SetupFail(r) \/ ClosePool(r) \/ Leave(r)
        PROVE  SetupOnce'
    <2>1. done' = done
      BY <1>3 DEF GetPool, AlreadyDone, Follow, FollowTimeout, Connect, SetupFail,
                  ClosePool, Leave, procVars
    <2>2. \A u \in Runners : pc'[u] \in Early => pc[u] \in Early
      BY <1>3 DEF GetPool, AlreadyDone, Follow, FollowTimeout, Connect, SetupFail,
                  ClosePool, Leave, Goto, Early, SetupInv, TypeOK
    <2> QED  BY <2>1, <2>2, <1>1
  <1>4. ASSUME NEW r \in Runners, ConnectFail(r) \/ Unlock(r) PROVE SetupOnce'
    <2>1. done' = done
      BY <1>4 DEF ConnectFail, Unlock
    <2>2. PICK end \in {"ready", "failed"} : Finish(r, end)
      BY <1>4 DEF ConnectFail, Unlock
    <2>3. \A u \in Runners : pc'[u] \in Early => pc[u] \in Early
      BY <2>2 DEF Finish, Early
    <2> QED  BY <2>1, <2>3, <1>1
  <1>5. ASSUME NEW r \in Runners, Reset(r) PROVE SetupOnce'
    <2>1. \A u \in Runners : pc'[u] \in Early => pc[u] \in Early
      BY <1>5 DEF Reset, Goto, Early, SetupInv, TypeOK
    <2>2. \A p \in Processes : done'[p] => done[p]
      BY <1>5 DEF Reset, SetupInv, TypeOK
    <2> QED  BY <2>1, <2>2, <1>1
  <1>6. ASSUME NEW r \in Runners, Lead(r) \/ Lock(r) PROVE SetupOnce'
    <2>1. done' = done /\ ~done[ProcOf[r]]
      BY <1>6 DEF Lead, Lock, procVars, SetupOnce
    <2>2. \A u \in Runners \ {r} : pc'[u] = pc[u]
      BY <1>6 DEF Lead, Lock, Goto, SetupInv, TypeOK
    <2> QED  BY <2>1, <2>2 DEF SetupOnce
  <1>7. ASSUME NEW r \in Runners, SetupOk(r) PROVE SetupOnce'
    <2>1. /\ pc' = [pc EXCEPT ![r] = "unlock"] /\ pc[r] = "setup"
          /\ done' = [done EXCEPT ![ProcOf[r]] = TRUE]
      BY <1>7 DEF SetupOk, Goto
    <2>2. ASSUME NEW u \in Runners, pc'[u] \in Early PROVE ~done'[ProcOf[u]]
      <3>1. u # r /\ pc[u] \in Early
        BY <2>1, <2>2 DEF Early, SetupInv, TypeOK
      <3>2. ProcOf[u] # ProcOf[r]
        BY <2>1, <3>1 DEF SetupInv, LoneLeader, Leading, Early
      <3>3. done'[ProcOf[u]] = done[ProcOf[u]]
        BY <2>1, <3>2 DEF SetupInv, TypeOK, CheckpointerAssumption
      <3> QED  BY <3>1, <3>3 DEF SetupOnce, Early
    <2> QED  BY <2>2 DEF SetupOnce, Early
  <1>8. ASSUME NEW p \in Processes, Register(p) \/ CloseShared(p) PROVE SetupOnce'
    <2>1. \A q \in Processes : done'[q] => done[q]
      BY <1>8 DEF Register, CloseShared, SetupInv, TypeOK
    <2>2. pc' = pc
      BY <1>8 DEF Register, CloseShared
    <2> QED  BY <2>1, <2>2, <1>1
  <1>9. ASSUME NEW p \in Processes, Crash(p) PROVE SetupOnce'
    <2>1. \A q \in Processes : done'[q] => done[q]
      BY <1>9 DEF Crash, SetupInv, TypeOK
    <2>2. \A u \in Runners : pc'[u] \in Early => pc[u] \in Early
      BY <1>9 DEF Crash, Early
    <2> QED  BY <2>1, <2>2, <1>1
  <1> QED  BY <1>2, <1>3, <1>4, <1>5, <1>6, <1>7, <1>8, <1>9 DEF Next, Leader

-----------------------------------------------------------------------------
(* The theorems.                                                           *)

\* The inductive invariant holds of every behaviour.
THEOREM SetupInvariance == Spec => []SetupInv
  BY SetupInit, SetupStep, PTL DEF Spec

\* Every variable keeps its type, for any runners, processes and pools.
THEOREM SetupTyping == Spec => []TypeOK
  <1>1. SetupInv => TypeOK  BY DEF SetupInv
  <1> QED  BY <1>1, SetupInvariance, PTL

\* setup_checkpointer has at most one leader in a process, the one whose event
\* the others wait for, whatever is reset, closed or registered meanwhile.
THEOREM SetupLoneLeader == Spec => []LoneLeader
  <1>1. SetupInv => LoneLeader  BY DEF SetupInv
  <1> QED  BY <1>1, SetupInvariance, PTL

\* The advisory lock keeps the setups of all processes apart.
THEOREM SetupsSerialized == Spec => []SetupSerialized
  <1>1. SetupInv => SetupSerialized
    BY DEF SetupInv, LockInv, Locking, SetupSerialized
  <1> QED  BY <1>1, SetupInvariance, PTL

\* Nobody of a process leads or runs setup while the process has it done.
THEOREM SetupRunsOnce == Spec => []SetupOnce
  <1>1. Init => SetupOnce
    BY DEF Init, SetupOnce
  <1>2. SetupInv /\ SetupOnce /\ [Next]_vars => SetupOnce'
    BY OnceStep
  <1> QED  BY <1>1, <1>2, SetupInvariance, PTL DEF Spec

\* No failure or crash leaves the advisory lock held.
THEOREM SetupLockReleased == Spec => []LockReleased
  <1>1. SetupInv => LockReleased
    BY DEF SetupInv, TypeOK, LockInv, Locking, LockReleased
  <1> QED  BY <1>1, SetupInvariance, PTL

\* SetupExclusive: leaders, setups and the lock are kept apart, whatever is
\* reset, closed, registered or crashes meanwhile.
THEOREM SetupsExclusive == Spec => []SetupExclusive
  BY SetupLoneLeader, SetupsSerialized, SetupRunsOnce, SetupLockReleased, PTL DEF SetupExclusive

\* A follower waits for the event of a leader that is at work.
THEOREM SetupFollowersHeard == Spec => []FollowersHeard
  <1>1. SetupInv => FollowersHeard
    BY DEF SetupInv, FollowInv, FollowersHeard
  <1> QED  BY <1>1, SetupInvariance, PTL

-----------------------------------------------------------------------------
(* That followers return needs fairness and stays with TLC; its safety     *)
(* part is proved.                                                         *)

\* The leader has a step to take other than a failure of its session.
LeaderCanMove(r) ==
    \/ pc[r] = "lead" /\ ~done[ProcOf[r]]
    \/ pc[r] = "lock" /\ dblock = NoRunner
    \/ pc[r] \in Locking

\* FollowersNeverStuck: the leader a follower waits for goes on, or waits for
\* a lock whose holder goes on and is itself no follower.
FollowersNeverStuck ==
    \A r \in Runners : pc[r] = "follow" =>
        \/ LeaderCanMove(follows[r])
        \/ /\ pc[follows[r]] = "lock"
           /\ dblock \in Runners /\ LeaderCanMove(dblock)

\* The steps a leader has to go.
ToGo(r) ==
    CASE pc[r] = "lead" -> 4
      [] pc[r] = "lock" -> 3
      [] pc[r] = "setup" -> 2
      [] pc[r] \in {"unlock", "abort"} -> 1
      [] OTHER -> 0

\* LeadersMove: while a follower waits its leader stays the same and never has
\* further to go, and every step of that leader brings it closer, although
\* runners reset the pool, daemons close it and other processes crash.
LeadersMove ==
    \A r, v \in Runners : pc[r] = "follow" /\ follows[r] = v /\ pc'[r] = "follow" =>
        /\ follows'[r] = v
        /\ ToGo(v)' <= ToGo(v)
        /\ Leader(v) \/ Lock(v) => ToGo(v)' < ToGo(v)

\* FollowersNeverStuck: setup_checkpointer leaves no follower waiting for a
\* leader, or behind a lock, that nothing will move.
THEOREM FollowersFreeOfDeadlock == Spec => []FollowersNeverStuck
  <1>1. SetupInv /\ SetupOnce => FollowersNeverStuck
    <2> SUFFICES ASSUME SetupInv, SetupOnce, NEW r \in Runners, pc[r] = "follow"
                 PROVE  \/ LeaderCanMove(follows[r])
                        \/ /\ pc[follows[r]] = "lock"
                           /\ dblock \in Runners /\ LeaderCanMove(dblock)
      BY DEF FollowersNeverStuck
    <2> DEFINE u == follows[r]
    <2>1. u \in Runners /\ pc[u] \in Leading
      BY DEF SetupInv, TypeOK, FollowInv
    <2>2. CASE pc[u] = "lead"
      BY <2>1, <2>2 DEF LeaderCanMove, SetupOnce
    <2>3. CASE pc[u] = "lock" /\ dblock = NoRunner
      BY <2>1, <2>3 DEF LeaderCanMove
    <2>4. CASE pc[u] = "lock" /\ dblock # NoRunner
      <3>1. dblock \in Runners /\ pc[dblock] \in Locking
        BY <2>4 DEF SetupInv, TypeOK, LockInv
      <3> QED  BY <2>4, <3>1 DEF LeaderCanMove
    <2>5. CASE pc[u] \in Locking
      BY <2>5 DEF LeaderCanMove
    <2> QED  BY <2>1, <2>2, <2>3, <2>4, <2>5 DEF Leading, Locking
  <1> QED  BY <1>1, SetupInvariance, SetupRunsOnce, PTL

\* What any step does to a follower that goes on waiting and to its leader: it
\* is a step of the leader, who has not finished, or passes both by.
LEMMA FollowerWaits ==
    ASSUME SetupInv, Next, NEW r \in Runners, pc[r] = "follow", pc'[r] = "follow"
    PROVE  /\ follows'[r] = follows[r]
           /\ \/ pc'[follows[r]] = pc[follows[r]]
              \/ Leader(follows[r]) \/ Lock(follows[r])
  <1> DEFINE v == follows[r]
  <1>1. /\ v \in Runners /\ pc[v] \in Leading /\ ProcOf[v] = ProcOf[r]
        /\ v # r /\ follows[v] = NoRunner
    BY DEF SetupInv, TypeOK, FollowInv, Leading
  <1>2. pc \in [Runners -> Steps] /\ follows \in [Runners -> Runners \cup {NoRunner}]
    BY DEF SetupInv, TypeOK
  <1> HIDE DEF v
  <1>3. ASSUME NEW u \in Runners,
               \/ GetPool(u) \/ AlreadyDone(u) \/ Lead(u)
               \/ Reset(u) \/ ClosePool(u) \/ Leave(u)
        PROVE  follows'[r] = follows[r] /\ pc'[v] = pc[v]
    <2>1. UNCHANGED follows
      BY <1>3 DEF GetPool, AlreadyDone, Lead, Reset, ClosePool, Leave
    <2>2. \E place \in Steps : Goto(u, place)
      BY <1>3 DEF GetPool, AlreadyDone, Lead, Reset, ClosePool, Leave, Steps, Leading
    <2>3. pc[u] \notin Leading
      BY <1>3 DEF GetPool, AlreadyDone, Lead, Reset, ClosePool, Leave, Leading
    <2> QED  BY <1>1, <1>2, <2>1, <2>2, <2>3 DEF Goto
  <1>4. ASSUME NEW u \in Runners, Follow(u) \/ FollowTimeout(u)
        PROVE  follows'[r] = follows[r] /\ pc'[v] = pc[v]
    <2>1. u # r /\ u # v
      BY <1>1, <1>2, <1>4 DEF Follow, FollowTimeout, Goto, Leading
    <2> QED  BY <1>1, <1>2, <1>4, <2>1 DEF Follow, FollowTimeout, Goto
  <1>5. ASSUME NEW u \in Runners, Connect(u) \/ Lock(u) \/ SetupOk(u) \/ SetupFail(u)
        PROVE  follows'[r] = follows[r] /\ (u # v => pc'[v] = pc[v])
    BY <1>1, <1>2, <1>5 DEF Connect, Lock, SetupOk, SetupFail, Goto
  <1>6. ASSUME NEW u \in Runners, ConnectFail(u) \/ Unlock(u)
        PROVE  follows'[r] = follows[r] /\ (u # v => pc'[v] = pc[v])
    <2>1. PICK end \in {"ready", "failed"} : Finish(u, end)
      BY <1>6 DEF ConnectFail, Unlock
    <2>2. u # r /\ follows[r] # u
      BY <2>1 DEF Finish
    <2> QED  BY <1>1, <1>2, <2>1, <2>2 DEF Finish
  <1>7. ASSUME NEW p \in Processes, Register(p) \/ CloseShared(p)
        PROVE  follows'[r] = follows[r] /\ pc'[v] = pc[v]
    BY <1>7 DEF Register, CloseShared
  <1>8. ASSUME NEW p \in Processes, Crash(p)
        PROVE  follows'[r] = follows[r] /\ pc'[v] = pc[v]
    <2>1. ProcOf[r] # p
      BY <1>8 DEF Crash
    <2> QED  BY <1>1, <1>8, <2>1 DEF Crash
  <1>9. ASSUME NEW u \in Runners, Leader(u) \/ Lock(u)
        PROVE  /\ follows'[r] = follows[r]
               /\ pc'[v] = pc[v] \/ Leader(v) \/ Lock(v)
    BY <1>5, <1>6, <1>9 DEF Leader
  <1>10. /\ follows'[r] = follows[r]
         /\ pc'[v] = pc[v] \/ Leader(v) \/ Lock(v)
    BY <1>3, <1>4, <1>7, <1>8, <1>9 DEF Next
  <1> QED  BY <1>10 DEF v

\* LeadersMove: a follower's leader is replaced by no other and comes closer to
\* the end with every step of its own: with fairness to it, the event is set.
THEOREM LeadersMoveOn == Spec => [][LeadersMove]_vars
  <1>1. ASSUME SetupInv, Next PROVE LeadersMove
    <2> SUFFICES ASSUME NEW r \in Runners, NEW v \in Runners,
                        pc[r] = "follow", follows[r] = v, pc'[r] = "follow"
                 PROVE  /\ follows'[r] = v
                        /\ ToGo(v)' <= ToGo(v)
                        /\ Leader(v) \/ Lock(v) => ToGo(v)' < ToGo(v)
      BY DEF LeadersMove
    <2>1. follows'[r] = v /\ (pc'[v] = pc[v] \/ Leader(v) \/ Lock(v))
      BY <1>1, FollowerWaits
    <2>2. pc \in [Runners -> Steps]
      BY <1>1 DEF SetupInv, TypeOK
    <2>3. ASSUME Leader(v) \/ Lock(v)
          PROVE  \/ pc[v] = "lead" /\ pc'[v] = "lock"
                 \/ pc[v] = "lock" /\ pc'[v] \in {"setup", "unlock"}
                 \/ pc[v] = "setup" /\ pc'[v] \in {"unlock", "abort"}
      <3>1. CASE Connect(v)
        BY <2>2, <3>1 DEF Connect, Goto
      <3>2. CASE Lock(v)
        BY <2>2, <3>2 DEF Lock, Goto
      <3>3. CASE SetupOk(v) \/ SetupFail(v)
        BY <2>2, <3>3 DEF SetupOk, SetupFail, Goto
      <3>4. CASE ConnectFail(v) \/ Unlock(v)
        <4>1. PICK end \in {"ready", "failed"} : Finish(v, end)
          BY <3>4 DEF ConnectFail, Unlock
        <4>2. pc'[r] \in {"ready", "failed"}
          BY <2>2, <4>1 DEF Finish
        <4> QED  BY <4>2
      <3> QED  BY <2>3, <3>1, <3>2, <3>3, <3>4 DEF Leader
    <2>4. Leader(v) \/ Lock(v) => ToGo(v)' < ToGo(v)
      BY <2>3 DEF ToGo
    <2>5. ToGo(v) \in Nat /\ ToGo(v)' \in Nat
      BY DEF ToGo
    <2>6. pc'[v] = pc[v] => ToGo(v)' = ToGo(v)
      BY DEF ToGo
    <2> QED  BY <2>1, <2>2, <2>4, <2>5, <2>6
  <1>2. SetupInv /\ [Next]_vars => [LeadersMove]_vars
    BY <1>1
  <1> QED  BY <1>2, SetupInvariance, PTL DEF Spec
=============================================================================
