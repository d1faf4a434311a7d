-------------------------- MODULE McpRegistryProofs -------------------------
(***************************************************************************)
(* Proofs about McpRegistry, for any registries, servers and loops.        *)
(***************************************************************************)
EXTENDS McpRegistry, TLAPS

-----------------------------------------------------------------------------
(* Types.  A loop that has a job to do is one whose job is known.          *)

Working(l) == pc[l] \in {"new", "backoff", "open", "close", "await"}

McpInv ==
    /\ TypeOK
    /\ \A l \in Loops : Working(l) => job[l] \in Registries \X Servers
    /\ \A t \in McpTasks : pc[t] = "await" => awaits[t] \in Loops

\* A server is entered and reached under the registry that attempts it.
LEMMA JobType ==
    ASSUME McpInv, NEW t \in McpTasks, t \in Loops => Working(t)
    PROVE  Job(t) \in Registries \X Servers
  BY DEF McpInv, Job, McpTasks, Callers

LEMMA McpInit == Init => McpInv
  BY McpAssumption DEF Init, McpInv, TypeOK, Working, McpTasks, Statuses, Steps

\* The end of a task leaves the types of pc and job alone.
LEMMA LoopReturnsType ==
    ASSUME McpInv, NEW t \in McpTasks, LoopReturns(t)
    PROVE  /\ pc' \in [McpTasks -> Steps]
           /\ job' \in [Loops -> (Registries \X Servers) \cup {NoJob}]
           /\ \A k \in McpTasks : pc'[k] = IF k # t THEN pc[k]
                                        ELSE IF t \in Loops \/ t[3] = "init" THEN "done" ELSE "idle"
           /\ \A l \in Loops : Working(l)' => job'[l] \in Registries \X Servers
  BY DEF McpInv, TypeOK, LoopReturns, Steps, Working, McpTasks

\* What a loop writes when its attempt has returned is a status.
LEMMA MarkedType ==
    ASSUME McpInv, NEW t \in McpTasks, t \in Loops => Working(t), MarkConnected(t)
    PROVE  conn' \in [Registries \X Servers -> Statuses]
  BY DEF McpInv, TypeOK, MarkConnected, Statuses

LEMMA McpStep == McpInv /\ [Next]_vars => McpInv'
  <1> SUFFICES ASSUME McpInv, [Next]_vars PROVE McpInv'
    OBVIOUS
  <1> USE McpAssumption DEF McpInv, TypeOK
  <1>0. CASE UNCHANGED vars
    BY <1>0 DEF vars, mcpVars, Working
  <1>1. ASSUME NEW r \in Registries, Initialize(r) \/ Initialized(r) \/ Shutdown(r) PROVE McpInv'
    <2>1. \A l \in Loops : pc'[l] = pc[l]
      BY <1>1 DEF Initialize, Initialized, Shutdown, InitTasks, Callers, McpTasks
    <2>2. \A t \in McpTasks : pc'[t] \in {pc[t], "open", "idle"}
      BY <1>1 DEF Initialize, Initialized, Shutdown, InitTasks
    <2>3. pc' \in [McpTasks -> Steps]
      BY <1>1, <2>2 DEF Initialize, Initialized, Shutdown, Steps
    <2>4. \A t \in McpTasks : pc'[t] = "await" => pc[t] = "await"
      BY <2>2
    <2> QED  BY <1>1, <2>1, <2>3, <2>4 DEF Initialize, Initialized, Shutdown, Working
  <1>2. ASSUME NEW r \in Hosted, NEW s \in Servers, HandleDisconnect(r, s) \/ HandleReconnect(r, s)
        PROVE  McpInv'
    <2>1. <<r, s, "host">> \in McpTasks \ Loops
      BY DEF McpTasks, Callers
    <2>2. <<r, s>> \in Registries \X Servers
      OBVIOUS
    <2>3. CASE HandleDisconnect(r, s)
      BY <2>2, <2>3 DEF HandleDisconnect, Statuses, Working
    <2>4. CASE HandleReconnect(r, s)
      BY <2>1, <2>4 DEF HandleReconnect, mcpVars, Steps, Working
    <2> QED  BY <1>2, <2>3, <2>4
  <1>3. ASSUME NEW l \in Loops, Loop(l) PROVE McpInv'
    <2>1. l \in McpTasks
      BY DEF McpTasks
    <2>2. CASE LoopStart(l)
      BY <2>1, <2>2 DEF LoopStart, mcpVars, Steps, Working
    <2>3. CASE Attempt(l)
      BY <2>1, <2>3 DEF Attempt, Steps, Statuses, Working
    <2>4. CASE Cancelled(l)
      BY <2>1, <2>4, LoopReturnsType DEF Cancelled, mcpVars
    <2> QED  BY <1>3, <2>2, <2>3, <2>4 DEF Loop
  <1>4. ASSUME NEW t \in McpTasks, Connect(t) PROVE McpInv'
    <2>1. CASE ConnectOk(t)
      <3>1. Job(t) \in Registries \X Servers
        BY <2>1, JobType DEF ConnectOk, Connecting, Working
      <3>2. conn' \in [Registries \X Servers -> Statuses]
        BY <2>1, <3>1 DEF ConnectOk, Replace, Statuses
      <3>3. pc' \in [McpTasks -> Steps]
        BY <2>1 DEF ConnectOk, Steps
      <3>4. \A l \in Loops : Working(l)' => Working(l)
        BY <2>1 DEF ConnectOk, Working, McpTasks
      <3> QED  BY <2>1, <3>1, <3>2, <3>3, <3>4 DEF ConnectOk, Replace
    <2>5. CASE SessionClosed(t)
      <3>1. conn' \in [Registries \X Servers -> Statuses]
        BY <2>5, MarkedType DEF SessionClosed, Working
      <3> QED  BY <2>5, <3>1, LoopReturnsType DEF SessionClosed
    <2>2. CASE ConnectFailStdio(t)
      <3>1. Job(t) \in Registries \X Servers
        BY <2>2, JobType DEF ConnectFailStdio, Connecting, Working
      <3> QED  BY <2>2, <3>1, LoopReturnsType DEF ConnectFailStdio
    <2>3. CASE ConnectFailRemote(t)
      <3>1. Job(t) \in Registries \X Servers
        BY <2>3, JobType DEF ConnectFailRemote, Connecting, Working
      <3>2. Job(t)[2] \in Servers
        BY <3>1
      <3>3. PICK l \in Loops :
              /\ Unused(l)
              /\ active' = [active EXCEPT ![Job(t)[2]] = l]
              /\ job' = [job EXCEPT ![l] = Job(t)]
              /\ Cancel(t, active[Job(t)[2]], l)
              /\ pc' = [pc EXCEPT ![t] = "await", ![l] = "new"]
              /\ awaits' = [awaits EXCEPT ![t] = l]
        BY <2>3 DEF ConnectFailRemote
      <3>4. doomed' \in SUBSET Loops
        BY <3>2, <3>3 DEF Cancel
      <3>5. l \in McpTasks /\ l # t
        BY <2>3, <3>3 DEF ConnectFailRemote, Connecting, Unused, McpTasks
      <3>6. pc' \in [McpTasks -> Steps] /\ awaits' \in [McpTasks -> Loops \cup {NoLoop}]
        BY <3>3 DEF Steps
      <3>7. \A k \in Loops : Working(k)' => job'[k] \in Registries \X Servers
        BY <2>3, <3>1, <3>3, <3>5 DEF Working, ConnectFailRemote, Connecting, McpTasks
      <3>8. \A k \in McpTasks : pc'[k] = "await" => awaits'[k] \in Loops
        BY <3>3, <3>5
      <3> QED  BY <2>3, <3>1, <3>3, <3>4, <3>6, <3>7, <3>8 DEF ConnectFailRemote, Replace, Statuses
    <2>4. CASE Wake(t)
      <3>1. conn' \in [Registries \X Servers -> Statuses]
        BY <2>4, MarkedType DEF Wake, Working
      <3> QED  BY <2>4, <3>1, LoopReturnsType DEF Wake
    <2> QED  BY <1>4, <2>1, <2>2, <2>3, <2>4, <2>5 DEF Connect
  <1> QED  BY <1>0, <1>1, <1>2, <1>3, <1>4 DEF Next

\* TypeOK: every variable of the registries and their retry loops keeps its
\* type.
THEOREM McpTyping == Spec => []TypeOK
  <1>1. McpInv => TypeOK
    BY DEF McpInv
  <1> QED  BY <1>1, McpInit, McpStep, PTL DEF Spec

\* The types with what else McpInv says, for the proofs below.
LEMMA McpInductive == Spec => []McpInv
  BY McpInit, McpStep, PTL DEF Spec

-----------------------------------------------------------------------------
(* The table of retry loops.                                               *)

\* A loop that is trying is the one of the table: whoever put another there
\* has doomed it, or it had stopped trying to be the one who did.
Tabled == \A l \in Loops : Trying(l) => active[job[l][2]] = l

LEMMA TabledStep == McpInv /\ Tabled /\ [Next]_vars => Tabled'
  <1> SUFFICES ASSUME McpInv, Tabled, [Next]_vars, NEW k \in Loops, Trying(k)'
               PROVE  active'[job'[k][2]] = k
    BY DEF Tabled
  <1> USE McpAssumption DEF McpInv, TypeOK, Tabled, Trying
  <1> k \in McpTasks
    BY DEF McpTasks
  <1>0. CASE UNCHANGED vars
    BY <1>0 DEF vars, mcpVars
  <1>1. ASSUME NEW r \in Registries, Initialize(r) \/ Initialized(r) \/ Shutdown(r)
        PROVE  active'[job'[k][2]] = k
    <2>1. pc'[k] = pc[k]
      BY <1>1 DEF Initialize, Initialized, Shutdown, InitTasks, Callers
    <2> QED  BY <1>1, <2>1 DEF Initialize, Initialized, Shutdown
  <1>2. ASSUME NEW r \in Hosted, NEW s \in Servers, HandleDisconnect(r, s) \/ HandleReconnect(r, s)
        PROVE  active'[job'[k][2]] = k
    <2>1. <<r, s, "host">> \in McpTasks /\ <<r, s, "host">> # k
      BY DEF McpTasks, Callers
    <2> QED  BY <1>2, <2>1 DEF HandleDisconnect, HandleReconnect, mcpVars
  <1>3. ASSUME NEW l \in Loops, Loop(l) PROVE active'[job'[k][2]] = k
    <2>1. CASE LoopStart(l) \/ Attempt(l)
      BY <2>1 DEF LoopStart, Attempt, mcpVars
    <2>2. CASE Cancelled(l)
      BY <2>2 DEF Cancelled, LoopReturns, mcpVars, McpTasks
    <2> QED  BY <1>3, <2>1, <2>2 DEF Loop
  <1>4. ASSUME NEW t \in McpTasks, Connect(t) PROVE active'[job'[k][2]] = k
    <2>1. CASE ConnectOk(t) \/ SessionClosed(t) \/ ConnectFailStdio(t) \/ Wake(t)
      BY <2>1 DEF ConnectOk, SessionClosed, ConnectFailStdio, Wake, LoopReturns, Connecting
    <2>2. CASE ConnectFailRemote(t)
      <3> DEFINE s == Job(t)[2]
      <3>1. Job(t) \in Registries \X Servers
        BY <2>2, JobType DEF ConnectFailRemote, Connecting, Working
      <3>2. PICK l \in Loops :
              /\ Unused(l)
              /\ active' = [active EXCEPT ![s] = l]
              /\ job' = [job EXCEPT ![l] = Job(t)]
              /\ Cancel(t, active[s], l)
              /\ pc' = [pc EXCEPT ![t] = "await", ![l] = "new"]
        BY <2>2 DEF ConnectFailRemote
      <3>3. l # t /\ s \in Servers
        BY <2>2, <3>1, <3>2 DEF ConnectFailRemote, Connecting, Unused
      <3>4. k # t
        BY <3>2, <3>3
      <3>5. CASE k = l
        BY <3>2, <3>3, <3>5
      <3>6. CASE k # l
        <4>1. pc'[k] = pc[k] /\ job'[k] = job[k]
          BY <3>2, <3>4, <3>6
        <4>2. doomed \subseteq doomed'
          BY <3>2 DEF Cancel
        <4>3. active[job[k][2]] = k
          BY <4>1, <4>2
        <4>4. job[k][2] # s
          BY <3>2, <3>4, <4>1, <4>3 DEF Cancel
        <4> QED  BY <3>2, <3>3, <4>1, <4>3, <4>4
      <3> QED  BY <3>5, <3>6
    <2> QED  BY <1>4, <2>1, <2>2 DEF Connect
  <1> QED  BY <1>0, <1>1, <1>2, <1>3, <1>4 DEF Next

\* OneRetry: however many registries share the table, however their loops
\* fail, cancel each other and are cancelled, one of them at most is trying
\* to reach a server.
THEOREM McpOneRetry == Spec => []OneRetry
  <1>1. Init => Tabled
    BY DEF Init, Tabled, Trying, McpTasks
  <1>2. McpInv /\ Tabled => OneRetry
    BY DEF Tabled, OneRetry
  <1> QED  BY <1>1, <1>2, TabledStep, McpInductive, PTL DEF Spec

-----------------------------------------------------------------------------
(* The status of a server.                                                 *)

\* Only remote servers get a loop, and the table has it under no other name.
RemoteJobs ==
    \A l \in Loops : Working(l) =>
        /\ job[l][2] \in Remote
        /\ \A s \in Servers : active[s] = l => s = job[l][2]

LEMMA RemoteStep == McpInv /\ RemoteJobs /\ [Next]_vars => RemoteJobs'
  <1> DEFINE Known(k) == job[k][2] \in Remote /\ \A s \in Servers : active[s] = k => s = job[k][2]
  <1> SUFFICES ASSUME McpInv, RemoteJobs, [Next]_vars, NEW k \in Loops, Working(k)'
               PROVE  Known(k)'
    BY DEF RemoteJobs
  <1> USE McpAssumption DEF McpInv, TypeOK, RemoteJobs, Working
  <1> k \in McpTasks
    BY DEF McpTasks
  <1>0. CASE UNCHANGED vars
    BY <1>0 DEF vars, mcpVars
  <1>1. ASSUME NEW r \in Registries, Initialize(r) \/ Initialized(r) \/ Shutdown(r)
        PROVE  Known(k)'
    <2>1. pc'[k] = pc[k]
      BY <1>1 DEF Initialize, Initialized, Shutdown, InitTasks, Callers
    <2> QED  BY <1>1, <2>1 DEF Initialize, Initialized, Shutdown
  <1>2. ASSUME NEW r \in Hosted, NEW s \in Servers, HandleDisconnect(r, s) \/ HandleReconnect(r, s)
        PROVE  Known(k)'
    <2>1. <<r, s, "host">> \in McpTasks /\ <<r, s, "host">> # k
      BY DEF McpTasks, Callers
    <2> QED  BY <1>2, <2>1 DEF HandleDisconnect, HandleReconnect, mcpVars
  <1>3. ASSUME NEW l \in Loops, Loop(l) PROVE Known(k)'
    BY <1>3 DEF Loop, LoopStart, Attempt, Cancelled, LoopReturns, mcpVars, McpTasks
  <1>4. ASSUME NEW t \in McpTasks, Connect(t) PROVE Known(k)'
    <2>1. CASE ConnectOk(t) \/ SessionClosed(t) \/ ConnectFailStdio(t) \/ Wake(t)
      BY <2>1 DEF ConnectOk, SessionClosed, ConnectFailStdio, Wake, LoopReturns, Connecting
    <2>2. CASE ConnectFailRemote(t)
      <3>1. Job(t)[2] \in Remote
        BY <2>2 DEF ConnectFailRemote
      <3>2. PICK l \in Loops :
              /\ Unused(l)
              /\ active' = [active EXCEPT ![Job(t)[2]] = l]
              /\ job' = [job EXCEPT ![l] = Job(t)]
              /\ pc' = [pc EXCEPT ![t] = "await", ![l] = "new"]
        BY <2>2 DEF ConnectFailRemote
      <3>3. CASE k = l
        BY <3>1, <3>2, <3>3 DEF Unused
      <3>4. CASE k # l
        <4>1. pc[t] \in {"open", "close"}
          BY <2>2 DEF ConnectFailRemote, Connecting
        <4>2. pc'[k] = IF k = t THEN "await" ELSE pc[k]
          BY <3>2, <3>4
        <4> QED  BY <3>2, <3>4, <4>1, <4>2
      <3> QED  BY <3>3, <3>4
    <2> QED  BY <1>4, <2>1, <2>2 DEF Connect
  <1> QED  BY <1>0, <1>1, <1>2, <1>3, <1>4 DEF Next

LEMMA RemoteInductive == Spec => []RemoteJobs
  <1>1. Init => RemoteJobs
    BY McpAssumption DEF Init, RemoteJobs, Working, McpTasks
  <1> QED  BY <1>1, RemoteStep, McpInductive, PTL DEF Spec

\* Whoever captured the connection that the registry has now sleeps, or has not
\* decided its attempt: by the time an attempt returns it has replaced it.
FreshRuns == \A l \in fresh : pc[l] \in {"backoff", "open"}

EarnedInv == FreshRuns /\ StatusEarned

\* So what a loop writes then goes to a connection nobody looks at.
LEMMA MarkedNowhere ==
    ASSUME FreshRuns, NEW t \in McpTasks, pc[t] \in {"close", "await"}, MarkConnected(t)
    PROVE  conn' = conn
  BY DEF FreshRuns, MarkConnected

LEMMA EarnedStep == McpInv /\ RemoteJobs /\ EarnedInv /\ [Next]_vars => EarnedInv'
  <1> SUFFICES ASSUME McpInv, RemoteJobs, EarnedInv, [Next]_vars PROVE FreshRuns' /\ StatusEarned'
    BY DEF EarnedInv
  <1> USE McpAssumption DEF McpInv, TypeOK, EarnedInv, FreshRuns, StatusEarned
  <1>a. Loops \subseteq McpTasks /\ Registries \X Remote \subseteq Registries \X Servers
    BY DEF McpTasks
  <1>0. CASE UNCHANGED vars
    BY <1>0 DEF vars, mcpVars
  <1>1. ASSUME NEW r \in Registries, Initialize(r) \/ Initialized(r) \/ Shutdown(r)
        PROVE  FreshRuns' /\ StatusEarned'
    <2>1. \A l \in Loops : pc'[l] = pc[l]
      BY <1>1 DEF Initialize, Initialized, Shutdown, InitTasks, Callers, McpTasks
    <2> QED  BY <1>1, <2>1 DEF Initialize, Initialized, Shutdown
  <1>2. ASSUME NEW r \in Hosted, NEW s \in Servers, HandleDisconnect(r, s) \/ HandleReconnect(r, s)
        PROVE  FreshRuns' /\ StatusEarned'
    <2>1. <<r, s, "host">> \in McpTasks \ Loops /\ <<r, s>> \in Registries \X Servers
      BY DEF McpTasks, Callers
    <2>2. CASE HandleDisconnect(r, s)
      BY <1>a, <2>1, <2>2 DEF HandleDisconnect
    <2>3. CASE HandleReconnect(r, s)
      BY <1>a, <2>1, <2>3 DEF HandleReconnect, mcpVars
    <2> QED  BY <1>2, <2>2, <2>3
  <1>3. ASSUME NEW l \in Loops, Loop(l) PROVE FreshRuns' /\ StatusEarned'
    <2>1. StatusEarned'
      BY <1>3, <1>a DEF Loop, LoopStart, Attempt, Cancelled, Working, mcpVars
    <2>2. FreshRuns'
      BY <1>3, <1>a DEF Loop, LoopStart, Attempt, Cancelled, LoopReturns
    <2> QED  BY <2>1, <2>2
  <1>4. ASSUME NEW t \in McpTasks, Connect(t) PROVE FreshRuns' /\ StatusEarned'
    <2>1. CASE ConnectOk(t)
      <3>1. Job(t) \in Registries \X Servers
        BY <2>1, JobType DEF ConnectOk, Working
      <3>2. FreshRuns'
        <4>1. \A l \in fresh' : l \in fresh /\ job[l] # Job(t)
          BY <2>1 DEF ConnectOk, Replace
        <4>2. \A l \in fresh' : l # t
          BY <4>1, <1>a DEF Job
        <4> QED  BY <2>1, <4>1, <4>2, <1>a DEF ConnectOk
      <3> QED  BY <2>1, <3>1, <3>2, <1>a DEF ConnectOk, Replace
    <2>2. CASE SessionClosed(t) \/ Wake(t)
      <3>1. /\ MarkConnected(t) /\ LoopReturns(t) /\ UNCHANGED <<fresh, last>>
            /\ pc[t] \in {"close", "await"}
        BY <2>2 DEF SessionClosed, Wake
      <3>2. conn' = conn /\ t \notin fresh
        BY <3>1, MarkedNowhere
      <3> QED  BY <3>1, <3>2, <1>a DEF LoopReturns
    <2>3. CASE ConnectFailStdio(t)
      <3>1. t \notin Loops
        BY <2>3 DEF ConnectFailStdio, Connecting, RemoteJobs, Working, Job
      <3>2. Job(t) \notin Registries \X Remote
        BY <2>3 DEF ConnectFailStdio
      <3> QED  BY <2>3, <3>1, <3>2, <1>a DEF ConnectFailStdio, LoopReturns
    <2>4. CASE ConnectFailRemote(t)
      <3>1. Job(t) \in Registries \X Servers
        BY <2>4, JobType DEF ConnectFailRemote, Connecting, Working
      <3>2. PICK n \in Loops : Unused(n) /\ pc' = [pc EXCEPT ![t] = "await", ![n] = "new"]
        BY <2>4 DEF ConnectFailRemote
      <3>3. \A l \in fresh' : l \in fresh /\ job[l] # Job(t)
        BY <2>4 DEF ConnectFailRemote, Replace
      <3>4. \A l \in fresh' : l # t /\ l # n
        BY <3>2, <3>3 DEF Job, Unused
      <3> QED  BY <2>4, <3>1, <3>2, <3>3, <3>4, <1>a DEF ConnectFailRemote, Replace
    <2> QED  BY <1>4, <2>1, <2>2, <2>3, <2>4 DEF Connect
  <1> QED  BY <1>0, <1>1, <1>2, <1>3, <1>4 DEF Next

\* StatusEarned: a remote server's "connected" says that the last that was
\* heard of it is a success, whatever its loops write when their attempts
\* return.
THEOREM McpStatusEarned == Spec => []StatusEarned
  <1>1. Init => EarnedInv
    BY McpAssumption DEF Init, EarnedInv, FreshRuns, StatusEarned
  <1>2. EarnedInv => StatusEarned
    BY DEF EarnedInv
  <1> QED  BY <1>1, <1>2, EarnedStep, McpInductive, RemoteInductive, PTL DEF Spec

-----------------------------------------------------------------------------
(* Retries of a process with one registry.                                 *)

OneRegistry == \A r, q \in Registries : r = q

\* A step that leaves a server "reconnecting" and l trying to reach it.
LEMMA AliveStep ==
    OneRegistry /\ McpInv /\ RemoteJobs /\ RetryAlive /\ [Next]_vars => RetryAlive'
  <1> SUFFICES ASSUME OneRegistry, McpInv, RemoteJobs, RetryAlive, [Next]_vars,
                      NEW j \in Registries \X Servers, conn'[j] = "reconnecting"
               PROVE  \E l \in Loops : job'[l] = j /\ Retrying(l)'
    BY DEF RetryAlive
  <1> USE McpAssumption DEF McpInv, TypeOK, RetryAlive, Retrying, Trying
  <1>0. CASE UNCHANGED vars
    BY <1>0 DEF vars, mcpVars
  <1>1. ASSUME NEW r \in Registries, Initialize(r) \/ Initialized(r) \/ Shutdown(r)
        PROVE  \E l \in Loops : job'[l] = j /\ Retrying(l)'
    <2>1. \A l \in Loops : pc'[l] = pc[l]
      BY <1>1 DEF Initialize, Initialized, Shutdown, InitTasks, Callers, McpTasks
    <2> QED  BY <1>1, <2>1 DEF Initialize, Initialized, Shutdown
  <1>2. ASSUME NEW r \in Hosted, NEW s \in Servers, HandleDisconnect(r, s) \/ HandleReconnect(r, s)
        PROVE  \E l \in Loops : job'[l] = j /\ Retrying(l)'
    <2>1. <<r, s, "host">> \in McpTasks \ Loops /\ <<r, s>> \in Registries \X Servers
      BY DEF McpTasks, Callers
    <2>2. CASE HandleDisconnect(r, s)
      BY <2>1, <2>2 DEF HandleDisconnect
    <2>3. CASE HandleReconnect(r, s)
      BY <2>1, <2>3 DEF HandleReconnect, mcpVars, McpTasks
    <2> QED  BY <1>2, <2>2, <2>3
  <1>3. ASSUME NEW k \in Loops, Loop(k)
        PROVE  \E l \in Loops : job'[l] = j /\ Retrying(l)'
    <2>1. CASE LoopStart(k)
      BY <2>1 DEF LoopStart, mcpVars, McpTasks
    <2>2. CASE Attempt(k)
      <3>1. CASE conn[j] = "reconnecting"
        BY <2>2, <3>1 DEF Attempt, McpTasks
      <3>2. CASE conn[j] # "reconnecting"
        <4>1. job[k] = j
          BY <2>2, <3>2 DEF Attempt, Working
        <4> QED  BY <2>2, <4>1 DEF Attempt, McpTasks
      <3> QED  BY <3>1, <3>2
    <2>3. CASE Cancelled(k)
      BY <2>3 DEF Cancelled, LoopReturns, mcpVars, McpTasks
    <2> QED  BY <1>3, <2>1, <2>2, <2>3 DEF Loop
  <1>4. ASSUME NEW t \in McpTasks, Connect(t)
        PROVE  \E l \in Loops : job'[l] = j /\ Retrying(l)'
    <2>1. CASE SessionClosed(t) \/ Wake(t)
      <3>1. MarkConnected(t) /\ LoopReturns(t) /\ UNCHANGED doomed /\ pc[t] \in {"close", "await"}
        BY <2>1 DEF SessionClosed, Wake
      <3>2. conn[j] = "reconnecting"
        BY <3>1 DEF MarkConnected
      <3>3. PICK l \in Loops : job[l] = j /\ Retrying(l)
        BY <3>2
      <3>4. l # t
        BY <3>1, <3>3
      <3> QED  BY <3>1, <3>3, <3>4 DEF LoopReturns, McpTasks
    <2>2. ASSUME ConnectOk(t) \/ ConnectFailRemote(t)
          PROVE  Job(t) # j /\ conn[j] = "reconnecting"
      <3>1. Job(t) \in Registries \X Servers
        BY <2>2, JobType DEF ConnectOk, ConnectFailRemote, Connecting, Working
      <3> QED  BY <2>2, <3>1 DEF ConnectOk, ConnectFailRemote, Replace
    <2>3. CASE ConnectOk(t)
      <3>1. PICK l \in Loops : job[l] = j /\ Retrying(l)
        BY <2>2, <2>3
      <3>2. l # t
        BY <2>2, <2>3, <3>1 DEF Job
      <3> QED  BY <2>3, <3>1, <3>2 DEF ConnectOk, LoopReturns, McpTasks
    <2>4. CASE ConnectFailStdio(t)
      <3>1. PICK l \in Loops : job[l] = j /\ Retrying(l)
        BY <2>4 DEF ConnectFailStdio
      <3>2. l # t
        BY <2>4, <3>1 DEF ConnectFailStdio, Job, RemoteJobs, Working
      <3> QED  BY <2>4, <3>1, <3>2 DEF ConnectFailStdio, LoopReturns, McpTasks
    <2>5. CASE ConnectFailRemote(t)
      <3> DEFINE s == Job(t)[2]
      <3>1. PICK l \in Loops : job[l] = j /\ Retrying(l)
        BY <2>2, <2>5
      <3>2. Job(t) \in Registries \X Servers /\ j[2] # s
        <4>1. Job(t) \in Registries \X Servers
          BY <2>5, JobType DEF ConnectFailRemote, Connecting, Working
        <4> QED  BY <2>2, <2>5, <4>1 DEF OneRegistry
      <3>3. PICK n \in Loops :
              /\ Unused(n)
              /\ job' = [job EXCEPT ![n] = Job(t)]
              /\ Cancel(t, active[s], n)
              /\ pc' = [pc EXCEPT ![t] = "await", ![n] = "new"]
        BY <2>5 DEF ConnectFailRemote
      <3>4. l # t /\ l # n
        BY <2>2, <2>5, <3>1, <3>3 DEF Job, Unused
      <3>5. active[s] # l
        BY <3>1, <3>2 DEF RemoteJobs, Working
      <3>6. job'[l] = j /\ pc'[l] = pc[l]
        BY <3>1, <3>3, <3>4 DEF McpTasks
      <3>7. l \notin doomed'
        BY <3>1, <3>3, <3>4, <3>5 DEF Cancel
      <3> QED  BY <3>1, <3>6, <3>7
    <2> QED  BY <1>4, <2>1, <2>3, <2>4, <2>5 DEF Connect
  <1> QED  BY <1>0, <1>1, <1>2, <1>3, <1>4 DEF Next

\* RetryAlive: in a process with one registry, "reconnecting" is true: a loop
\* of the registry is at it, whatever else connects, fails or disconnects.
THEOREM McpRetryAlive == OneRegistry /\ Spec => []RetryAlive
  <1>1. Init => RetryAlive
    BY McpAssumption DEF Init, RetryAlive
  <1>3. SUFFICES ASSUME OneRegistry PROVE Spec => []RetryAlive
    OBVIOUS
  <1>4. McpInv /\ RemoteJobs /\ RetryAlive /\ [Next]_vars => RetryAlive'
    BY <1>3, AliveStep
  <1> QED  BY <1>1, <1>4, McpInductive, RemoteInductive, PTL DEF Spec

-----------------------------------------------------------------------------
(* Loops that await loops.                                                 *)

\* McpTasks never await each other in a ring: the loop that a failed attempt
\* awaits is new, and it is not one that is awaited still.
NoAwaitRing ==
    \A S \in SUBSET Loops : S # {} =>
        ~ \A l \in S : pc[l] = "await" /\ awaits[l] \in S

\* An awaited loop is one that runs or has ended.
AwaitedRuns == \A t \in McpTasks : pc[t] = "await" => pc[awaits[t]] # "idle"

\* The task has a step to take: the loop starts, wakes up from its sleep or
\* is cancelled, the attempt returns, or the awaited loop has ended.
McpCanMove(t) ==
    \/ t \in doomed
    \/ pc[t] \in {"open", "close"}
    \/ t \in Loops /\ pc[t] \in {"new", "backoff"}
    \/ pc[t] = "await" /\ pc[awaits[t]] = "done"

\* McpNeverStuck: follow any task that awaits a loop, and whatever that loop
\* awaits in turn: one of them can move.  Retry loops await the loops they
\* have scheduled themselves, cancel and are cancelled through the table of
\* the process, and none of it makes initialize wait for nothing.
McpNeverStuck ==
    \A S \in SUBSET McpTasks :
        /\ \E t \in S : pc[t] = "await"
        /\ \A t \in S : pc[t] = "await" => awaits[t] \in S
        => \E t \in S : McpCanMove(t)

LEMMA WaitStep ==
    McpInv /\ NoAwaitRing /\ AwaitedRuns /\ [Next]_vars => NoAwaitRing' /\ AwaitedRuns'
  <1> SUFFICES ASSUME McpInv, NoAwaitRing, AwaitedRuns, [Next]_vars
               PROVE  NoAwaitRing' /\ AwaitedRuns'
    OBVIOUS
  <1> USE McpAssumption DEF McpInv, TypeOK
  <1> Loops \subseteq McpTasks
    BY DEF McpTasks
  \* It is enough that nobody begins to await and no loop goes idle.
  <1> DEFINE Quiet ==
        /\ \A t \in McpTasks : pc'[t] = "await" => pc[t] = "await" /\ awaits'[t] = awaits[t]
        /\ \A l \in Loops : pc'[l] = "idle" => pc[l] = "idle"
  <1>1. ASSUME Quiet PROVE NoAwaitRing' /\ AwaitedRuns'
    BY <1>1 DEF NoAwaitRing, AwaitedRuns
  <1>2. CASE UNCHANGED vars
    BY <1>1, <1>2 DEF vars
  <1>3. ASSUME NEW r \in Registries, Initialize(r) \/ Initialized(r) \/ Shutdown(r) PROVE Quiet
    BY <1>3 DEF Initialize, Initialized, Shutdown, InitTasks, Callers, McpTasks
  <1>4. ASSUME NEW r \in Hosted, NEW s \in Servers, HandleDisconnect(r, s) \/ HandleReconnect(r, s)
        PROVE  Quiet
    <2>1. <<r, s, "host">> \in McpTasks \ Loops
      BY DEF McpTasks, Callers
    <2> QED  BY <1>4, <2>1 DEF HandleDisconnect, HandleReconnect, mcpVars
  <1>5. ASSUME NEW l \in Loops, Loop(l) PROVE Quiet
    BY <1>5 DEF Loop, LoopStart, Attempt, Cancelled, LoopReturns, mcpVars
  <1>6. ASSUME NEW t \in McpTasks, ConnectOk(t) \/ SessionClosed(t) \/ ConnectFailStdio(t) \/ Wake(t)
        PROVE  Quiet
    BY <1>6 DEF ConnectOk, SessionClosed, ConnectFailStdio, Wake, LoopReturns
  <1>7. ASSUME NEW t \in McpTasks, ConnectFailRemote(t) PROVE NoAwaitRing' /\ AwaitedRuns'
    <2>1. PICK l \in Loops : /\ Unused(l)
                             /\ pc' = [pc EXCEPT ![t] = "await", ![l] = "new"]
                             /\ awaits' = [awaits EXCEPT ![t] = l]
      BY <1>7 DEF ConnectFailRemote
    <2>2. l # t /\ l \in McpTasks
      BY <1>7, <2>1 DEF ConnectFailRemote, Connecting, Unused
    <2>3. /\ pc'[t] = "await" /\ pc'[l] = "new" /\ awaits'[t] = l
          /\ \A k \in McpTasks \ {t, l} : pc'[k] = pc[k] /\ awaits'[k] = awaits[k]
      BY <2>1, <2>2
    <2>4. NoAwaitRing'
      <3> SUFFICES ASSUME NEW S \in SUBSET Loops, S # {},
                          \A k \in S : pc'[k] = "await" /\ awaits'[k] \in S
                   PROVE  FALSE
        BY DEF NoAwaitRing
      <3>1. l \notin S
        BY <2>3
      <3>2. t \notin S
        BY <2>3, <3>1
      <3>3. \A k \in S : pc[k] = "await" /\ awaits[k] \in S
        BY <2>3, <3>1, <3>2
      <3> QED  BY <3>3 DEF NoAwaitRing
    <2>5. AwaitedRuns'
      <3> SUFFICES ASSUME NEW k \in McpTasks, pc'[k] = "await" PROVE pc'[awaits'[k]] # "idle"
        BY DEF AwaitedRuns
      <3>1. CASE k = t
        BY <2>3, <3>1
      <3>2. CASE k # t
        <4>1. k # l
          BY <2>3
        <4>2. pc[k] = "await" /\ awaits'[k] = awaits[k] /\ awaits[k] # l
          BY <2>1, <2>3, <3>2, <4>1 DEF Unused
        <4>3. awaits[k] \in McpTasks /\ pc[awaits[k]] # "idle"
          BY <4>2 DEF AwaitedRuns
        <4> QED  BY <2>3, <4>2, <4>3
      <3> QED  BY <3>1, <3>2
    <2> QED  BY <2>4, <2>5
  <1> HIDE DEF Quiet
  <1> QED  BY <1>1, <1>2, <1>3, <1>4, <1>5, <1>6, <1>7 DEF Next, Connect

\* McpNeverStuck, for any registries, servers and loops.
THEOREM McpFreeOfDeadlock == Spec => []McpNeverStuck
  <1>1. Init => NoAwaitRing /\ AwaitedRuns
    BY DEF Init, NoAwaitRing, AwaitedRuns, McpTasks
  <1>2. McpInv /\ NoAwaitRing /\ AwaitedRuns => McpNeverStuck
    <2> SUFFICES ASSUME McpInv, NoAwaitRing, AwaitedRuns, NEW S \in SUBSET McpTasks,
                        \E t \in S : pc[t] = "await",
                        \A t \in S : pc[t] = "await" => awaits[t] \in S
                 PROVE  \E t \in S : McpCanMove(t)
      BY DEF McpNeverStuck
    <2> DEFINE W == {l \in S : l \in Loops /\ pc[l] = "await"}
    <2>1. ASSUME NEW t \in S, pc[t] = "await", awaits[t] \notin W
          PROVE  \E k \in S : McpCanMove(k)
      <3>1. /\ awaits[t] \in Loops /\ awaits[t] \in S
            /\ pc[awaits[t]] \notin {"idle", "await"}
        BY <2>1 DEF McpInv, AwaitedRuns
      <3>2. pc[awaits[t]] \in Steps
        BY <3>1 DEF McpInv, TypeOK, McpTasks
      <3>3. pc[awaits[t]] \in {"new", "backoff", "open", "close", "done"}
        BY <3>1, <3>2 DEF Steps
      <3> QED  BY <2>1, <3>1, <3>3 DEF McpCanMove
    <2>2. CASE W = {}
      BY <2>1, <2>2
    <2>3. CASE W # {}
      <3>1. W \in SUBSET Loops
        OBVIOUS
      <3>2. PICK l \in W : ~(pc[l] = "await" /\ awaits[l] \in W)
        BY <2>3, <3>1 DEF NoAwaitRing
      <3> QED  BY <2>1, <3>2
    <2> QED  BY <2>2, <2>3
  <1> QED  BY <1>1, <1>2, WaitStep, McpInductive, PTL DEF Spec
=============================================================================
