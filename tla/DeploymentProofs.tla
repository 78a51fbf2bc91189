-------------------------- MODULE DeploymentProofs --------------------------
(***************************************************************************)
(* The deployment pipeline executes every job at most once, for every      *)
(* fleet, every number of jobs and every number of faults; it uses the     *)
(* executor as Host assumes, so that what HostProofs shows of the executor *)
(* holds of the whole system; what the ledger says of a job agrees with    *)
(* what happened on its host; and the pipeline implements Rollout.         *)
(*                                                                         *)
(* Executed at most once: only pending jobs are listed, a job is executed  *)
(* only after a start request made it running, and no statement ever makes *)
(* an existing row pending again (LedgerMoves).  So a job that was         *)
(* executed is not pending, is in no queue, and is not being started; what *)
(* an agent still holds in its queue was never executed, because a job     *)
(* belongs to one host and an agent holds it in one place.                 *)
(*                                                                         *)
(* The ledger and the hosts: a job's execution ends once, so it is         *)
(* reported once: at any time there is at most one request to complete it, *)
(* in the hands of its agent or among the late ones, and none once its     *)
(* release is recorded.  A request to fail it exists only after its        *)
(* execution failed, when its release is not live and cannot become live   *)
(* any more.  LedgerInv says this for each agent (WorkerKnows), for the    *)
(* late requests of each job (LateKnows) and for the rows; each step       *)
(* concerns one job and one agent, and OneJob and NoJob say what remains   *)
(* to be shown of it.                                                      *)
(***************************************************************************)
EXTENDS Deployment, HostProofs, FiniteSetTheorems

HasJob(h) == Pc(h) \in {"starting", "working", "reporting"}

\* j is a job of host h.
Mine(h, j) == j \in JobIds /\ Exists(j) /\ HostOf(job[j].app) = h

\* Which requests an agent can be waiting for.
CallFits(h) ==
  /\ Pc(h) \in {"down", "idle", "next", "working"} => call[h] = "none"
  /\ Pc(h) = "starting" => call[h] \in {"start", "ok", "error"}
  /\ Pc(h) = "reporting" => call[h] \in {"complete", "finish", "fail", "ok", "error"}

QueueFresh(h) == \A j \in agent[h].queue : Mine(h, j) /\ execs[j] = 0

JobInOnePlace(h) ==
  HasJob(h) => Mine(h, agent[h].job) /\ agent[h].job \notin agent[h].queue

ExecutionKnown(h) ==
  LET j == agent[h].job
  IN /\ Pc(h) = "starting" =>
          execs[j] = 0 /\ (call[h] = "ok" => job[j].status \notin Pending)
     /\ Pc(h) \in {"working", "reporting"} => execs[j] = 1
     /\ Pc(h) # "working" => work[h] = NoWork
     /\ Pc(h) = "working" => Busy(h) /\ work[h].job = j /\ work[h].root = RootFor(j)

AgentInv(h) ==
  CallFits(h) /\ QueueFresh(h) /\ JobInOnePlace(h) /\ ExecutionKnown(h)

Once ==
  \A j \in JobIds :
    \/ execs[j] = 0
    \/ execs[j] = 1 /\ Exists(j) /\ job[j].status \notin Pending

LateKnown == \A op \in Ops, j \in JobIds : late[op][j] > 0 => Exists(j)

Inv ==
  /\ JobsTypeOK /\ DeploymentTypeOK /\ HostInv
  /\ \A h \in Hosts : AgentInv(h)
  /\ Once
  /\ LateKnown

-----------------------------------------------------------------------------
\* What a step may do to the ledger: rows stay, keep their app and action,
\* and never become pending again.
LedgerMoves ==
  \A j \in JobIds : Exists(j) =>
    /\ Exists(j)'
    /\ job'[j].app = job[j].app
    /\ job'[j].action = job[j].action
    /\ job[j].status \notin Pending => job'[j].status \notin Pending

LEMMA RowOrNot ==
  ASSUME JobsTypeOK, NEW j \in JobIds
  PROVE  Exists(j) <=> job[j] \in Row
  BY DEF JobsTypeOK, Exists, Row, NoRow, Statuses

(* A status update of an existing row.                                     *)
LEMMA SetStatusMoves ==
  ASSUME JobsTypeOK, NEW j \in JobIds, Exists(j),
         NEW s \in Statuses \ Pending, SetStatus(j, s)
  PROVE  JobsTypeOK' /\ LedgerMoves
<1>1. job[j] \in Row
  BY RowOrNot
<1>2. job' = [job EXCEPT ![j].status = s] /\ releases' = releases
  BY DEF SetStatus
<1>3. job'[j] \in Row /\ job'[j] = [job[j] EXCEPT !.status = s]
  BY <1>1, <1>2 DEF JobsTypeOK, Row
<1>4. \A i \in JobIds \ {j} : job'[i] = job[i]
  BY <1>2 DEF JobsTypeOK
<1>5. JobsTypeOK'
  BY <1>2, <1>3, <1>4 DEF JobsTypeOK
<1>6. LedgerMoves
  BY <1>1, <1>3, <1>4 DEF LedgerMoves, Exists, Row, NoRow
<1>. QED BY <1>5, <1>6

(* A new row.                                                              *)
LEMMA InsertJobMoves ==
  ASSUME JobsTypeOK, NEW j \in JobIds, NEW app \in Apps, NEW action \in Actions,
         NEW s \in Statuses, NEW n \in Nat, InsertJob(j, app, action, s, n)
  PROVE  JobsTypeOK' /\ LedgerMoves
<1>1. JobsTypeOK'
  BY DEF JobsTypeOK, InsertJob, Row
<1>2. LedgerMoves
  BY DEF JobsTypeOK, InsertJob, LedgerMoves, Exists
<1>. QED BY <1>1, <1>2

(* A new release.                                                          *)
LEMMA InsertReleaseMoves ==
  ASSUME JobsTypeOK, NEW j \in JobIds, Exists(j), InsertRelease(j)
  PROVE  JobsTypeOK' /\ LedgerMoves
<1>1. job[j].app \in Apps
  BY RowOrNot DEF Row
<1>2. JobsTypeOK'
  BY <1>1 DEF JobsTypeOK, InsertRelease, Release
<1>. QED BY <1>2 DEF InsertRelease, LedgerMoves, Exists

LEMMA UsersMove ==
  ASSUME JobsTypeOK, Users
  PROVE  JobsTypeOK' /\ LedgerMoves
<1>1. ASSUME NEW j \in JobIds, NEW app \in Apps, NEW action \in Actions,
             NEW s \in Statuses, CreateDeployment(j, app, action, s)
      PROVE  JobsTypeOK' /\ LedgerMoves
  BY <1>1, InsertJobMoves DEF CreateDeployment
<1>2. ASSUME NEW j \in JobIds, NEW app \in Apps, SetupApp(j, app)
      PROVE  JobsTypeOK' /\ LedgerMoves
  BY <1>2, InsertJobMoves DEF SetupApp, Actions, Statuses
<1>3. ASSUME NEW j \in JobIds, NEW n \in DOMAIN releases, RollbackRelease(j, n)
      PROVE  JobsTypeOK' /\ LedgerMoves
  <2>1. n \in Nat /\ releases[n].app \in Apps
    <3>1. releases \in Seq(Release) /\ n \in 1 .. Len(releases)
      BY <1>3 DEF JobsTypeOK
    <3>2. releases[n] \in Release
      BY <3>1
    <3>3. n \in Nat
      BY <3>1
    <3>. QED BY <3>2, <3>3 DEF Release
  <2>. QED BY <1>3, <2>1, InsertJobMoves DEF RollbackRelease, Actions, Statuses
<1>4. ASSUME NEW j \in JobIds, CancelDeployment(j)
      PROVE  JobsTypeOK' /\ LedgerMoves
  BY <1>4, SetStatusMoves DEF CancelDeployment, Statuses, Pending
<1>. QED BY <1>1, <1>2, <1>3, <1>4 DEF Users

LEMMA ServeMoves ==
  ASSUME JobsTypeOK, NEW op \in Ops, NEW j \in JobIds, Exists(j), NEW after,
         Serve(op, j, after)
  PROVE  /\ JobsTypeOK' /\ LedgerMoves
         /\ after = IF op = "complete" THEN "finish" ELSE "ok"
         /\ op = "start" => job'[j].status \notin Pending
<1>1. CASE op # "complete"
  <2>1. SetStatus(j, StatusAfter[op]) /\ after = "ok"
    BY <1>1 DEF Serve
  <2>2. StatusAfter[op] \in Statuses \ Pending
    BY <1>1 DEF StatusAfter, Ops, Statuses, Pending
  <2>3. JobsTypeOK' /\ LedgerMoves
    BY <2>1, <2>2, SetStatusMoves
  <2>4. job'[j].status = StatusAfter[op]
    BY <2>1, RowOrNot DEF SetStatus, JobsTypeOK, Row
  <2>. QED BY <1>1, <2>1, <2>2, <2>3, <2>4
<1>2. CASE op = "complete"
  <2>1. RecordRelease(j) /\ after = "finish"
    BY <1>2 DEF Serve
  <2>2. CASE InsertRelease(j)
    BY <1>2, <2>1, <2>2, InsertReleaseMoves
  <2>3. CASE UNCHANGED jobsVars
    BY <1>2, <2>1, <2>3 DEF jobsVars, JobsTypeOK, LedgerMoves, Exists
  <2>. QED BY <2>1, <2>2, <2>3 DEF RecordRelease
<1>. QED BY <1>1, <1>2

LEMMA NothingMoves == UNCHANGED job => LedgerMoves
  BY DEF LedgerMoves, Exists

-----------------------------------------------------------------------------
(* An agent that does not move keeps its part of the invariant, as long as *)
(* none of its jobs is executed.                                           *)
LEMMA AgentKept ==
  ASSUME Inv, NEW h \in Hosts, LedgerMoves,
         agent'[h] = agent[h], call'[h] = call[h], work'[h] = work[h],
         \A j \in JobIds : Mine(h, j) => execs'[j] = execs[j]
  PROVE  AgentInv(h)'
<1>1. \A j : Mine(h, j) => Mine(h, j)'
  BY DEF Mine, LedgerMoves
<1>2. AgentInv(h)
  BY DEF Inv
<1>3. CallFits(h)'
  BY <1>2 DEF AgentInv, CallFits, Pc
<1>4. QueueFresh(h)'
  BY <1>1, <1>2 DEF AgentInv, QueueFresh, Mine
<1>5. JobInOnePlace(h)'
  BY <1>1, <1>2 DEF AgentInv, JobInOnePlace, HasJob, Pc
<1>6. ExecutionKnown(h)'
  <2>1. HasJob(h) => Mine(h, agent[h].job) /\ execs'[agent[h].job] = execs[agent[h].job]
    BY <1>2 DEF AgentInv, JobInOnePlace, Mine
  <2>. QED BY <1>2, <2>1 DEF AgentInv, ExecutionKnown, HasJob, Pc, Busy,
           LedgerMoves, Mine, RootFor
<1>. QED BY <1>3, <1>4, <1>5, <1>6 DEF AgentInv

LEMMA OnceKept ==
  ASSUME Inv, LedgerMoves, UNCHANGED execs
  PROVE  Once'
  BY DEF Inv, Once, LedgerMoves

(* What is left to show when one agent moves.                              *)
LEMMA AgentMoves ==
  ASSUME Inv, NEW h \in Hosts, LedgerMoves,
         (JobsTypeOK /\ DeploymentTypeOK /\ HostInv)',
         \A g \in Hosts \ {h} :
           agent'[g] = agent[g] /\ call'[g] = call[g] /\ work'[g] = work[g],
         \A g \in Hosts \ {h}, j \in JobIds : Mine(g, j) => execs'[j] = execs[j],
         AgentInv(h)', Once',
         \A op \in Ops, j \in JobIds : late'[op][j] > 0 => Exists(j)
  PROVE  Inv'
<1>1. \A g \in Hosts \ {h} : AgentInv(g)'
  BY AgentKept
<1>2. LateKnown'
  BY DEF LateKnown, LedgerMoves
<1>. QED BY <1>1, <1>2 DEF Inv

-----------------------------------------------------------------------------
(* Users change rows no agent can have in hand in a harmful way.           *)
LEMMA UserStepKeepsInv == Inv /\ UserStep => Inv'
<1> SUFFICES ASSUME Inv, UserStep PROVE Inv'
  OBVIOUS
<1>1. JobsTypeOK' /\ LedgerMoves
  BY UsersMove DEF UserStep, Inv
<1>2. HostInv' /\ DeploymentTypeOK'
  BY HostInvStutters DEF UserStep, Inv, DeploymentTypeOK, deployVars
<1>3. \A h \in Hosts : AgentInv(h)'
  BY <1>1, AgentKept DEF UserStep, hostVars, deployVars
<1>4. Once' /\ LateKnown'
  BY <1>1, OnceKept DEF Inv, UserStep, hostVars, deployVars, LateKnown, LedgerMoves
<1>. QED BY <1>1, <1>2, <1>3, <1>4 DEF Inv

(* The server answers a request.                                           *)
LEMMA HandleKeepsInv ==
  ASSUME Inv, NEW h \in Hosts, Handle(h)
  PROVE  Inv'
<1> DEFINE j == agent[h].job
<1>1. AgentInv(h) /\ call[h] \in Ops
  BY DEF Inv, Handle
<1>2. HasJob(h) /\ Pc(h) # "working" /\ j \in JobIds /\ Mine(h, j)
  BY <1>1 DEF Inv, DeploymentTypeOK, Agent, AgentInv, CallFits, JobInOnePlace,
     Ops, HasJob, Pc, Mine
<1>3. PICK after \in {"ok", "finish"} : Serve(call[h], j, after) /\ Answer(h, after)
  BY DEF Handle
<1>4. /\ JobsTypeOK' /\ LedgerMoves
      /\ after = IF call[h] = "complete" THEN "finish" ELSE "ok"
      /\ call[h] = "start" => job'[j].status \notin Pending
  BY <1>1, <1>2, <1>3, ServeMoves DEF Inv, Mine
<1>5. HostInv' /\ UNCHANGED <<agent, late, faults, execs, work>>
  BY HostInvStutters DEF Handle, Inv, hostVars
<1>6. call' = [call EXCEPT ![h] = after]
  BY <1>3 DEF Answer
<1>7. DeploymentTypeOK'
  BY <1>5, <1>6 DEF Inv, DeploymentTypeOK, Ops
<1>8. AgentInv(h)'
  <2>1. call'[h] = after
    BY <1>6 DEF Inv, DeploymentTypeOK
  <2>2. CallFits(h)'
    BY <1>1, <1>4, <1>5, <2>1 DEF AgentInv, CallFits, Pc, Ops
  <2>3. QueueFresh(h)' /\ JobInOnePlace(h)'
    BY <1>1, <1>4, <1>5 DEF AgentInv, QueueFresh, JobInOnePlace, HasJob, Pc, Mine,
       LedgerMoves
  <2>4. ExecutionKnown(h)'
    BY <1>1, <1>2, <1>4, <1>5, <2>1
    DEF AgentInv, ExecutionKnown, HasJob, Pc, CallFits, Ops
  <2>. QED BY <2>2, <2>3, <2>4 DEF AgentInv
<1>9. Once' /\ \A op \in Ops, i \in JobIds : late'[op][i] > 0 => Exists(i)
  BY <1>4, <1>5, OnceKept DEF Inv, LateKnown
<1>. QED BY <1>4, <1>5, <1>6, <1>7, <1>8, <1>9, AgentMoves DEF Inv, DeploymentTypeOK

(* A request nobody waits for is served, or lost.                          *)
LEMMA HandleLateKeepsInv ==
  ASSUME Inv, NEW op \in Ops, NEW j \in JobIds,
         HandleLate(op, j) \/ LoseLate(op, j)
  PROVE  Inv'
<1>1. late[op][j] \in Nat /\ late[op][j] > 0 /\ Exists(j)
  BY DEF Inv, DeploymentTypeOK, HandleLate, LoseLate, LateKnown
<1>2. JobsTypeOK' /\ LedgerMoves
  <2>1. CASE HandleLate(op, j)
    BY <1>1, <2>1, ServeMoves DEF Inv, HandleLate
  <2>2. CASE LoseLate(op, j)
    BY <2>2, NothingMoves DEF Inv, LoseLate, jobsVars, JobsTypeOK
  <2>. QED BY <2>1, <2>2
<1>3. HostInv' /\ UNCHANGED <<agent, call, faults, execs, work>>
  BY HostInvStutters DEF HandleLate, LoseLate, Inv, hostVars
<1>4. /\ late' \in [Ops -> [JobIds -> Nat]]
      /\ \A o \in Ops, i \in JobIds : late'[o][i] > 0 => late[o][i] > 0 \/ i = j
  <2>1. CASE HandleLate(op, j)
    BY <1>1, <2>1 DEF Inv, DeploymentTypeOK, HandleLate
  <2>2. CASE LoseLate(op, j)
    BY <1>1, <2>2 DEF Inv, DeploymentTypeOK, LoseLate
  <2>. QED BY <2>1, <2>2
<1>5. DeploymentTypeOK'
  BY <1>3, <1>4 DEF Inv, DeploymentTypeOK
<1>6. \A h \in Hosts : AgentInv(h)'
  BY <1>2, <1>3, AgentKept
<1>7. Once' /\ LateKnown'
  BY <1>1, <1>2, <1>3, <1>4, OnceKept DEF Inv, LateKnown, LedgerMoves
<1>. QED BY <1>2, <1>3, <1>5, <1>6, <1>7 DEF Inv

(* Abandoning a request only makes it a late one.                          *)
LEMMA AbandonedIsKnown ==
  ASSUME Inv, NEW h \in Hosts, Abandon(h)
  PROVE  /\ late' \in [Ops -> [JobIds -> Nat]]
         /\ \A op \in Ops, j \in JobIds : late'[op][j] > 0 => Exists(j)
<1>1. CASE call[h] \in Ops
  <2>1. HasJob(h) /\ agent[h].job \in JobIds /\ Exists(agent[h].job)
    BY <1>1 DEF Inv, AgentInv, CallFits, JobInOnePlace, HasJob, Mine, Ops, Pc,
       DeploymentTypeOK, Agent
  <2>. QED BY <1>1, <2>1 DEF Inv, DeploymentTypeOK, LateKnown, Abandon
<1>2. CASE call[h] \notin Ops
  BY <1>2 DEF Inv, DeploymentTypeOK, LateKnown, Abandon
<1>. QED BY <1>1, <1>2

(* The agent gets no answer, or an error.                                  *)
LEMMA NoAnswerKeepsInv ==
  ASSUME Inv, NEW h \in Hosts, CallFails(h) \/ GiveUp(h)
  PROVE  Inv'
<1>1. /\ UNCHANGED <<job, releases, agent, execs, work>>
      /\ call[h] \in Ops \cup {"ok"}
      /\ call' = [call EXCEPT ![h] = "error"]
      /\ faults' = faults + 1
      /\ UNCHANGED hostVars
  BY DEF CallFails, GiveUp, Answer, Fault, jobsVars, hostVars
<1>2. /\ late' \in [Ops -> [JobIds -> Nat]]
      /\ \A op \in Ops, j \in JobIds : late'[op][j] > 0 => Exists(j)
  BY AbandonedIsKnown DEF CallFails, GiveUp, Inv, DeploymentTypeOK, LateKnown
<1>3. JobsTypeOK' /\ LedgerMoves /\ HostInv'
  BY <1>1, NothingMoves, HostInvStutters DEF Inv, JobsTypeOK
<1>4. DeploymentTypeOK'
  BY <1>1, <1>2 DEF Inv, DeploymentTypeOK
<1>5. AgentInv(h)'
  BY <1>1 DEF Inv, DeploymentTypeOK, AgentInv, CallFits, QueueFresh, JobInOnePlace,
     ExecutionKnown, HasJob, Pc, Mine, Exists, Ops, Busy, RootFor
<1>. QED BY <1>1, <1>2, <1>3, <1>4, <1>5, AgentMoves, OnceKept
         DEF Inv, DeploymentTypeOK

LEMMA CrashKeepsInv ==
  ASSUME Inv, NEW h \in Hosts, Crash(h)
  PROVE  Inv'
<1>1. /\ UNCHANGED <<job, releases, execs>>
      /\ agent' = [agent EXCEPT ![h] = [pc |-> "down", queue |-> {}]]
      /\ call' = [call EXCEPT ![h] = "none"]
      /\ work' = [work EXCEPT ![h] = NoWork]
      /\ faults' = faults + 1
  BY DEF Crash, Become, Answer, Fault, Kill, jobsVars
<1>2. /\ late' \in [Ops -> [JobIds -> Nat]]
      /\ \A op \in Ops, j \in JobIds : late'[op][j] > 0 => Exists(j)
  BY AbandonedIsKnown DEF Crash
<1>3. JobsTypeOK' /\ LedgerMoves /\ HostInv'
  BY <1>1, NothingMoves, KillKeepsInv DEF Inv, JobsTypeOK, Crash
<1>4. DeploymentTypeOK'
  BY <1>1, <1>2 DEF Inv, DeploymentTypeOK, Agent
<1>5. AgentInv(h)'
  BY <1>1 DEF Inv, HostInv, HostTypeOK, DeploymentTypeOK, AgentInv, CallFits,
     QueueFresh, JobInOnePlace, ExecutionKnown, HasJob, Pc
<1>. QED BY <1>1, <1>2, <1>3, <1>4, <1>5, AgentMoves, OnceKept
         DEF Inv, DeploymentTypeOK, HostInv, HostTypeOK

-----------------------------------------------------------------------------
(* The agent's loop.                                                       *)

(* A turn of the loop outside an execution: start, poll, end of a tick,    *)
(* the next job, a start that failed, a report that was answered.          *)
LEMMA LoopKeepsInv ==
  ASSUME Inv, NEW h \in Hosts,
         \/ Start(h) \/ Poll(h) \/ EndTick(h) \/ StartFailed(h) \/ GotReport(h)
         \/ \E j \in JobIds : Take(h, j)
  PROVE  Inv'
<1>1. /\ UNCHANGED <<job, releases, late, faults, execs, work>>
      /\ UNCHANGED hostVars
  BY DEF Start, Poll, EndTick, StartFailed, GotReport, Take, jobsVars, hostVars
<1>2. JobsTypeOK' /\ LedgerMoves /\ HostInv'
  BY <1>1, NothingMoves, HostInvStutters DEF Inv, JobsTypeOK
<1>3. \A j : Mine(h, j) => Mine(h, j)'
  BY <1>1 DEF Mine, Exists
<1>4. agent[h] \in Agent /\ AgentInv(h)
  BY DEF Inv, DeploymentTypeOK
<1>5. CASE Start(h) \/ EndTick(h)
  <2>1. /\ agent' = [agent EXCEPT ![h] = [pc |-> "idle", queue |-> {}]]
        /\ call' = call /\ Pc(h) \in {"down", "next"}
    BY <1>5 DEF Start, EndTick, Become
  <2>2. DeploymentTypeOK'
    BY <1>1, <2>1 DEF Inv, DeploymentTypeOK, Agent
  <2>3. AgentInv(h)'
    BY <1>1, <1>4, <2>1 DEF Inv, DeploymentTypeOK, AgentInv, CallFits, QueueFresh,
       JobInOnePlace, ExecutionKnown, HasJob, Pc
  <2>. QED BY <1>1, <1>2, <2>1, <2>2, <2>3, AgentMoves, OnceKept
           DEF Inv, DeploymentTypeOK, LateKnown
<1>6. CASE Poll(h)
  <2>1. /\ agent' = [agent EXCEPT ![h] = [pc |-> "next", queue |-> ListPending(h)]]
        /\ call' = call /\ Pc(h) = "idle"
    BY <1>6 DEF Poll, Become
  <2>2. ASSUME NEW j \in ListPending(h) PROVE Mine(h, j) /\ execs[j] = 0
    <3>1. j \in JobIds /\ job[j].status \in Pending /\ HostOf(job[j].app) = h
      BY DEF ListPending
    <3>2. Exists(j)
      BY <3>1 DEF Exists, NoRow, Pending
    <3>. QED BY <3>1, <3>2 DEF Inv, Once, Mine
  <2>3. DeploymentTypeOK'
    BY <1>1, <2>1 DEF Inv, DeploymentTypeOK, Agent, ListPending
  <2>4. AgentInv(h)'
    BY <1>1, <1>3, <1>4, <2>1, <2>2 DEF Inv, DeploymentTypeOK, AgentInv, CallFits,
       QueueFresh, JobInOnePlace, ExecutionKnown, HasJob, Pc
  <2>. QED BY <1>1, <1>2, <2>1, <2>3, <2>4, AgentMoves, OnceKept
           DEF Inv, DeploymentTypeOK, LateKnown
<1>7. CASE StartFailed(h) \/ GotReport(h)
  <2>1. /\ agent' = [agent EXCEPT ![h] = [pc |-> "next", queue |-> agent[h].queue]]
        /\ call' = [call EXCEPT ![h] = "none"]
        /\ Pc(h) \in {"starting", "reporting"}
    BY <1>7 DEF StartFailed, GotReport, Become, Answer
  <2>2. agent[h].queue \in SUBSET JobIds
    BY <1>4 DEF Agent
  <2>3. DeploymentTypeOK'
    BY <1>1, <2>1, <2>2 DEF Inv, DeploymentTypeOK, Agent
  <2>4. AgentInv(h)'
    BY <1>1, <1>3, <1>4, <2>1 DEF Inv, DeploymentTypeOK, AgentInv, CallFits,
       QueueFresh, JobInOnePlace, ExecutionKnown, HasJob, Pc
  <2>. QED BY <1>1, <1>2, <2>1, <2>3, <2>4, AgentMoves, OnceKept
           DEF Inv, DeploymentTypeOK, LateKnown
<1>8. ASSUME NEW j \in JobIds, Take(h, j) PROVE Inv'
  <2>1. /\ agent' = [agent EXCEPT ![h] = [pc |-> "starting",
                                         queue |-> agent[h].queue \ {j}, job |-> j]]
        /\ call' = [call EXCEPT ![h] = "start"]
        /\ Pc(h) = "next" /\ j \in agent[h].queue
    BY <1>8 DEF Take, Become, Answer
  <2>2. agent[h].queue \in SUBSET JobIds
    BY <1>4 DEF Agent
  <2>3. DeploymentTypeOK'
    BY <1>1, <2>1, <2>2 DEF Inv, DeploymentTypeOK, Agent, Ops
  <2>4. AgentInv(h)'
    BY <1>1, <1>3, <1>4, <2>1 DEF Inv, DeploymentTypeOK, AgentInv, CallFits,
       QueueFresh, JobInOnePlace, ExecutionKnown, HasJob, Pc
  <2>. QED BY <1>1, <1>2, <2>1, <2>3, <2>4, AgentMoves, OnceKept
           DEF Inv, DeploymentTypeOK, LateKnown
<1>. QED BY <1>5, <1>6, <1>7, <1>8

(* Beginning an execution: the job was never executed before, and no other *)
(* agent has it, as it belongs to this host.                               *)
LEMMA GotStartIsHandOver ==
  ASSUME Inv, NEW h \in Hosts, GotStart(h)
  PROVE  LET j == agent[h].job
         IN /\ j \in JobIds /\ Mine(h, j) /\ job[j].status \notin Pending
            /\ RootFor(j) \in Roots
            /\ job[j].action \in {"deploy", "setup_app", "rollback"}
            /\ HandOver(h, j, RootFor(j), job[j].action)
<1> DEFINE j == agent[h].job
<1>1. AgentInv(h) /\ Pc(h) = "starting" /\ call[h] = "ok"
  BY DEF Inv, GotStart, Accepted
<1>2. Mine(h, j) /\ execs[j] = 0 /\ work[h] = NoWork /\ job[j].status \notin Pending
  BY <1>1 DEF AgentInv, JobInOnePlace, ExecutionKnown, HasJob
<1>3. job[j] \in Row
  BY <1>2, RowOrNot DEF Mine, Inv
<1>4. RootFor(j) \in Roots /\ RootHost[RootFor(j)] = h
  BY <1>2, <1>3, FleetAssumption DEF RootFor, Row, Mine, HostOf
<1>5. job[j].action \in {"deploy", "setup_app", "rollback"}
  BY <1>3 DEF Row, Actions
<1>. QED BY <1>2, <1>4, <1>5 DEF HandOver, GotStart, Mine

LEMMA GotStartKeepsInv ==
  ASSUME Inv, NEW h \in Hosts, GotStart(h)
  PROVE  Inv'
<1> DEFINE j == agent[h].job
<1>1. /\ j \in JobIds /\ Mine(h, j) /\ job[j].status \notin Pending
      /\ RootFor(j) \in Roots
      /\ job[j].action \in {"deploy", "setup_app", "rollback"}
      /\ HandOver(h, j, RootFor(j), job[j].action)
  BY GotStartIsHandOver
<1>2. HostInv'
  BY <1>1, HandOverKeepsInv DEF Inv
<1>3. /\ UNCHANGED <<job, releases, late, faults>>
      /\ agent' = [agent EXCEPT ![h] = [agent[h] EXCEPT !.pc = "working"]]
      /\ call' = [call EXCEPT ![h] = "none"]
      /\ work' = [work EXCEPT ![h] = [step |-> FirstStep(job[j].action),
                                      job |-> j, root |-> RootFor(j)]]
      /\ execs' = [execs EXCEPT ![j] = @ + 1]
      /\ execs[j] = 0
  BY <1>1 DEF GotStart, Become, Answer, Begin, jobsVars, HandOver
<1>4. execs \in [JobIds -> Nat] /\ work \in [Hosts -> Work \cup {NoWork}]
  BY DEF Inv, HostInv, HostTypeOK
<1>5. /\ agent[h] \in [pc : {"starting", "working", "reporting"},
                       queue : SUBSET JobIds, job : JobIds]
      /\ agent'[h] = [pc |-> "working", queue |-> agent[h].queue, job |-> j]
  BY <1>3 DEF Inv, DeploymentTypeOK, Agent, GotStart, Pc
<1>6. JobsTypeOK' /\ LedgerMoves /\ DeploymentTypeOK'
  BY <1>3, <1>5, NothingMoves DEF Inv, JobsTypeOK, DeploymentTypeOK, Agent
<1>7. \A g \in Hosts, i \in JobIds : Mine(g, i) /\ (g # h \/ i # j) => execs'[i] = execs[i]
  BY <1>1, <1>3, <1>4 DEF Mine
<1>8. j \notin agent[h].queue /\ QueueFresh(h)
  BY DEF Inv, AgentInv, JobInOnePlace, GotStart, HasJob
<1>9. AgentInv(h)'
  <2>1. CallFits(h)' /\ JobInOnePlace(h)'
    BY <1>1, <1>3, <1>5, <1>8 DEF CallFits, JobInOnePlace, HasJob, Pc, Mine, Exists,
       Inv, DeploymentTypeOK
  <2>2. QueueFresh(h)'
    BY <1>3, <1>4, <1>5, <1>8 DEF QueueFresh, Mine, Exists
  <2>3. work'[h] = [step |-> FirstStep(job[j].action), job |-> j, root |-> RootFor(j)]
    BY <1>3, <1>4
  <2>4. Busy(h)'
    BY <2>3 DEF Busy, NoWork
  <2>5. ExecutionKnown(h)'
    BY <1>3, <1>4, <1>5, <2>3, <2>4 DEF ExecutionKnown, Pc, RootFor
  <2>. QED BY <2>1, <2>2, <2>5 DEF AgentInv
<1>10. Once'
  BY <1>1, <1>3, <1>4 DEF Once, Inv, Mine, Exists
<1>. QED BY <1>2, <1>3, <1>4, <1>6, <1>7, <1>9, <1>10, AgentMoves
         DEF Inv, DeploymentTypeOK, LateKnown

LEMMA WorkingKeepsInv ==
  ASSUME Inv, NEW h \in Hosts, Working(h)
  PROVE  Inv'
<1>1. AgentInv(h) /\ Pc(h) = "working" /\ Busy(h) /\ work[h] \in Work
  BY DEF Inv, Working, AgentInv, ExecutionKnown, HostInv, HostTypeOK, Busy
<1>2. HostInv'
  BY ExecuteKeepsInv DEF Inv, Working
<1>3. UNCHANGED <<job, releases, agent, call, late, faults>>
  BY DEF Working, jobsVars, deployVars
<1>4. /\ UNCHANGED execs
      /\ \A g \in Hosts \ {h} : work'[g] = work[g]
      /\ work'[h] \in Work /\ work'[h].job = work[h].job
      /\ work'[h].root = work[h].root
  BY <1>1 DEF Working, Execute, Clone, Checkout, Publish, Link, Swap, DeployFails,
     MakeDirs, Ensure, Finish, SetupFails, GoTo, Inv, HostInv, HostTypeOK, Work,
     DeploySteps, SetupSteps, Done
<1>5. Busy(h)'
  BY <1>4 DEF Busy, NoWork, Work
<1>6. JobsTypeOK' /\ LedgerMoves /\ DeploymentTypeOK'
  BY <1>3, NothingMoves DEF Inv, JobsTypeOK, DeploymentTypeOK
<1>7. AgentInv(h)'
  BY <1>1, <1>3, <1>4, <1>5 DEF AgentInv, CallFits, QueueFresh, JobInOnePlace,
     ExecutionKnown, HasJob, Pc, Mine, Exists, RootFor
<1>. QED BY <1>2, <1>3, <1>4, <1>6, <1>7, AgentMoves, OnceKept DEF Inv, LateKnown

LEMMA ReportKeepsInv ==
  ASSUME Inv, NEW h \in Hosts, Report(h)
  PROVE  Inv'
<1>1. AgentInv(h) /\ Pc(h) = "working"
  BY DEF Inv, Report
<1>2. HostInv'
  BY LeaveKeepsInv DEF Inv, Report
<1>3. /\ UNCHANGED <<job, releases, late, faults, execs>>
      /\ agent' = [agent EXCEPT ![h] = [agent[h] EXCEPT !.pc = "reporting"]]
      /\ \E c \in {"complete", "fail"} : call' = [call EXCEPT ![h] = c]
      /\ work' = [work EXCEPT ![h] = NoWork]
  BY DEF Report, Outcome, Leave, Become, Answer, jobsVars
<1>4. /\ agent[h] \in [pc : {"starting", "working", "reporting"},
                       queue : SUBSET JobIds, job : JobIds]
      /\ agent'[h] = [pc |-> "reporting", queue |-> agent[h].queue,
                      job |-> agent[h].job]
  BY <1>1, <1>3 DEF Inv, DeploymentTypeOK, Agent, Pc
<1>5. JobsTypeOK' /\ LedgerMoves /\ DeploymentTypeOK'
  BY <1>3, <1>4, NothingMoves DEF Inv, JobsTypeOK, DeploymentTypeOK, Agent, Ops
<1>6. AgentInv(h)'
  BY <1>1, <1>3, <1>4 DEF AgentInv, CallFits, QueueFresh, JobInOnePlace,
     ExecutionKnown, HasJob, Pc, Mine, Exists, Inv, DeploymentTypeOK, HostInv,
     HostTypeOK
<1>. QED BY <1>2, <1>3, <1>5, <1>6, AgentMoves, OnceKept
         DEF Inv, LateKnown, DeploymentTypeOK, HostInv, HostTypeOK

-----------------------------------------------------------------------------
LEMMA InvInit == Init => Inv
<1> SUFFICES ASSUME Init PROVE Inv
  OBVIOUS
<1>1. JobsTypeOK /\ DeploymentTypeOK
  BY DEF Init, JobsInit, JobsTypeOK, DeploymentTypeOK, Agent
<1>2. HostInv
  BY HostInvInit DEF Init
<1>3. \A h \in Hosts : AgentInv(h)
  BY DEF Init, HostInit, AgentInv, CallFits, QueueFresh, JobInOnePlace,
     ExecutionKnown, HasJob, Pc
<1>4. Once
  BY DEF Init, HostInit, Once
<1>5. LateKnown
  BY DEF Init, LateKnown
<1>. QED BY <1>1, <1>2, <1>3, <1>4, <1>5 DEF Inv

LEMMA InvNext == Inv /\ [Next]_vars => Inv'
<1> SUFFICES ASSUME Inv, [Next]_vars PROVE Inv'
  OBVIOUS
<1>1. CASE UNCHANGED vars
  BY <1>1, HostInvStutters
  DEF vars, jobsVars, deployVars, hostVars, Inv, JobsTypeOK, DeploymentTypeOK,
      AgentInv, CallFits, QueueFresh, JobInOnePlace, ExecutionKnown, HasJob, Pc,
      Mine, Exists, Busy, RootFor, Once, LateKnown
<1>2. CASE UserStep
  BY <1>2, UserStepKeepsInv
<1>3. ASSUME NEW h \in Hosts, Tick(h) PROVE Inv'
  BY <1>3, LoopKeepsInv, GotStartKeepsInv, WorkingKeepsInv, ReportKeepsInv DEF Tick
<1>4. ASSUME NEW h \in Hosts, Handle(h) PROVE Inv'
  BY <1>4, HandleKeepsInv
<1>5. CASE Trouble
  BY <1>5, NoAnswerKeepsInv, CrashKeepsInv, HandleLateKeepsInv DEF Trouble
<1>. QED BY <1>1, <1>2, <1>3, <1>4, <1>5 DEF Next

THEOREM Invariant == Spec => []Inv
  BY InvInit, InvNext, PTL DEF Spec

(* Every variable keeps its type.                                          *)
THEOREM TypesCorrect == Spec => []TypeOK
<1>1. Inv => TypeOK
  BY DEF Inv, HostInv, TypeOK
<1>. QED BY <1>1, Invariant, PTL

(* No job is executed twice, for any fleet and any number of faults.       *)
THEOREM AtMostOnce == Spec => []ExecutedAtMostOnce
<1>1. Inv => ExecutedAtMostOnce
  <2> SUFFICES ASSUME Inv, NEW j \in JobIds PROVE execs[j] <= 1
    BY DEF ExecutedAtMostOnce
  <2>1. execs[j] = 0 \/ execs[j] = 1
    BY DEF Inv, Once
  <2>. QED BY <2>1
<1>. QED BY <1>1, Invariant, PTL

(* Every statement of the server moves the ledger as LedgerMoves says.      *)
LEMMA NextMoves ==
  ASSUME Inv, Next
  PROVE  LedgerMoves /\ JobsTypeOK'
<1>1. CASE UNCHANGED jobsVars
  BY <1>1, NothingMoves DEF jobsVars, Inv, JobsTypeOK
<1>2. CASE Users
  BY <1>2, UsersMove DEF Inv
<1>3. ASSUME NEW h \in Hosts, Handle(h) PROVE LedgerMoves /\ JobsTypeOK'
  <2>1. call[h] \in Ops /\ Exists(agent[h].job) /\ agent[h].job \in JobIds
    BY <1>3 DEF Handle, Inv, AgentInv, CallFits, JobInOnePlace, HasJob, Mine,
       Ops, Pc, DeploymentTypeOK, Agent
  <2>. QED BY <1>3, <2>1, ServeMoves DEF Handle, Inv
<1>4. ASSUME NEW op \in Ops, NEW i \in JobIds, HandleLate(op, i)
      PROVE  LedgerMoves /\ JobsTypeOK'
  BY <1>4, ServeMoves DEF HandleLate, Inv, LateKnown
<1>. QED BY <1>1, <1>2, <1>3, <1>4
     DEF Next, UserStep, Tick, Trouble, Start, Poll, EndTick, Take, GotStart,
         StartFailed, Working, Report, GotReport, CallFails, GiveUp, Crash,
         LoseLate

(* A started job is never handed out again.                                *)
THEOREM StartedStaysStarted == Spec => NeverRequeued
<1>1. Inv /\ [Next]_vars =>
        [\A j \in JobIds :
           job[j].status \notin Pending \cup {"none"}
             => job'[j].status \notin Pending \cup {"none"}]_vars
  <2> SUFFICES ASSUME Inv, Next, NEW j \in JobIds,
                      job[j].status \notin Pending \cup {"none"}
               PROVE  job'[j].status \notin Pending \cup {"none"}
    OBVIOUS
  <2>1. Exists(j)
    BY DEF Exists, NoRow
  <2>2. LedgerMoves /\ JobsTypeOK'
    BY NextMoves
  <2>3. Exists(j)' /\ job'[j].status \notin Pending
    BY <2>1, <2>2 DEF LedgerMoves
  <2>. QED BY <2>2, <2>3 DEF JobsTypeOK, Exists, Row, Statuses
<1>. QED BY <1>1, Invariant, PTL DEF Spec, NeverRequeued

(* The pipeline uses the executor as Host assumes: every step of it is a   *)
(* step of HostSpec or leaves the hosts alone.                             *)
THEOREM ExecutorIsHost == Spec => HostSpec
<1>1. Init => HostInit
  BY DEF Init
<1>2. Inv /\ [Next]_vars => [HostNext]_hostVars
  <2> SUFFICES ASSUME Inv, Next PROVE HostNext \/ UNCHANGED hostVars
    BY DEF vars
  <2>1. ASSUME NEW h \in Hosts, GotStart(h) PROVE HostNext
    BY <2>1, GotStartIsHandOver DEF HandOver, HostNext
  <2>2. ASSUME NEW h \in Hosts, Working(h) \/ Report(h) \/ Crash(h) PROVE HostNext
    BY <2>2 DEF Working, Report, Crash, HostNext
  <2>. QED BY <2>1, <2>2 DEF Next, UserStep, Tick, Trouble, Start, Poll, EndTick, Take,
           StartFailed, GotReport, CallFails, GiveUp, LoseLate, Handle, HandleLate
<1>. QED BY <1>1, <1>2, Invariant, PTL DEF Spec, HostSpec

(* So the live site of every app resolves and stays published, whatever    *)
(* the network, the agents and the users do.                               *)
THEOREM SitesSafe == Spec => [](LinksResolve /\ FailureNotLive) /\ SiteKept
  BY ExecutorIsHost, HostLinksResolve, HostFailureNotLive, HostSiteKept, PTL

-----------------------------------------------------------------------------
(* The ledger and the hosts.                                               *)

Reports == {"complete", "finish", "fail"}

Recorded(j) == \E n \in DOMAIN releases : releases[n].job = j

\* The release of a deploy is in place.
Built(j) == Exists(j) /\ job[j].action = "deploy" => j \in dirs[RootFor(j)]

NotLive(j) == \A r \in Roots : current[r] # j

\* What an agent's position says of the job in its hand.
WorkerKnows(h) ==
  LET j == agent[h].job
  IN /\ Pc(h) = "starting" /\ call[h] = "ok" => job[j].status # "failed"
     /\ Pc(h) = "working" =>
          /\ ~Recorded(j) /\ late["complete"][j] = 0 /\ late["fail"][j] = 0
          /\ job[j].status # "failed"
          /\ work[h].step \in DeploySteps => job[j].action = "deploy"
          /\ work[h].step \in SetupSteps => job[j].action = "setup_app"
          /\ work[h].step = "ok" => Built(j)
     /\ call[h] = "complete" =>
          ~Recorded(j) /\ Built(j) /\ late["complete"][j] = 0
     /\ call[h] = "finish" /\ job[j].action = "deploy" => Recorded(j)
     /\ call[h] = "fail" => NotLive(j)

\* What a late request says of its job.
LateKnows(j) ==
  /\ execs[j] = 0 => \A op \in Reports : late[op][j] = 0
  /\ late["complete"][j] > 0 =>
       late["complete"][j] = 1 /\ ~Recorded(j) /\ Built(j)
  /\ late["finish"][j] > 0 /\ job[j].action = "deploy" => Recorded(j)
  /\ late["fail"][j] > 0 => NotLive(j)

RowsKnown ==
  \A n \in DOMAIN releases :
    LET j == releases[n].job
    IN execs[j] = 1 /\ releases[n].app = job[j].app /\ j \in dirs[RootFor(j)]

RecordedOnce ==
  \A m, n \in DOMAIN releases : releases[m].job = releases[n].job => m = n

\* A job has directories only at the root of its app.
Placed ==
  \A r \in Roots, j \in JobIds : j \in dirs[r] => Exists(j) /\ RootFor(j) = r

LiveKnown ==
  \A r \in Roots, j \in JobIds : current[r] = j => job[j].status # "failed"

LedgerInv ==
  /\ Inv
  /\ \A h \in Hosts : WorkerKnows(h)
  /\ \A j \in JobIds : LateKnows(j)
  /\ RowsKnown /\ RecordedOnce /\ Placed /\ LiveKnown /\ SuccessIsRecorded

-----------------------------------------------------------------------------
(* Frames.                                                                 *)

\* A step that concerns another job.
Untouched(j) ==
  /\ job'[j].status = "failed" => job[j].status = "failed"
  /\ Recorded(j)' <=> Recorded(j)
  /\ \A op \in Reports : late'[op][j] = late[op][j]
  /\ execs'[j] = execs[j]
  /\ Built(j) => Built(j)'
  /\ NotLive(j) => NotLive(j)'

(* An agent that waits for an answer has a job in hand, one of its host.   *)
LEMMA Caller ==
  ASSUME Inv, NEW h \in Hosts, HasJob(h) \/ call[h] \in Ops
  PROVE  HasJob(h) /\ Mine(h, agent[h].job)
  BY DEF Inv, AgentInv, CallFits, JobInOnePlace, HasJob, Pc, Ops,
     DeploymentTypeOK, Agent

(* No two agents have the same job in hand.                                *)
LEMMA OneHolder ==
  ASSUME Inv, NEW g \in Hosts, NEW h \in Hosts, HasJob(g), HasJob(h),
         agent[g].job = agent[h].job
  PROVE  g = h
  BY Caller DEF Mine

(* An agent whose job is not concerned knows what it knew.                 *)
LEMMA WorkerKept ==
  ASSUME LedgerInv, NEW h \in Hosts, LedgerMoves,
         agent'[h] = agent[h], call'[h] = call[h], work'[h] = work[h],
         HasJob(h) => Untouched(agent[h].job)
  PROVE  WorkerKnows(h)'
<1>1. WorkerKnows(h) /\ Inv
  BY DEF LedgerInv
<1>2. CASE HasJob(h)
  <2>1. Mine(h, agent[h].job) /\ Untouched(agent[h].job)
    BY <1>1, <1>2, Caller
  <2>. QED BY <1>1, <2>1 DEF WorkerKnows, Untouched, Mine, LedgerMoves, Pc, Reports
<1>3. CASE ~HasJob(h)
  <2>1. call[h] \notin Ops /\ Pc(h) \notin {"starting", "working"}
    BY <1>1, <1>3, Caller DEF HasJob
  <2>. QED BY <2>1 DEF WorkerKnows, Pc, Ops
<1>. QED BY <1>2, <1>3

LEMMA LateKept ==
  ASSUME LedgerInv, NEW j \in JobIds, LedgerMoves, Untouched(j)
  PROVE  LateKnows(j)'
<1>1. LateKnows(j) /\ \A op \in Reports : late[op][j] \in Nat
  BY DEF LedgerInv, Inv, DeploymentTypeOK, Reports, Ops
<1>2. CASE Exists(j)
  BY <1>1, <1>2 DEF LateKnows, Untouched, LedgerMoves, Reports
<1>3. CASE ~Exists(j)
  <2>1. \A op \in Reports : late[op][j] = 0
    BY <1>1, <1>3 DEF LedgerInv, Inv, LateKnown, Reports, Ops
  <2>. QED BY <2>1 DEF LateKnows, Untouched, Reports
<1>. QED BY <1>2, <1>3

(* What is left to show when a step concerns one job and its agent.        *)
LEMMA OneJob ==
  ASSUME LedgerInv, Inv', LedgerMoves, NEW h \in Hosts, NEW j \in JobIds, Mine(h, j),
         \A g \in Hosts \ {h} :
           agent'[g] = agent[g] /\ call'[g] = call[g] /\ work'[g] = work[g],
         \A i \in JobIds \ {j} : Untouched(i),
         WorkerKnows(h)', LateKnows(j)',
         RowsKnown', RecordedOnce', Placed', LiveKnown', SuccessIsRecorded'
  PROVE  LedgerInv'
<1>1. ASSUME NEW g \in Hosts \ {h} PROVE WorkerKnows(g)'
  <2>1. HasJob(g) => agent[g].job \in JobIds \ {j}
    BY Caller DEF Mine, LedgerInv
  <2>. QED BY <2>1, WorkerKept
<1>2. \A i \in JobIds \ {j} : LateKnows(i)'
  BY LateKept
<1>. QED BY <1>1, <1>2 DEF LedgerInv

(* What is left to show when it concerns no job.                           *)
LEMMA NoJob ==
  ASSUME LedgerInv, Inv', LedgerMoves, NEW h \in Hosts,
         \A g \in Hosts \ {h} :
           agent'[g] = agent[g] /\ call'[g] = call[g] /\ work'[g] = work[g],
         \A i \in JobIds : Untouched(i),
         WorkerKnows(h)',
         RowsKnown', RecordedOnce', Placed', LiveKnown', SuccessIsRecorded'
  PROVE  LedgerInv'
<1>1. \A g \in Hosts \ {h} : WorkerKnows(g)'
  BY WorkerKept, Caller DEF Mine, LedgerInv
<1>2. \A i \in JobIds : LateKnows(i)'
  BY LateKept
<1>. QED BY <1>1, <1>2 DEF LedgerInv

(* A job lives at a root of its host.                                      *)
LEMMA Rooted ==
  ASSUME Inv, NEW j \in JobIds, Exists(j)
  PROVE  RootFor(j) \in Roots /\ HostOf(job[j].app) = RootHost[RootFor(j)]
         /\ job[j].action \in Actions
  BY RowOrNot, FleetAssumption DEF Inv, RootFor, HostOf, Row

(* Every release row is about a job that was executed.                     *)
LEMMA RowsOfJobs ==
  ASSUME LedgerInv, NEW n \in DOMAIN releases
  PROVE  LET j == releases[n].job
         IN j \in JobIds /\ Exists(j) /\ execs[j] = 1 /\ RootFor(j) \in Roots
<1>1. releases[n] \in Release
  BY DEF LedgerInv, Inv, JobsTypeOK
<1>2. releases[n].job \in JobIds /\ execs[releases[n].job] = 1
  BY <1>1 DEF Release, LedgerInv, RowsKnown
<1>. QED BY <1>2, Rooted DEF LedgerInv, Inv, Once

(* A step that leaves the ledger alone and takes no directory away.        *)
LEMMA RowsKept ==
  ASSUME LedgerInv, UNCHANGED <<job, releases>>,
         \A r \in Roots : dirs[r] \subseteq dirs'[r],
         \A j \in JobIds : execs[j] = 1 => execs'[j] = 1
  PROVE  RowsKnown' /\ RecordedOnce' /\ SuccessIsRecorded'
<1>1. ASSUME NEW n \in DOMAIN releases
      PROVE  LET j == releases[n].job
             IN execs'[j] = 1 /\ releases[n].app = job[j].app /\ j \in dirs'[RootFor(j)]
  BY RowsOfJobs DEF LedgerInv, RowsKnown
<1>2. RowsKnown'
  BY <1>1 DEF RowsKnown, RootFor
<1>3. RecordedOnce'
  BY DEF LedgerInv, RecordedOnce
<1>4. SuccessIsRecorded'
  BY DEF LedgerInv, SuccessIsRecorded, Exists
<1>. QED BY <1>2, <1>3, <1>4

-----------------------------------------------------------------------------
(* Statements.                                                             *)

(* A status update changes one status and nothing else.                    *)
LEMMA Setting ==
  ASSUME JobsTypeOK, NEW j \in JobIds, Exists(j), NEW s \in Statuses, SetStatus(j, s)
  PROVE  /\ releases' = releases /\ job'[j].status = s
         /\ \A i \in JobIds \ {j} : job'[i] = job[i]
         /\ \A i \in JobIds : /\ Exists(i)' <=> Exists(i)
                              /\ job'[i].app = job[i].app
                              /\ job'[i].action = job[i].action
<1>1. job[j] \in Row /\ job' = [job EXCEPT ![j].status = s] /\ releases' = releases
  BY RowOrNot DEF SetStatus
<1>2. job'[j] = [job[j] EXCEPT !.status = s] /\ \A i \in JobIds \ {j} : job'[i] = job[i]
  BY <1>1 DEF JobsTypeOK
<1>3. /\ job'[j].status = s /\ job'[j].app = job[j].app
      /\ job'[j].action = job[j].action /\ job'[j] \in Row
  BY <1>1, <1>2 DEF Row
<1>4. Exists(j)'
  BY <1>3 DEF Exists, Row, NoRow
<1>. QED BY <1>1, <1>2, <1>3, <1>4 DEF Exists

(* A new release is the last row, and its job is the only one recorded.    *)
LEMMA Recording ==
  ASSUME JobsTypeOK, NEW j \in JobIds, InsertRelease(j)
  PROVE  /\ job' = job /\ Recorded(j)'
         /\ \A i \in JobIds \ {j} : Recorded(i)' <=> Recorded(i)
         /\ DOMAIN releases' = DOMAIN releases \cup {Len(releases) + 1}
         /\ \A n \in DOMAIN releases : n <= Len(releases) /\ releases'[n] = releases[n]
         /\ releases'[Len(releases) + 1].job = j
         /\ releases'[Len(releases) + 1].app = job[j].app
<1> DEFINE row == [app |-> job[j].app, job |-> j, status |-> "active", available |-> TRUE]
           last == Len(releases) + 1
<1>1. releases \in Seq(Release) /\ releases' = Append(releases, row) /\ job' = job
  BY DEF JobsTypeOK, InsertRelease
<1>2. row.job = j /\ row.app = job[j].app
  OBVIOUS
<1> HIDE DEF row
<1>3. /\ DOMAIN releases = 1 .. Len(releases) /\ Len(releases) \in Nat
      /\ DOMAIN releases' = 1 .. last
      /\ \A n \in 1 .. Len(releases) : releases'[n] = releases[n]
      /\ releases'[last] = row
  BY <1>1
<1>4. DOMAIN releases' = DOMAIN releases \cup {last}
  BY <1>3
<1>5. Recorded(j)'
  BY <1>2, <1>3, <1>4 DEF Recorded
<1>6. \A i \in JobIds \ {j} : Recorded(i)' <=> Recorded(i)
  BY <1>2, <1>3, <1>4 DEF Recorded
<1>. QED BY <1>1, <1>2, <1>3, <1>4, <1>5, <1>6

\* The parts of the invariant that are not about one job or one agent.
Rows == RowsKnown /\ RecordedOnce /\ Placed /\ LiveKnown /\ SuccessIsRecorded

(* A status update keeps them, if it calls nothing live failed and no      *)
(* deploy successful that is not recorded.                                 *)
LEMMA SettingKeepsRows ==
  ASSUME LedgerInv, NEW j \in JobIds, Exists(j), NEW s \in Statuses, SetStatus(j, s),
         UNCHANGED hostVars,
         s = "failed" => NotLive(j),
         s = "success" /\ job[j].action = "deploy" => Recorded(j)
  PROVE  Rows'
<1>1. /\ releases' = releases /\ job'[j].status = s
      /\ \A i \in JobIds \ {j} : job'[i] = job[i]
      /\ \A i \in JobIds : /\ Exists(i)' <=> Exists(i)
                           /\ job'[i].app = job[i].app
                           /\ job'[i].action = job[i].action
  BY Setting DEF LedgerInv, Inv
<1>2. UNCHANGED <<dirs, current, execs>>
  BY DEF hostVars
<1>3. RowsKnown'
  BY <1>1, <1>2, RowsOfJobs DEF LedgerInv, RowsKnown, RootFor
<1>4. RecordedOnce'
  BY <1>1 DEF LedgerInv, RecordedOnce
<1>5. Placed'
  BY <1>1, <1>2 DEF LedgerInv, Placed, RootFor
<1>6. LiveKnown'
  BY <1>1, <1>2 DEF LedgerInv, LiveKnown, NotLive
<1>7. SuccessIsRecorded'
  BY <1>1 DEF LedgerInv, SuccessIsRecorded, Recorded
<1>. QED BY <1>3, <1>4, <1>5, <1>6, <1>7 DEF Rows

(* So does the first release of a deploy that is in place.                 *)
LEMMA RecordingKeepsRows ==
  ASSUME LedgerInv, NEW j \in JobIds, Exists(j), InsertRelease(j),
         UNCHANGED hostVars, execs[j] = 1, ~Recorded(j), j \in dirs[RootFor(j)]
  PROVE  Rows'
<1>1. /\ job' = job
      /\ DOMAIN releases' = DOMAIN releases \cup {Len(releases) + 1}
      /\ \A n \in DOMAIN releases : n <= Len(releases) /\ releases'[n] = releases[n]
      /\ releases'[Len(releases) + 1].job = j
      /\ releases'[Len(releases) + 1].app = job[j].app
  BY Recording DEF LedgerInv, Inv
<1>2. UNCHANGED <<dirs, current, execs>>
  BY DEF hostVars
<1>3. RowsKnown'
  BY <1>1, <1>2 DEF LedgerInv, RowsKnown, RootFor
<1>4. RecordedOnce'
  BY <1>1 DEF LedgerInv, RecordedOnce, Recorded
<1>5. Placed' /\ LiveKnown'
  BY <1>1, <1>2 DEF LedgerInv, Placed, RootFor, LiveKnown, Exists
<1>6. SuccessIsRecorded'
  BY <1>1 DEF LedgerInv, SuccessIsRecorded, Exists
<1>. QED BY <1>3, <1>4, <1>5, <1>6 DEF Rows

(* A step that only moves agents and requests keeps them.                  *)
LEMMA RowsUntouched ==
  ASSUME LedgerInv, UNCHANGED <<job, releases, dirs, current, execs>>
  PROVE  Rows' /\ LedgerMoves
<1>1. RowsKnown' /\ RecordedOnce' /\ SuccessIsRecorded'
  BY RowsKept
<1>2. Placed' /\ LiveKnown'
  BY DEF LedgerInv, Placed, LiveKnown, RootFor, Exists
<1>. QED BY <1>1, <1>2, NothingMoves DEF Rows

-----------------------------------------------------------------------------
(* Users.                                                                  *)

(* Nobody has a job in hand that does not exist yet.                       *)
LEMMA Unborn ==
  ASSUME LedgerInv, NEW j \in JobIds, ~Exists(j)
  PROVE  /\ execs[j] = 0 /\ ~Recorded(j) /\ NotLive(j)
         /\ \A op \in Ops : late[op][j] = 0
         /\ \A r \in Roots : j \notin dirs[r]
         /\ \A h \in Hosts : HasJob(h) => agent[h].job # j
<1>1. execs[j] = 0 /\ \A op \in Ops : late[op][j] = 0
  BY DEF LedgerInv, Inv, Once, LateKnown, DeploymentTypeOK
<1>2. ~Recorded(j)
  BY RowsOfJobs DEF Recorded
<1>3. \A r \in Roots : j \notin dirs[r]
  BY DEF LedgerInv, Placed
<1>4. NotLive(j)
  BY <1>3, HostAssumption DEF NotLive, LedgerInv, Inv, HostInv, LinksResolve
<1>5. \A h \in Hosts : HasJob(h) => agent[h].job # j
  BY Caller DEF LedgerInv, Mine
<1>. QED BY <1>1, <1>2, <1>3, <1>4, <1>5

LEMMA InsertKeeps ==
  ASSUME LedgerInv, Inv', LedgerMoves,
         NEW j \in JobIds, NEW app \in Apps, NEW action \in Actions,
         NEW s \in ClientStatuses \cup {"queued"}, NEW n \in Nat,
         InsertJob(j, app, action, s, n), UNCHANGED <<hostVars, deployVars>>
  PROVE  LedgerInv'
<1>1. /\ ~Exists(j) /\ releases' = releases
      /\ \A i \in JobIds \ {j} : job'[i] = job[i]
      /\ job'[j].status = s
      /\ UNCHANGED <<dirs, current, execs, work, agent, call, late>>
  BY DEF InsertJob, LedgerInv, Inv, JobsTypeOK, hostVars, deployVars
<1>2. /\ execs[j] = 0 /\ ~Recorded(j) /\ NotLive(j)
      /\ \A op \in Ops : late[op][j] = 0
      /\ \A r \in Roots : j \notin dirs[r]
      /\ \A h \in Hosts : HasJob(h) => agent[h].job # j
  BY <1>1, Unborn
<1>3. \A i \in JobIds \ {j} : Untouched(i)
  BY <1>1 DEF Untouched, Recorded, Built, Exists, NotLive, RootFor
<1>4. \A h \in Hosts : WorkerKnows(h)'
  BY <1>1, <1>2, <1>3, WorkerKept, Caller DEF Mine, LedgerInv
<1>5. LateKnows(j)'
  BY <1>1, <1>2 DEF LateKnows, Reports, Ops
<1>6. \A i \in JobIds : LateKnows(i)'
  BY <1>3, <1>5, LateKept
<1>7. RowsKnown' /\ RecordedOnce'
  BY <1>1, <1>2, RowsOfJobs DEF LedgerInv, RowsKnown, RootFor, RecordedOnce, Recorded
<1>8. Placed' /\ LiveKnown'
  BY <1>1, <1>2 DEF LedgerInv, Placed, LiveKnown, RootFor, NotLive, Exists
<1>9. SuccessIsRecorded'
  BY <1>1 DEF LedgerInv, SuccessIsRecorded, Exists
<1>. QED BY <1>4, <1>6, <1>7, <1>8, <1>9 DEF LedgerInv

LEMMA UsersKeep ==
  ASSUME LedgerInv, Inv', LedgerMoves, UserStep
  PROVE  LedgerInv'
<1>1. UNCHANGED <<hostVars, deployVars>> /\ Users
  BY DEF UserStep
<1>2. ASSUME NEW j \in JobIds, NEW app \in Apps, NEW action \in Actions,
             NEW s \in Statuses, CreateDeployment(j, app, action, s)
      PROVE  LedgerInv'
  BY <1>1, <1>2, InsertKeeps DEF CreateDeployment
<1>3. ASSUME NEW j \in JobIds, NEW app \in Apps, SetupApp(j, app)
      PROVE  LedgerInv'
  BY <1>1, <1>3, InsertKeeps DEF SetupApp, Actions
<1>4. ASSUME NEW j \in JobIds, NEW n \in DOMAIN releases, RollbackRelease(j, n)
      PROVE  LedgerInv'
  <2>1. releases[n] \in Release /\ n \in Nat
    BY DEF LedgerInv, Inv, JobsTypeOK
  <2>. QED BY <1>1, <1>4, <2>1, InsertKeeps DEF RollbackRelease, Release, Actions
<1>5. ASSUME NEW j \in JobIds, CancelDeployment(j)
      PROVE  LedgerInv'
  <2>1. Exists(j) /\ SetStatus(j, "canceled") /\ "canceled" \in Statuses
    BY <1>5 DEF CancelDeployment, Statuses
  <2>2. Rows'
    BY <1>1, <2>1, SettingKeepsRows
  <2>3. /\ releases' = releases /\ job'[j].status = "canceled"
        /\ \A i \in JobIds \ {j} : job'[i] = job[i]
        /\ \A i \in JobIds : /\ Exists(i)' <=> Exists(i)
                             /\ job'[i].app = job[i].app
                             /\ job'[i].action = job[i].action
        /\ UNCHANGED <<dirs, current, execs, work, agent, call, late>>
    <3>1. JobsTypeOK
      BY DEF LedgerInv, Inv
    <3>2. UNCHANGED <<dirs, current, execs, work, agent, call, late>>
      BY <1>1 DEF hostVars, deployVars
    <3>. QED BY <2>1, <3>1, <3>2, Setting
  <2>4. \A i \in JobIds : Untouched(i)
    BY <2>3 DEF Untouched, Recorded, Built, Exists, NotLive, RootFor
  <2>5. \A h \in Hosts : WorkerKnows(h)'
    BY <2>3, <2>4, WorkerKept, Caller DEF Mine, LedgerInv
  <2>6. \A i \in JobIds : LateKnows(i)'
    BY <2>4, LateKept
  <2>. QED BY <2>2, <2>5, <2>6 DEF LedgerInv, Rows
<1>. QED BY <1>1, <1>2, <1>3, <1>4, <1>5 DEF Users

-----------------------------------------------------------------------------
(* The server.                                                             *)

\* What a request needs to be served without harm.
Harmless(op, j) ==
  /\ op = "complete" => execs[j] = 1 /\ ~Recorded(j) /\ Built(j)
  /\ op = "finish" /\ job[j].action = "deploy" => Recorded(j)
  /\ op = "fail" => NotLive(j)

\* What serving a request may do to the ledger.
LedgerAfter(op, j) ==
  /\ \A i \in JobIds \ {j} : /\ job'[i].status = job[i].status
                             /\ Recorded(i)' <=> Recorded(i)
  /\ \A i \in JobIds : /\ Exists(i)' <=> Exists(i)
                       /\ job'[i].app = job[i].app
                       /\ job'[i].action = job[i].action
  /\ op = "complete" =>
       job' = job /\ (Recorded(j)' <=> job[j].action = "deploy")
  /\ op # "complete" => /\ releases' = releases
                        /\ job'[j].status = "failed" <=> op = "fail"

(* It does no more, and keeps the rows in order.                           *)
LEMMA Serving ==
  ASSUME LedgerInv, NEW op \in Ops, NEW j \in JobIds, Exists(j), NEW after,
         Serve(op, j, after), Harmless(op, j), UNCHANGED hostVars
  PROVE  /\ Rows'
         /\ after = IF op = "complete" THEN "finish" ELSE "ok"
         /\ LedgerAfter(op, j)
<1>1. CASE op # "complete"
  <2>1. SetStatus(j, StatusAfter[op]) /\ after = "ok"
    BY <1>1 DEF Serve
  <2>2. /\ StatusAfter[op] \in Statuses
        /\ StatusAfter[op] = "failed" <=> op = "fail"
        /\ StatusAfter[op] = "success" <=> op = "finish"
    BY <1>1 DEF StatusAfter, Ops, Statuses
  <2>3. Rows'
    BY <2>1, <2>2, SettingKeepsRows DEF Harmless
  <2>. QED BY <1>1, <2>1, <2>2, <2>3, Setting DEF LedgerInv, Inv, Recorded, LedgerAfter
<1>2. CASE op = "complete"
  <2>1. RecordRelease(j) /\ after = "finish" /\ execs[j] = 1 /\ ~Recorded(j) /\ Built(j)
    BY <1>2 DEF Serve, Harmless
  <2>2. CASE job[j].action = "deploy"
    <3>1. InsertRelease(j) /\ j \in dirs[RootFor(j)]
      BY <2>1, <2>2 DEF RecordRelease, Built, Exists
    <3>2. Rows'
      BY <2>1, <3>1, RecordingKeepsRows
    <3>3. job' = job /\ Recorded(j)' /\ \A i \in JobIds \ {j} : Recorded(i)' <=> Recorded(i)
      BY <3>1, Recording DEF LedgerInv, Inv
    <3>. QED BY <1>2, <2>1, <2>2, <3>2, <3>3 DEF Exists, LedgerAfter
  <2>3. CASE job[j].action # "deploy"
    <3>1. job' = job /\ releases' = releases
      BY <2>1, <2>3 DEF RecordRelease, jobsVars
    <3>2. Rows'
      BY <3>1, RowsUntouched DEF hostVars
    <3>. QED BY <1>2, <2>1, <2>3, <3>1, <3>2 DEF Recorded, Exists, LedgerAfter
  <2>. QED BY <2>2, <2>3
<1>. QED BY <1>1, <1>2

LEMMA HandleKeeps ==
  ASSUME LedgerInv, Inv', LedgerMoves, NEW h \in Hosts, Handle(h)
  PROVE  LedgerInv'
<1> DEFINE j == agent[h].job
<1>1. call[h] \in Ops /\ UNCHANGED <<work, dirs, current, execs, agent, late>>
      /\ UNCHANGED hostVars
  BY DEF Handle, hostVars
<1>2. HasJob(h) /\ Mine(h, j) /\ AgentInv(h) /\ WorkerKnows(h) /\ LateKnows(j)
  BY <1>1, Caller DEF LedgerInv, Inv, Mine
<1>3. /\ Pc(h) \in {"starting", "reporting"}
      /\ Pc(h) = "starting" <=> call[h] = "start"
      /\ Pc(h) = "reporting" => execs[j] = 1
  BY <1>1, <1>2 DEF AgentInv, CallFits, HasJob, Ops, ExecutionKnown
<1>4. PICK after \in {"ok", "finish"} : Serve(call[h], j, after) /\ Answer(h, after)
  BY DEF Handle
<1>5. Harmless(call[h], j)
  BY <1>1, <1>2, <1>3 DEF Harmless, WorkerKnows
<1>6. /\ Rows'
      /\ after = IF call[h] = "complete" THEN "finish" ELSE "ok"
      /\ LedgerAfter(call[h], j)
  BY <1>1, <1>2, <1>4, <1>5, Serving DEF Mine
<1> USE DEF LedgerAfter
<1>7. call'[h] = after /\ \A g \in Hosts \ {h} : call'[g] = call[g]
  BY <1>4 DEF Answer, LedgerInv, Inv, DeploymentTypeOK
<1>8. \A i \in JobIds \ {j} : Untouched(i)
  BY <1>1, <1>6 DEF Untouched, Built, Exists, RootFor, NotLive
<1>9. WorkerKnows(h)'
  BY <1>1, <1>2, <1>3, <1>6, <1>7 DEF WorkerKnows, Pc
<1>10. LateKnows(j)'
  <2>1. Built(j) <=> Built(j)'
    BY <1>1, <1>2, <1>6 DEF Built, Exists, RootFor, Mine
  <2>2. NotLive(j) <=> NotLive(j)'
    BY <1>1 DEF NotLive
  <2>3. call[h] # "complete" => (Recorded(j)' <=> Recorded(j))
    <3>1. call[h] # "complete" => releases' = releases
      BY <1>6
    <3>2. agent' = agent
      BY <1>1
    <3>. QED BY <3>1, <3>2 DEF Recorded
  <2>4. call[h] = "complete" => late["complete"][j] = 0
    BY <1>2 DEF WorkerKnows
  <2>5. late["complete"][j] \in Nat
    BY <1>2 DEF LedgerInv, Inv, DeploymentTypeOK, Ops, Mine
  <2>. QED BY <1>1, <1>2, <1>6, <2>1, <2>2, <2>3, <2>4, <2>5 DEF LateKnows, Mine
<1>. QED BY <1>1, <1>2, <1>6, <1>7, <1>8, <1>9, <1>10, OneJob DEF Mine, Rows

(* A late request of a job: its agent may meanwhile have the job in hand,  *)
(* and knows that no late request contradicts it.                          *)
LEMMA HandleLateKeeps ==
  ASSUME LedgerInv, Inv', LedgerMoves, NEW op \in Ops, NEW j \in JobIds,
         HandleLate(op, j)
  PROVE  LedgerInv'
<1>1. /\ late[op][j] \in Nat /\ late[op][j] > 0 /\ Exists(j)
      /\ UNCHANGED <<work, dirs, current, execs, agent, call>>
      /\ UNCHANGED hostVars
  BY DEF HandleLate, hostVars, LedgerInv, Inv, DeploymentTypeOK, LateKnown
<1>2. PICK h \in Hosts : Mine(h, j) /\ LateKnows(j)
  BY <1>1, Rooted, FleetAssumption DEF Mine, LedgerInv
<1>3. op \in Reports => execs[j] = 1
  BY <1>1, <1>2 DEF LateKnows, LedgerInv, Inv, Once
<1>4. PICK after \in {"ok", "finish"} :
        /\ Serve(op, j, after)
        /\ late' = [o \in Ops |-> [i \in JobIds |->
                     late[o][i] - (IF o = op /\ i = j THEN 1 ELSE 0)
                                + (IF o = after /\ i = j THEN 1 ELSE 0)]]
  BY DEF HandleLate
<1>5. Harmless(op, j)
  BY <1>1, <1>2, <1>3 DEF Harmless, LateKnows, Reports
<1>6. /\ Rows'
      /\ after = IF op = "complete" THEN "finish" ELSE "ok"
      /\ LedgerAfter(op, j)
  BY <1>1, <1>4, <1>5, Serving
<1> USE DEF LedgerAfter
<1>7. \A o \in Ops, i \in JobIds : late[o][i] \in Nat
  BY DEF LedgerInv, Inv, DeploymentTypeOK
<1>8. /\ \A i \in JobIds \ {j}, o \in Ops : late'[o][i] = late[o][i]
      /\ \A o \in Ops : late'[o][j] = late[o][j] - (IF o = op THEN 1 ELSE 0)
                                                 + (IF o = after THEN 1 ELSE 0)
  BY <1>4, <1>7
<1>9. \A i \in JobIds \ {j} : Untouched(i)
  BY <1>1, <1>6, <1>8 DEF Untouched, Built, Exists, RootFor, NotLive, Reports, Ops
<1>10. /\ Built(j) <=> Built(j)'
       /\ NotLive(j) <=> NotLive(j)'
  BY <1>1, <1>6 DEF Built, Exists, RootFor, NotLive
<1>11. op # "complete" => (Recorded(j)' <=> Recorded(j))
  BY <1>6 DEF Recorded
<1>12. LateKnows(j)'
  <2>1. late'["complete"][j] = IF op = "complete" THEN 0 ELSE late["complete"][j]
    BY <1>1, <1>2, <1>6, <1>7, <1>8 DEF LateKnows, Ops
  <2>2. late'["fail"][j] > 0 => late["fail"][j] > 0
    BY <1>6, <1>7, <1>8 DEF Ops
  <2>3. late'["finish"][j] > 0 => op = "complete" \/ late["finish"][j] > 0
    BY <1>6, <1>7, <1>8 DEF Ops
  <2>4. execs[j] = 0 => \A o \in Reports : late'[o][j] = 0
    BY <1>2, <1>3, <1>6, <1>8 DEF Reports, Ops, LateKnows
  <2>. QED BY <1>1, <1>2, <1>6, <1>10, <1>11, <2>1, <2>2, <2>3, <2>4 DEF LateKnows, Ops
<1>13. WorkerKnows(h)'
  <2>1. CASE HasJob(h) /\ agent[h].job = j
    <3>1. WorkerKnows(h) /\ ExecutionKnown(h) /\ CallFits(h)
      BY <1>2 DEF LedgerInv, Inv, AgentInv
    <3>2. Pc(h) = "starting" => op = "start"
      BY <1>1, <1>2, <2>1, <3>1 DEF ExecutionKnown, LateKnows, Reports, Ops
    <3>3. CASE Pc(h) = "starting"
      BY <1>1, <1>6, <2>1, <3>1, <3>2, <3>3 DEF WorkerKnows, CallFits, Pc
    <3>4. CASE Pc(h) = "working"
      <4>1. op \notin {"complete", "fail"}
        BY <1>1, <2>1, <3>1, <3>4 DEF WorkerKnows
      <4>2. late'["complete"][j] = 0 /\ late'["fail"][j] = 0 /\ call[h] = "none"
        BY <1>6, <1>8, <2>1, <3>1, <3>4, <4>1 DEF WorkerKnows, CallFits, Ops
      <4>. QED BY <1>1, <1>6, <1>10, <1>11, <2>1, <3>1, <3>4, <4>1, <4>2
               DEF WorkerKnows, Pc
    <3>5. CASE Pc(h) = "reporting"
      <4>1. CASE call[h] = "complete"
        <5>1. op # "complete" /\ late'["complete"][j] = 0
          BY <1>1, <1>6, <1>8, <2>1, <3>1, <4>1 DEF WorkerKnows, Ops
        <5>. QED BY <1>1, <1>10, <1>11, <2>1, <3>1, <3>5, <4>1, <5>1 DEF WorkerKnows, Pc
      <4>2. CASE call[h] # "complete"
        BY <1>1, <1>2, <1>6, <1>10, <1>11, <2>1, <3>1, <3>5, <4>2 DEF WorkerKnows, Pc
      <4>. QED BY <4>1, <4>2
    <3>. QED BY <2>1, <3>3, <3>4, <3>5 DEF HasJob
  <2>2. CASE HasJob(h) => agent[h].job # j
    BY <1>1, <1>2, <1>9, <2>2, WorkerKept, Caller DEF Mine, LedgerInv
  <2>. QED BY <2>1, <2>2
<1>. QED BY <1>1, <1>2, <1>6, <1>9, <1>12, <1>13, OneJob DEF Rows

-----------------------------------------------------------------------------
(* What goes wrong between them.                                           *)

(* A request that is lost takes what it says of its job with it.           *)
LEMMA LoseLateKeeps ==
  ASSUME LedgerInv, Inv', NEW op \in Ops, NEW j \in JobIds, LoseLate(op, j)
  PROVE  LedgerInv'
<1>1. /\ UNCHANGED <<job, releases, work, dirs, current, execs, agent, call>>
      /\ late[op][j] > 0 /\ late' = [late EXCEPT ![op][j] = @ - 1]
  BY DEF LoseLate, jobsVars, hostVars
<1>2. \A o \in Ops, i \in JobIds :
        /\ late[o][i] \in Nat /\ late'[o][i] \in Nat /\ late'[o][i] <= late[o][i]
        /\ late[o][i] = 1 => late'[o][i] \in {0, 1}
  BY <1>1 DEF LedgerInv, Inv, DeploymentTypeOK
<1>3. Rows'
  BY <1>1, RowsUntouched
<1>4. \A i \in JobIds : /\ Built(i)' <=> Built(i)
                        /\ NotLive(i)' <=> NotLive(i)
                        /\ Recorded(i)' <=> Recorded(i)
  BY <1>1 DEF Built, Exists, NotLive, Recorded, RootFor
<1>5. ASSUME NEW i \in JobIds PROVE LateKnows(i)'
  <2>1. LateKnows(i) /\ \A o \in Reports : o \in Ops
    BY DEF LedgerInv, Reports, Ops
  <2>2. \A o \in Reports : late'[o][i] > 0 => late[o][i] > 0
    BY <1>2, <2>1
  <2>3. \A o \in Reports : late[o][i] = 0 => late'[o][i] = 0
    BY <1>2, <2>1
  <2>4. late'["complete"][i] > 0 => late'["complete"][i] = 1
    BY <1>2, <2>1, <2>2 DEF LateKnows, Reports
  <2>. QED BY <1>1, <1>4, <2>1, <2>2, <2>3, <2>4 DEF LateKnows, Reports
<1>6. ASSUME NEW h \in Hosts PROVE WorkerKnows(h)'
  <2>1. CASE HasJob(h)
    <3> DEFINE i == agent[h].job
    <3>1. i \in JobIds /\ WorkerKnows(h)
      BY <2>1, Caller DEF LedgerInv, Mine
    <3>2. \A o \in {"complete", "fail"} : late[o][i] = 0 => late'[o][i] = 0
      BY <1>2, <3>1 DEF Ops
    <3>. QED BY <1>1, <1>4, <3>1, <3>2 DEF WorkerKnows, Pc, RootFor
  <2>2. CASE ~HasJob(h)
    <3>1. call[h] \notin Ops /\ Pc(h) \notin {"starting", "working"}
      BY <2>2, Caller DEF LedgerInv, HasJob
    <3>. QED BY <1>1, <3>1 DEF WorkerKnows, Pc, Ops
  <2>. QED BY <2>1, <2>2
<1>. QED BY <1>3, <1>5, <1>6 DEF LedgerInv, Rows

(* An agent gives up on a request, or dies; what its position said of the  *)
(* job is what the request it leaves behind says.                          *)
LEMMA AbandonKeeps ==
  ASSUME LedgerInv, Inv', NEW h \in Hosts, Abandon(h),
         UNCHANGED <<job, releases, dirs, current, execs>>,
         \A g \in Hosts \ {h} :
           agent'[g] = agent[g] /\ call'[g] = call[g] /\ work'[g] = work[g],
         call'[h] \in {"none", "error"}, Pc(h)' # "working"
  PROVE  LedgerInv'
<1>1. Rows' /\ LedgerMoves /\ WorkerKnows(h)'
  BY RowsUntouched DEF WorkerKnows
<1>2. \A i \in JobIds : /\ Built(i)' <=> Built(i)
                        /\ NotLive(i)' <=> NotLive(i)
                        /\ Recorded(i)' <=> Recorded(i)
  BY DEF Built, Exists, NotLive, Recorded, RootFor
<1>3. CASE call[h] \notin Ops
  <2>1. late' = late
    BY <1>3 DEF Abandon
  <2>2. \A i \in JobIds : Untouched(i)
    BY <1>2, <2>1 DEF Untouched
  <2>. QED BY <1>1, <2>2, NoJob DEF Rows
<1>4. CASE call[h] \in Ops
  <2> PICK j \in JobIds : j = agent[h].job
    BY <1>4, Caller DEF LedgerInv, Mine
  <2>1. HasJob(h) /\ Mine(h, j) /\ AgentInv(h) /\ WorkerKnows(h) /\ LateKnows(j)
    BY <1>4, Caller DEF LedgerInv, Inv, Mine
  <2>2. \A o \in Ops, i \in JobIds :
          /\ late[o][i] \in Nat
          /\ late'[o][i] = IF o = call[h] /\ i = j THEN late[o][i] + 1 ELSE late[o][i]
    BY <1>4, <2>1 DEF Abandon, LedgerInv, Inv, DeploymentTypeOK, Mine
  <2>3. \A i \in JobIds \ {j} : Untouched(i)
    BY <1>2, <2>2 DEF Untouched, Reports, Ops
  <2>4. call[h] # "start" => execs[j] = 1
    BY <1>4, <2>1 DEF AgentInv, CallFits, ExecutionKnown, HasJob, Ops
  <2>5. LateKnows(j)'
    <3>1. j \in JobIds /\ \A o \in Reports : o \in Ops
      BY <2>1 DEF Mine, Reports, Ops
    <3>2. execs[j] = 0 => \A o \in Reports : late'[o][j] = 0
      BY <2>1, <2>2, <2>4, <3>1 DEF LateKnows, Reports
    <3>3. CASE call[h] \notin Reports
      <4>1. \A o \in Reports : late'[o][j] = late[o][j]
        BY <2>2, <3>1, <3>3
      <4>. QED BY <1>2, <2>1, <3>1, <3>2, <4>1 DEF LateKnows, Reports
    <3>4. CASE call[h] = "complete"
      <4>1. late'["complete"][j] = 1 /\ \A o \in Reports \ {"complete"} : late'[o][j] = late[o][j]
        BY <2>1, <2>2, <3>1, <3>4 DEF WorkerKnows, Reports
      <4>2. ~Recorded(j)' /\ Built(j)'
        BY <1>2, <2>1, <3>1, <3>4 DEF WorkerKnows
      <4>. QED BY <1>2, <2>1, <3>1, <3>2, <4>1, <4>2 DEF LateKnows, Reports
    <3>5. CASE call[h] = "finish"
      <4>1. \A o \in Reports \ {"finish"} : late'[o][j] = late[o][j]
        BY <2>2, <3>1, <3>5
      <4>2. job'[j].action = "deploy" => Recorded(j)'
        BY <1>2, <2>1, <3>1, <3>5 DEF WorkerKnows
      <4>. QED BY <1>2, <2>1, <3>1, <3>2, <4>1, <4>2 DEF LateKnows, Reports
    <3>6. CASE call[h] = "fail"
      <4>1. \A o \in Reports \ {"fail"} : late'[o][j] = late[o][j]
        BY <2>2, <3>1, <3>6
      <4>2. NotLive(j)'
        BY <1>2, <2>1, <3>1, <3>6 DEF WorkerKnows
      <4>. QED BY <1>2, <2>1, <3>1, <3>2, <4>1, <4>2 DEF LateKnows, Reports
    <3>. QED BY <3>3, <3>4, <3>5, <3>6 DEF Reports
  <2>. QED BY <1>1, <2>1, <2>3, <2>5, OneJob DEF Rows, Mine
<1>. QED BY <1>3, <1>4

LEMMA NoAnswerKeeps ==
  ASSUME LedgerInv, Inv', NEW h \in Hosts, CallFails(h) \/ GiveUp(h) \/ Crash(h)
  PROVE  LedgerInv'
<1>1. /\ UNCHANGED <<job, releases, dirs, current, execs>>
      /\ \A g \in Hosts \ {h} :
           agent'[g] = agent[g] /\ call'[g] = call[g] /\ work'[g] = work[g]
      /\ call'[h] \in {"none", "error"}
  BY DEF CallFails, GiveUp, Crash, Become, Answer, Kill, jobsVars, hostVars,
     LedgerInv, Inv, DeploymentTypeOK, HostInv, HostTypeOK
<1>2. Pc(h)' # "working"
  BY DEF CallFails, GiveUp, Crash, Become, LedgerInv, Inv, AgentInv, CallFits, Pc, Ops,
     DeploymentTypeOK
<1>3. CASE CallFails(h)
  <2>1. late' = late /\ Rows' /\ LedgerMoves /\ WorkerKnows(h)'
    BY <1>1, <1>2, <1>3, RowsUntouched DEF CallFails, WorkerKnows
  <2>2. \A i \in JobIds : Untouched(i)
    BY <1>1, <2>1 DEF Untouched, Built, Exists, NotLive, Recorded, RootFor
  <2>. QED BY <1>1, <2>1, <2>2, NoJob DEF Rows
<1>4. CASE GiveUp(h) \/ Crash(h)
  BY <1>1, <1>2, <1>4, AbandonKeeps DEF GiveUp, Crash
<1>. QED BY <1>3, <1>4

-----------------------------------------------------------------------------
(* The agent's loop.                                                       *)

(* Outside an execution, with no report under way, it knows nothing.       *)
LEMMA LoopKeeps ==
  ASSUME LedgerInv, Inv', NEW h \in Hosts,
         \/ Start(h) \/ Poll(h) \/ EndTick(h) \/ StartFailed(h) \/ GotReport(h)
         \/ \E j \in JobIds : Take(h, j)
  PROVE  LedgerInv'
<1>1. /\ UNCHANGED <<job, releases, late, execs, work, dirs, current>>
      /\ \A g \in Hosts \ {h} : agent'[g] = agent[g] /\ call'[g] = call[g]
  BY DEF Start, Poll, EndTick, StartFailed, GotReport, Take, jobsVars, hostVars,
     Become, Answer, LedgerInv, Inv, DeploymentTypeOK
<1>2. Pc(h)' # "working" /\ call'[h] \in {"none", "start"}
  BY DEF Start, Poll, EndTick, StartFailed, GotReport, Take, Become, Answer,
     LedgerInv, Inv, AgentInv, CallFits, Pc, DeploymentTypeOK
<1>3. Rows' /\ LedgerMoves /\ WorkerKnows(h)'
  BY <1>1, <1>2, RowsUntouched DEF WorkerKnows
<1>4. \A i \in JobIds : Untouched(i)
  BY <1>1 DEF Untouched, Built, Exists, NotLive, Recorded, RootFor
<1>. QED BY <1>1, <1>3, <1>4, NoJob DEF Rows

(* A job that was never executed has no report, no release and no row.     *)
LEMMA GotStartKeeps ==
  ASSUME LedgerInv, Inv', NEW h \in Hosts, GotStart(h)
  PROVE  LedgerInv'
<1> PICK j \in JobIds : j = agent[h].job
  BY GotStartIsHandOver DEF LedgerInv
<1>1. /\ Mine(h, j) /\ execs[j] = 0 /\ Begin(h, j, RootFor(j), job[j].action)
      /\ HasJob(h) /\ Pc(h) = "starting" /\ call[h] = "ok"
  BY GotStartIsHandOver DEF LedgerInv, HandOver, GotStart, HasJob, Accepted
<1>2. WorkerKnows(h) /\ LateKnows(j)
  BY DEF LedgerInv
<1>3. /\ UNCHANGED <<job, releases, late, dirs, current>>
      /\ \A g \in Hosts \ {h} :
           agent'[g] = agent[g] /\ call'[g] = call[g] /\ work'[g] = work[g]
      /\ \A i \in JobIds \ {j} : execs'[i] = execs[i]
      /\ execs'[j] = 1
      /\ work'[h].step = FirstStep(job[j].action)
      /\ call'[h] = "none"
  BY <1>1 DEF GotStart, Begin, Become, Answer, jobsVars, LedgerInv, Inv,
     DeploymentTypeOK, HostInv, HostTypeOK
<1>4. agent[h] \in [pc : {"starting", "working", "reporting"},
                    queue : SUBSET JobIds, job : JobIds]
  BY <1>1 DEF LedgerInv, Inv, DeploymentTypeOK, Agent, Pc
<1>5. agent'[h].pc = "working" /\ agent'[h].job = j
  BY <1>4 DEF GotStart, Become, LedgerInv, Inv, DeploymentTypeOK
<1>6. ~Recorded(j) /\ \A op \in Reports : late[op][j] = 0
  BY <1>1, <1>2 DEF LedgerInv, RowsKnown, Recorded, LateKnows
<1>7. WorkerKnows(h)'
  BY <1>1, <1>2, <1>3, <1>5, <1>6 DEF WorkerKnows, Pc, FirstStep, DeploySteps,
     SetupSteps, Recorded, Reports
<1>8. LateKnows(j)'
  BY <1>3, <1>6 DEF LateKnows, Reports
<1>9. \A i \in JobIds \ {j} : Untouched(i)
  BY <1>3 DEF Untouched, Built, Exists, NotLive, Recorded, RootFor
<1>10. Rows' /\ LedgerMoves
  <2>1. \A i \in JobIds : execs[i] = 1 => execs'[i] = 1
    BY <1>1, <1>3
  <2>2. Placed' /\ LiveKnown'
    BY <1>3 DEF LedgerInv, Placed, LiveKnown, RootFor, Exists
  <2>. QED BY <1>3, <2>1, <2>2, RowsKept, NothingMoves DEF Rows
<1>. QED BY <1>1, <1>3, <1>7, <1>8, <1>9, <1>10, OneJob DEF Rows

(* What a step of the executor may do: directories come, the job's at its  *)
(* root; current moves to the initial page or, by a deploy, to the job.    *)
ExecutorMoves(h) ==
  LET w == work[h]
  IN /\ w \in Work /\ execs' = execs /\ w.step \notin Done
     /\ \A g \in Hosts \ {h} : work'[g] = work[g]
     /\ work'[h].job = w.job /\ work'[h].root = w.root
     /\ \A r \in Roots :
          /\ dirs[r] \subseteq dirs'[r]
          /\ dirs'[r] \subseteq dirs[r] \cup {Initial}
               \cup (IF r = w.root /\ w.step = "checkout" THEN {w.job} ELSE {})
     /\ \A r \in Roots :
          \/ current'[r] = current[r]
          \/ r = w.root /\ current'[r] = Initial /\ current[r] \notin JobIds
          \/ /\ r = w.root /\ w.step = "swap" /\ work'[h].step = "ok"
             /\ current'[r] = w.job
     /\ work'[h].step \in DeploySteps => w.step \in DeploySteps
     /\ work'[h].step \in SetupSteps => w.step \in SetupSteps
     /\ work'[h].step = "ok" =>
          \/ /\ w.step = "swap" /\ w.step \in DeploySteps
             /\ w.job \in dirs[w.root] /\ current'[w.root] = w.job
          \/ w.step = "finish" /\ w.step \in SetupSteps

LEMMA ExecuteMoves ==
  ASSUME HostInv, NEW h \in Hosts, Execute(h)
  PROVE  ExecutorMoves(h)
<1> DEFINE w == work[h]
<1>1. w \in Work /\ Busy(h)
  BY DEF HostInv, HostTypeOK, Busy, NoWork, Work, Execute, At, Clone, Checkout,
     Publish, Link, Swap, DeployFails, MakeDirs, Ensure, Finish, SetupFails,
     DeploySteps, SetupSteps
<1> USE DEF Done, ExecutorMoves
<1>2. StepKnows(h)
  BY <1>1 DEF HostInv
<1>3. \A s : GoTo(h, s) =>
        /\ work'[h].step = s /\ work'[h].job = w.job /\ work'[h].root = w.root
        /\ \A g \in Hosts \ {h} : work'[g] = work[g]
  BY <1>1 DEF GoTo, HostInv, HostTypeOK, Work
<1>4. CASE Checkout(h)
  BY <1>1, <1>3, <1>4 DEF Checkout, RenameTemp, At, HostInv, HostTypeOK, Work,
     DeploySteps, SetupSteps
<1>5. CASE Swap(h)
  BY <1>1, <1>2, <1>3, <1>5 DEF Swap, At, StepKnows, HostInv, HostTypeOK, Work,
     DeploySteps, SetupSteps
<1>6. CASE Clone(h) \/ Publish(h) \/ Link(h) \/ DeployFails(h)
  BY <1>1, <1>3, <1>6 DEF Clone, Publish, Link, DeployFails, At, DeploySteps, SetupSteps
<1>7. CASE MakeDirs(h)
  BY <1>1, <1>3, <1>7 DEF MakeDirs, At, HostInv, HostTypeOK, Work,
     DeploySteps, SetupSteps
<1>8. CASE Ensure(h)
  BY <1>1, <1>3, <1>8, HostAssumption DEF Ensure, Linkable, At, HostInv, HostTypeOK, Work,
     DeploySteps, SetupSteps
<1>9. CASE Finish(h) \/ SetupFails(h)
  BY <1>1, <1>3, <1>9 DEF Finish, SetupFails, At, DeploySteps, SetupSteps
<1>. QED BY <1>4, <1>5, <1>6, <1>7, <1>8, <1>9 DEF Execute

LEMMA WorkingKeeps ==
  ASSUME LedgerInv, Inv', NEW h \in Hosts, Working(h)
  PROVE  LedgerInv'
<1>1. Pc(h) = "working" /\ HasJob(h) /\ AgentInv(h) /\ Execute(h)
  BY DEF Working, HasJob, LedgerInv, Inv
<1>2. Mine(h, agent[h].job)
  BY <1>1, Caller DEF LedgerInv
<1> PICK j \in JobIds : j = agent[h].job
  BY <1>2 DEF Mine
<1>3. /\ WorkerKnows(h) /\ LateKnows(j) /\ call[h] = "none" /\ execs[j] = 1
      /\ work[h].job = j /\ work[h].root = RootFor(j) /\ RootFor(j) \in Roots
  BY <1>1, <1>2, Rooted DEF LedgerInv, Inv, AgentInv, CallFits, ExecutionKnown, Mine
<1>4. UNCHANGED <<job, releases, agent, call, late>>
  BY DEF Working, jobsVars, deployVars
<1> DEFINE w == work[h]
<1>5. ExecutorMoves(h)
  BY <1>1, ExecuteMoves DEF LedgerInv, Inv
<1> USE DEF ExecutorMoves
<1>6. ASSUME NEW i \in JobIds \ {j} PROVE Untouched(i)
  <2>1. NotLive(i) => NotLive(i)'
    BY <1>3, <1>5, HostAssumption DEF NotLive
  <2>2. Built(i) => Built(i)'
    <3>1. CASE Exists(i)
      BY <1>4, <1>5, <3>1, Rooted DEF Built, Exists, RootFor, LedgerInv
    <3>2. CASE ~Exists(i)
      BY <1>4, <3>2 DEF Built, Exists
    <3>. QED BY <3>1, <3>2
  <2>. QED BY <1>4, <1>5, <2>1, <2>2 DEF Untouched, Recorded
<1>7. Built(j) => Built(j)'
  BY <1>3, <1>4, <1>5 DEF Built, Exists, RootFor
<1>8. WorkerKnows(h)'
  <2>1. ~Recorded(j)'
    BY <1>1, <1>3, <1>4 DEF WorkerKnows, Recorded
  <2>2. work'[h].step = "ok" => Built(j)'
    <3>1. w.step \in SetupSteps => job[j].action = "setup_app"
      BY <1>1, <1>3 DEF WorkerKnows
    <3>. QED BY <1>3, <1>4, <1>5, <3>1 DEF Built, Exists, RootFor
  <2>. QED BY <1>1, <1>3, <1>4, <1>5, <2>1, <2>2 DEF WorkerKnows, Pc
<1>9. LateKnows(j)'
  BY <1>1, <1>3, <1>4, <1>5 DEF LateKnows, WorkerKnows, Reports, Recorded
<1>10. Placed'
  <2>1. ASSUME NEW r \in Roots, NEW i \in JobIds, i \in dirs'[r]
        PROVE  i \in dirs[r] \/ (i = j /\ r = RootFor(j))
    BY <1>3, <1>5, <2>1, HostAssumption
  <2>. QED BY <1>2, <1>4, <2>1 DEF LedgerInv, Placed, RootFor, Exists, Mine
<1>11. LiveKnown'
  <2>1. ASSUME NEW r \in Roots, NEW i \in JobIds, current'[r] = i
        PROVE  current[r] = i \/ i = j
    BY <1>3, <1>5, <2>1, HostAssumption
  <2>. QED BY <1>1, <1>3, <1>4, <2>1 DEF LedgerInv, LiveKnown, WorkerKnows
<1>12. Rows' /\ LedgerMoves
  BY <1>4, <1>5, <1>10, <1>11, RowsKept, NothingMoves DEF Rows
<1>. QED BY <1>2, <1>4, <1>5, <1>6, <1>8, <1>9, <1>12, OneJob DEF Rows

(* An execution that failed cannot make its job live any more.             *)
LEMMA ReportKeeps ==
  ASSUME LedgerInv, Inv', NEW h \in Hosts, Report(h)
  PROVE  LedgerInv'
<1>1. Pc(h) = "working" /\ HasJob(h) /\ AgentInv(h) /\ Finished(h)
  BY DEF Report, HasJob, LedgerInv, Inv
<1>2. Mine(h, agent[h].job)
  BY <1>1, Caller DEF LedgerInv
<1> PICK j \in JobIds : j = agent[h].job
  BY <1>2 DEF Mine
<1>3. /\ WorkerKnows(h) /\ StepKnows(h)
      /\ work[h].job = j /\ work[h].root = RootFor(j) /\ RootFor(j) \in Roots
  BY <1>1, <1>2, Rooted DEF LedgerInv, Inv, HostInv, AgentInv, ExecutionKnown, Mine
<1>4. /\ UNCHANGED <<job, releases, late, dirs, current, execs>>
      /\ \A g \in Hosts \ {h} :
           agent'[g] = agent[g] /\ call'[g] = call[g] /\ work'[g] = work[g]
      /\ call'[h] = IF work[h].step = "ok" THEN "complete" ELSE "fail"
  BY DEF Report, Leave, Become, Answer, Outcome, At, jobsVars, LedgerInv, Inv,
     DeploymentTypeOK, HostInv, HostTypeOK
<1>5. agent[h] \in [pc : {"starting", "working", "reporting"},
                    queue : SUBSET JobIds, job : JobIds]
  BY <1>1 DEF LedgerInv, Inv, DeploymentTypeOK, Agent, Pc
<1>6. agent'[h].pc = "reporting" /\ agent'[h].job = j
  BY <1>5 DEF Report, Become, LedgerInv, Inv, DeploymentTypeOK
<1>7. work[h].step = "err" => NotLive(j)
  <2> SUFFICES ASSUME work[h].step = "err", NEW r \in Roots, current[r] = j
               PROVE  FALSE
    BY DEF NotLive
  <2>1. j \in dirs[r]
    BY HostAssumption DEF LedgerInv, Inv, HostInv, LinksResolve
  <2>2. r = RootFor(j)
    BY <2>1 DEF LedgerInv, Placed
  <2>. QED BY <1>3, <2>2 DEF StepKnows
<1>8. WorkerKnows(h)'
  <2>1. call'[h] = "complete" => ~Recorded(j)' /\ Built(j)' /\ late'["complete"][j] = 0
    BY <1>1, <1>3, <1>4 DEF WorkerKnows, Recorded, Built, Exists, RootFor
  <2>2. call'[h] = "fail" => NotLive(j)'
    BY <1>1, <1>4, <1>7 DEF Finished, Done, NotLive
  <2>. QED BY <1>4, <1>6, <2>1, <2>2 DEF WorkerKnows, Pc
<1>9. Rows' /\ LedgerMoves
  BY <1>4, RowsUntouched
<1>10. \A i \in JobIds : Untouched(i)
  BY <1>4 DEF Untouched, Built, Exists, NotLive, Recorded, RootFor
<1>. QED BY <1>4, <1>8, <1>9, <1>10, NoJob DEF Rows

-----------------------------------------------------------------------------
LEMMA LedgerInvInit == Init => LedgerInv
<1> SUFFICES ASSUME Init PROVE LedgerInv
  OBVIOUS
<1>1. Inv
  BY InvInit
<1>2. \A h \in Hosts : WorkerKnows(h)
  BY DEF Init, WorkerKnows, Pc
<1>3. \A j \in JobIds : LateKnows(j)
  <2>1. \A op \in Reports, j \in JobIds : late[op][j] = 0
    BY DEF Init, Reports, Ops
  <2>2. ASSUME NEW j \in JobIds PROVE LateKnows(j)
    <3>1. \A op \in Reports : late[op][j] = 0
      BY <2>1
    <3>. QED BY <3>1 DEF LateKnows, Reports
  <2>. QED BY <2>2
<1>4. Rows
  BY HostAssumption DEF Init, JobsInit, HostInit, Rows, RowsKnown, RecordedOnce, Placed,
     LiveKnown, SuccessIsRecorded, Exists
<1>. QED BY <1>1, <1>2, <1>3, <1>4 DEF LedgerInv, Rows

LEMMA LedgerInvNext == LedgerInv /\ [Next]_vars => LedgerInv'
<1> SUFFICES ASSUME LedgerInv, [Next]_vars PROVE LedgerInv'
  OBVIOUS
<1>1. Inv /\ Inv'
  BY InvNext DEF LedgerInv
<1>2. CASE UNCHANGED vars
  <2>1. UNCHANGED <<job, releases, work, dirs, current, execs, agent, call, late>>
    BY <1>2 DEF vars, jobsVars, hostVars, deployVars
  <2>2. Rows' /\ LedgerMoves
    BY <2>1, RowsUntouched
  <2>3. \A i \in JobIds : Untouched(i)
    BY <2>1 DEF Untouched, Built, Exists, NotLive, Recorded, RootFor
  <2>4. \A h \in Hosts : WorkerKnows(h)'
    BY <2>1, <2>2, <2>3, WorkerKept, Caller DEF Mine, LedgerInv
  <2>5. \A i \in JobIds : LateKnows(i)'
    BY <2>2, <2>3, LateKept
  <2>. QED BY <1>1, <2>2, <2>4, <2>5 DEF LedgerInv, Rows
<1>3. CASE Next
  <2>1. LedgerMoves
    BY <1>1, <1>3, NextMoves
  <2>2. CASE UserStep
    BY <1>1, <2>1, <2>2, UsersKeep
  <2>3. ASSUME NEW h \in Hosts, Tick(h) PROVE LedgerInv'
    BY <1>1, <2>3, LoopKeeps, GotStartKeeps, WorkingKeeps, ReportKeeps DEF Tick
  <2>4. ASSUME NEW h \in Hosts, Handle(h) PROVE LedgerInv'
    BY <1>1, <2>1, <2>4, HandleKeeps
  <2>5. CASE Trouble
    BY <1>1, <2>1, <2>5, NoAnswerKeeps, HandleLateKeeps, LoseLateKeeps DEF Trouble
  <2>. QED BY <1>3, <2>2, <2>3, <2>4, <2>5 DEF Next
<1>. QED BY <1>2, <1>3

THEOREM LedgerInvariant == Spec => []LedgerInv
  BY LedgerInvInit, LedgerInvNext, PTL DEF Spec

(* Every release row names a directory that is in place on its host.       *)
THEOREM ReleasesOnHosts == Spec => []ReleaseOnHost
<1>1. LedgerInv => ReleaseOnHost
  BY DEF LedgerInv, RowsKnown, ReleaseOnHost, RootFor
<1>. QED BY <1>1, LedgerInvariant, PTL

(* A deploy called successful has its release recorded.                    *)
THEOREM SuccessRecorded == Spec => []SuccessIsRecorded
<1>1. LedgerInv => SuccessIsRecorded
  BY DEF LedgerInv
<1>. QED BY <1>1, LedgerInvariant, PTL

(* What is live is never called failed or pending: it was executed, so it  *)
(* is not pending, and no request to fail it was ever sent.                *)
THEOREM LiveNotFailed == Spec => []LiveIsNotFailed
<1>1. LedgerInv => LiveIsNotFailed
  <2> SUFFICES ASSUME LedgerInv, NEW r \in Roots, NEW j \in JobIds, current[r] = j
               PROVE  job[j].status \in {"running", "success", "canceled"}
    BY DEF LiveIsNotFailed
  <2>1. j \in dirs[r]
    BY HostAssumption DEF LedgerInv, Inv, HostInv, LinksResolve
  <2>2. execs[j] > 0
    BY <2>1 DEF LedgerInv, Inv, HostInv, MadeByExecution
  <2>3. job[j] \in Row /\ job[j].status \notin Pending
    BY <2>2, RowOrNot DEF LedgerInv, Inv, Once
  <2>4. job[j].status # "failed"
    BY DEF LedgerInv, LiveKnown
  <2>. QED BY <2>3, <2>4 DEF Row, Statuses, Pending
<1>. QED BY <1>1, LedgerInvariant, PTL


-----------------------------------------------------------------------------
(* The pipeline as a Rollout.                                              *)

BuiltSets == [r \in Roots |-> dirs[r] \cap JobIds]
LiveSets == [r \in Roots |-> {current[r]} \cap JobIds]
LogSets == [j \in JobIds |->
              Cardinality({n \in DOMAIN releases : releases[n].job = j})]

(* The log counts a release at most once.                                  *)
LogOfRecords == LogSets = [j \in JobIds |-> IF Recorded(j) THEN 1 ELSE 0]

LEMMA LogIs == LedgerInv => LogOfRecords
<1> SUFFICES ASSUME LedgerInv, NEW j \in JobIds
             PROVE  Cardinality({n \in DOMAIN releases : releases[n].job = j})
                      = IF Recorded(j) THEN 1 ELSE 0
  BY DEF LogSets, LogOfRecords
<1>1. CASE Recorded(j)
  <2>1. PICK n \in DOMAIN releases : releases[n].job = j
    BY <1>1 DEF Recorded
  <2>2. {m \in DOMAIN releases : releases[m].job = j} = {n}
    BY <2>1 DEF LedgerInv, RecordedOnce
  <2>. QED BY <1>1, <2>2, FS_Singleton
<1>2. CASE ~Recorded(j)
  <2>1. {m \in DOMAIN releases : releases[m].job = j} = {}
    BY <1>2 DEF Recorded
  <2>. QED BY <1>2, <2>1, FS_EmptySet
<1>. QED BY <1>1, <1>2

LEMMA LogIsThen == LedgerInv' => LogOfRecords'
  BY LogIs, PTL

LEMMA RolloutInitial == Init => Promise!RolloutInit
<1> SUFFICES ASSUME Init PROVE Promise!RolloutInit
  OBVIOUS
<1>1. LogSets = [j \in JobIds |-> 0]
  <2>1. \A j \in JobIds : ~Recorded(j)
    <3>1. DOMAIN releases = {}
      BY DEF Init, JobsInit
    <3>. QED BY <3>1 DEF Recorded
  <2>. QED BY <2>1, LedgerInvInit, LogIs DEF LogOfRecords
<1>2. BuiltSets = [r \in Roots |-> {}] /\ LiveSets = [r \in Roots |-> {}]
  BY HostAssumption DEF Init, HostInit, BuiltSets, LiveSets
<1>3. execs = [j \in JobIds |-> 0]
  BY DEF Init, HostInit
<1>. QED BY <1>1, <1>2, <1>3
         DEF Promise!RolloutInit, Promise!None, BuiltSets, LiveSets, LogSets

(* Serving a complete request of a deploy records its release, any other   *)
(* request changes nothing here.                                           *)
LEMMA ServingIsRecord ==
  ASSUME LedgerInv, LedgerInv', NEW op \in Ops, NEW j \in JobIds, Exists(j), NEW after,
         Serve(op, j, after), Harmless(op, j), UNCHANGED hostVars
  PROVE  Promise!Record(j) \/ UNCHANGED Promise!rolloutVars
<1>1. UNCHANGED <<execs, BuiltSets, LiveSets>>
  BY DEF hostVars, BuiltSets, LiveSets
<1>2. /\ \A i \in JobIds \ {j} : Recorded(i)' <=> Recorded(i)
      /\ op = "complete" => (Recorded(j)' <=> job[j].action = "deploy")
      /\ op # "complete" => releases' = releases
  BY Serving DEF LedgerAfter
<1>3. CASE op = "complete" /\ job[j].action = "deploy"
  <2>1. ~Recorded(j) /\ j \in dirs[RootFor(j)] /\ RootFor(j) \in Roots
    BY <1>3, Rooted DEF Harmless, Built, LedgerInv
  <2>2. LogSets[j] = 0 /\ \E r \in Roots : j \in BuiltSets[r]
    BY <2>1, LogIs DEF BuiltSets, LogOfRecords
  <2>3. LogSets' = [i \in JobIds |-> IF Recorded(i)' THEN 1 ELSE 0]
    BY LogIsThen DEF LogOfRecords
  <2>4. LogSets' = [LogSets EXCEPT ![j] = 1]
    BY <1>2, <1>3, <2>3, LogIs DEF LogOfRecords
  <2>. QED BY <1>1, <2>2, <2>4 DEF Promise!Record, BuiltSets, LiveSets, LogSets
<1>4. CASE ~(op = "complete" /\ job[j].action = "deploy")
  <2>1. \A i \in JobIds : Recorded(i)' <=> Recorded(i)
    BY <1>2, <1>4 DEF Recorded, Harmless
  <2>2. LogSets' = [i \in JobIds |-> IF Recorded(i)' THEN 1 ELSE 0]
    BY LogIsThen DEF LogOfRecords
  <2>3. LogSets' = LogSets
    BY <2>1, <2>2, LogIs DEF LogOfRecords
  <2>. QED BY <1>1, <2>3 DEF Promise!rolloutVars, BuiltSets, LiveSets, LogSets
<1>. QED BY <1>3, <1>4

LEMMA WorkingIsRollout ==
  ASSUME LedgerInv, NEW h \in Hosts, Working(h)
  PROVE  \/ \E r \in Roots, j \in JobIds : Promise!Build(r, j) \/ Promise!Activate(r, j)
         \/ UNCHANGED Promise!rolloutVars
<1>1. Pc(h) = "working" /\ HasJob(h) /\ AgentInv(h) /\ Execute(h)
  BY DEF Working, HasJob, LedgerInv, Inv
<1>2. Mine(h, agent[h].job)
  BY <1>1, Caller DEF LedgerInv
<1> PICK j \in JobIds : j = agent[h].job
  BY <1>2 DEF Mine
<1> PICK r \in Roots : r = RootFor(j)
  BY <1>2, Rooted DEF Mine, LedgerInv
<1>3. WorkerKnows(h) /\ execs[j] = 1 /\ work[h].job = j /\ work[h].root = r
  BY <1>1 DEF LedgerInv, Inv, AgentInv, ExecutionKnown
<1>4. LogSets' = LogSets /\ LogSets[j] = 0
  BY <1>1, <1>3, LogIs DEF Working, jobsVars, LogSets, WorkerKnows, LogOfRecords
<1> DEFINE w == work[h]
<1>5. ExecutorMoves(h)
  BY <1>1, ExecuteMoves DEF LedgerInv, Inv
<1> USE DEF ExecutorMoves
<1>6. \A q \in Roots : \/ dirs'[q] \cap JobIds = dirs[q] \cap JobIds
                       \/ /\ q = r /\ w.step = "checkout"
                          /\ dirs'[q] \cap JobIds = (dirs[q] \cap JobIds) \cup {j}
  BY <1>3, <1>5, HostAssumption
<1>7. \A q \in Roots : \/ {current'[q]} \cap JobIds = {current[q]} \cap JobIds
                       \/ /\ q = r /\ w.step = "swap" /\ j \in dirs[q]
                          /\ {current'[q]} \cap JobIds = {j}
  BY <1>3, <1>5, HostAssumption
<1>8. CASE w.step = "checkout"
  <2>1. LiveSets' = LiveSets
    BY <1>7, <1>8 DEF LiveSets
  <2>2. BuiltSets' = BuiltSets \/ BuiltSets' = [BuiltSets EXCEPT ![r] = @ \cup {j}]
    BY <1>6 DEF BuiltSets
  <2>. QED BY <1>3, <1>4, <1>5, <2>1, <2>2
           DEF Promise!Build, Promise!rolloutVars, BuiltSets, LiveSets, LogSets
<1>9. CASE w.step # "checkout"
  <2>1. BuiltSets' = BuiltSets
    BY <1>6, <1>9 DEF BuiltSets
  <2>2. \/ LiveSets' = LiveSets
        \/ /\ j \in BuiltSets[r]
           /\ LiveSets' = [LiveSets EXCEPT ![r] = {j}]
    <3>1. /\ LiveSets \in [Roots -> SUBSET JobIds] /\ LiveSets' \in [Roots -> SUBSET JobIds]
          /\ \A q \in Roots : LiveSets[q] = {current[q]} \cap JobIds
          /\ \A q \in Roots : LiveSets'[q] = {current'[q]} \cap JobIds
      BY DEF LiveSets
    <3>2. \A q \in Roots : \/ LiveSets'[q] = LiveSets[q]
                           \/ q = r /\ j \in BuiltSets[r] /\ LiveSets'[q] = {j}
      BY <1>7, <3>1 DEF BuiltSets
    <3>3. CASE LiveSets'[r] = LiveSets[r]
      <4>1. \A q \in Roots : {current'[q]} \cap JobIds = {current[q]} \cap JobIds
        BY <3>1, <3>2, <3>3
      <4>2. LiveSets' = LiveSets
        BY <4>1 DEF LiveSets
      <4>. QED BY <4>2
    <3>4. CASE LiveSets'[r] # LiveSets[r]
      <4>1. /\ j \in BuiltSets[r] /\ LiveSets'[r] = {j}
            /\ \A q \in Roots \ {r} : LiveSets'[q] = LiveSets[q]
        BY <3>2, <3>4
      <4>. QED BY <3>1, <4>1
    <3>. QED BY <3>3, <3>4
  <2>. QED BY <1>3, <1>4, <1>5, <2>1, <2>2
           DEF Promise!Activate, Promise!rolloutVars, BuiltSets, LiveSets, LogSets
<1>. QED BY <1>8, <1>9

LEMMA GotStartIsRun ==
  ASSUME LedgerInv, NEW h \in Hosts, GotStart(h)
  PROVE  \E j \in JobIds : Promise!Run(j)
<1> PICK j \in JobIds : j = agent[h].job
  BY GotStartIsHandOver DEF LedgerInv
<1>1. /\ execs[j] = 0 /\ execs' = [execs EXCEPT ![j] = @ + 1]
      /\ UNCHANGED <<releases, dirs, current>>
  BY GotStartIsHandOver DEF LedgerInv, HandOver, Begin, GotStart, jobsVars
<1>2. execs' = [execs EXCEPT ![j] = 1]
  BY <1>1 DEF LedgerInv, Inv, HostInv, HostTypeOK
<1>. QED BY <1>1, <1>2 DEF Promise!Run

LEMMA NextIsRollout ==
  ASSUME LedgerInv, LedgerInv', [Next]_vars
  PROVE  [Promise!RolloutNext]_(Promise!rolloutVars)
<1>1. CASE UNCHANGED <<releases, dirs, current, execs>>
  BY <1>1 DEF Promise!rolloutVars
<1>2. ASSUME NEW h \in Hosts, Handle(h)
      PROVE  [Promise!RolloutNext]_(Promise!rolloutVars)
  <2>1. call[h] \in Ops /\ HasJob(h) /\ Mine(h, agent[h].job) /\ UNCHANGED hostVars
    BY <1>2, Caller DEF Handle, LedgerInv
  <2>2. Harmless(call[h], agent[h].job)
    BY <2>1 DEF Harmless, LedgerInv, WorkerKnows, Inv, AgentInv, CallFits, HasJob, Ops,
       ExecutionKnown
  <2>. QED BY <1>2, <2>1, <2>2, ServingIsRecord
           DEF Handle, Mine, Promise!RolloutNext
<1>3. ASSUME NEW op \in Ops, NEW j \in JobIds, HandleLate(op, j)
      PROVE  [Promise!RolloutNext]_(Promise!rolloutVars)
  <2>1. late[op][j] > 0 /\ Exists(j) /\ LateKnows(j) /\ UNCHANGED hostVars
    BY <1>3 DEF HandleLate, LedgerInv, Inv, LateKnown
  <2>2. Harmless(op, j)
    BY <2>1 DEF Harmless, LateKnows, Reports, LedgerInv, Inv, Once
  <2>. QED BY <1>3, <2>1, <2>2, ServingIsRecord DEF HandleLate, Promise!RolloutNext
<1>4. ASSUME NEW h \in Hosts, GotStart(h) \/ Working(h)
      PROVE  [Promise!RolloutNext]_(Promise!rolloutVars)
  BY <1>4, GotStartIsRun, WorkingIsRollout DEF Promise!RolloutNext
<1>5. UserStep => UNCHANGED releases
  BY DEF UserStep, Users, CreateDeployment, SetupApp, RollbackRelease, CancelDeployment,
     InsertJob, SetStatus
<1>. QED BY <1>1, <1>2, <1>3, <1>4, <1>5
     DEF Next, UserStep, Tick, Trouble, Start, Poll, EndTick, Take, StartFailed,
         Report, Leave, GotReport, CallFails, GiveUp, Crash, Kill, LoseLate, vars,
         jobsVars, hostVars

(* The pipeline implements Rollout: a job runs once, its directory is      *)
(* built, goes live and is recorded, in this order and recorded once,      *)
(* whatever is lost, late or dead.                                         *)
THEOREM PipelineIsRollout == Spec => ImplementsRollout
<1>1. Init => Promise!RolloutInit
  BY RolloutInitial
<1>2. LedgerInv /\ LedgerInv' /\ [Next]_vars => [Promise!RolloutNext]_(Promise!rolloutVars)
  BY NextIsRollout
<1>. QED BY <1>1, <1>2, LedgerInvariant, PTL
         DEF Spec, ImplementsRollout, Promise!RolloutSpec

-----------------------------------------------------------------------------
(* A cancellation that comes before the listing.                           *)

LEMMA CanceledStays ==
  ASSUME Inv, Next, NEW j \in JobIds, job[j].status = "canceled", ~InHand(j)
  PROVE  /\ job'[j].status = "canceled"
         /\ execs'[j] = execs[j]
         /\ ~InHand(j)'
<1>1. /\ Exists(j) /\ j \notin UNION {ListPending(h) : h \in Hosts}
      /\ \A h \in Hosts : j \notin agent[h].queue /\ (HasJob(h) => agent[h].job # j)
      /\ \A op \in Ops : late[op][j] = 0
  BY DEF InHand, HasJob, Exists, NoRow, ListPending, Pending, Inv, DeploymentTypeOK
<1>2. \A i \in JobIds \ {j}, s \in Statuses : SetStatus(i, s) => job'[j] = job[j]
  BY DEF SetStatus, Inv, JobsTypeOK
<1>3. \A i \in JobIds \ {j}, op \in Ops : \A after : Serve(op, i, after) => job'[j] = job[j]
  <2>1. \A op \in Ops : op # "complete" => StatusAfter[op] \in Statuses
    BY DEF StatusAfter, Ops, Statuses
  <2>. QED BY <1>2, <2>1 DEF Serve, RecordRelease, InsertRelease, jobsVars
<1>4. CASE UserStep
  <2>1. job'[j].status = "canceled"
    <3>1. \A i \in JobIds \ {j} : \A a, b, c, d : InsertJob(i, a, b, c, d) => job'[j] = job[j]
      BY DEF InsertJob, Inv, JobsTypeOK
    <3>2. \A a, b, c, d : ~InsertJob(j, a, b, c, d)
      BY <1>1 DEF InsertJob
    <3>3. SetStatus(j, "canceled") => job'[j].status = "canceled"
      BY <1>1, Setting DEF Inv, Statuses
    <3>. QED BY <1>2, <1>4, <3>1, <3>2, <3>3
         DEF UserStep, Users, CreateDeployment, SetupApp, RollbackRelease,
             CancelDeployment, Statuses
  <2>2. UNCHANGED <<agent, late, execs>>
    BY <1>4 DEF UserStep, hostVars, deployVars
  <2>. QED BY <2>1, <2>2 DEF InHand, Pc
<1>5. ASSUME NEW h \in Hosts, Handle(h) PROVE job'[j] = job[j]
  BY <1>1, <1>3, <1>5, Caller DEF Handle, Mine
<1>6. ASSUME NEW h \in Hosts, Handle(h) \/ CallFails(h)
      PROVE  UNCHANGED <<agent, late, execs>>
  BY <1>6 DEF Handle, CallFails, hostVars
<1>7. ASSUME NEW op \in Ops, NEW i \in JobIds, HandleLate(op, i) \/ LoseLate(op, i)
      PROVE  /\ job'[j] = job[j] /\ UNCHANGED <<agent, execs>>
             /\ \A o \in Ops : late'[o][j] = late[o][j]
  <2>1. i # j /\ \A o \in Ops : late[o][j] \in Nat
    BY <1>1, <1>7 DEF HandleLate, LoseLate, Inv, DeploymentTypeOK
  <2>2. CASE HandleLate(op, i)
    BY <1>3, <2>1, <2>2 DEF HandleLate, hostVars
  <2>3. CASE LoseLate(op, i)
    BY <2>1, <2>3 DEF LoseLate, jobsVars, hostVars, Inv, DeploymentTypeOK
  <2>. QED BY <1>7, <2>2, <2>3
<1>8. ASSUME NEW h \in Hosts, Abandon(h)
      PROVE  \A o \in Ops : late'[o][j] = late[o][j]
  <2>1. CASE call[h] \in Ops
    BY <1>1, <1>8, <2>1, Caller DEF Abandon, Mine, Inv, DeploymentTypeOK
  <2>2. CASE call[h] \notin Ops
    BY <1>8, <2>2 DEF Abandon
  <2>. QED BY <2>1, <2>2
<1>9. ASSUME NEW h \in Hosts, GiveUp(h) \/ Crash(h)
      PROVE  /\ job' = job /\ execs' = execs
             /\ \A o \in Ops : late'[o][j] = late[o][j]
             /\ agent' = agent \/ agent' = [agent EXCEPT ![h] = [pc |-> "down", queue |-> {}]]
  BY <1>8, <1>9 DEF GiveUp, Crash, Become, Kill, jobsVars, hostVars
<1>10. ASSUME NEW h \in Hosts, Tick(h)
       PROVE  /\ job' = job /\ execs'[j] = execs[j] /\ late' = late
              /\ \A g \in Hosts \ {h} : agent'[g] = agent[g]
              /\ j \notin agent'[h].queue
              /\ agent'[h].pc \in {"starting", "working", "reporting"} => agent'[h].job # j
  <2>1. agent \in [Hosts -> Agent] /\ execs \in [JobIds -> Nat]
    BY DEF Inv, DeploymentTypeOK, HostInv, HostTypeOK
  <2>2. CASE Start(h) \/ Poll(h) \/ EndTick(h) \/ StartFailed(h) \/ GotReport(h)
    BY <1>1, <2>1, <2>2 DEF Start, Poll, EndTick, StartFailed, GotReport, Become,
       jobsVars, hostVars
  <2>3. ASSUME NEW i \in JobIds, Take(h, i)
        PROVE  /\ job' = job /\ execs' = execs /\ late' = late
               /\ \A g \in Hosts \ {h} : agent'[g] = agent[g]
               /\ j \notin agent'[h].queue /\ agent'[h].job # j
    BY <1>1, <2>1, <2>3 DEF Take, Become, jobsVars, hostVars
  <2>4. CASE GotStart(h) \/ Report(h)
    <3>1. HasJob(h) /\ agent[h].job # j /\ agent[h].job \in JobIds
      BY <1>1, <2>4, Caller DEF GotStart, Report, HasJob, Mine
    <3>2. agent[h] \in [pc : {"starting", "working", "reporting"},
                        queue : SUBSET JobIds, job : JobIds]
      BY <2>1, <3>1 DEF Agent, HasJob, Pc
    <3>3. /\ \A g \in Hosts \ {h} : agent'[g] = agent[g]
          /\ agent'[h].queue = agent[h].queue /\ agent'[h].job = agent[h].job
      BY <2>1, <2>4, <3>2 DEF GotStart, Report, Become
    <3>4. job' = job /\ late' = late /\ execs'[j] = execs[j]
      BY <2>1, <2>4, <3>1 DEF GotStart, Report, Begin, Leave, jobsVars
    <3>. QED BY <1>1, <3>1, <3>3, <3>4
  <2>5. CASE Working(h)
    <3>1. job' = job /\ late' = late /\ agent' = agent /\ execs' = execs
      BY <2>5, ExecuteMoves DEF ExecutorMoves, Working, jobsVars, deployVars, Inv
    <3>. QED BY <1>1, <3>1 DEF HasJob, Pc
  <2>. QED BY <1>10, <2>2, <2>3, <2>4, <2>5 DEF Tick
<1>11. CASE \E h \in Hosts : Tick(h)
  BY <1>1, <1>10, <1>11 DEF InHand, Pc, HasJob
<1>12. CASE \E h \in Hosts : Handle(h) \/ CallFails(h)
  <2>1. job'[j] = job[j]
    BY <1>5, <1>12 DEF CallFails, jobsVars
  <2>. QED BY <1>6, <1>12, <2>1 DEF InHand, Pc
<1>13. CASE \E h \in Hosts : GiveUp(h) \/ Crash(h)
  BY <1>1, <1>9, <1>13 DEF InHand, Pc, HasJob, Inv, DeploymentTypeOK
<1>14. CASE \E op \in Ops, i \in JobIds : HandleLate(op, i) \/ LoseLate(op, i)
  BY <1>7, <1>14 DEF InHand, Pc
<1>. QED BY <1>4, <1>11, <1>12, <1>13, <1>14 DEF Next, Trouble

(* A job canceled before any listing named it stays canceled and is never  *)
(* executed.                                                               *)
THEOREM EarlyCancel == Spec => EarlyCancelSticks
<1>1. Inv /\ [Next]_vars =>
        [\A j \in JobIds :
           (job[j].status = "canceled" /\ ~InHand(j)) =>
             /\ job'[j].status = "canceled"
             /\ execs'[j] = execs[j]
             /\ ~InHand(j)']_vars
  BY CanceledStays
<1>. QED BY <1>1, Invariant, PTL DEF Spec, EarlyCancelSticks

-----------------------------------------------------------------------------
(* As long as no fault happened.  A root is out of step with the ledger    *)
(* only while the agent of its host is between the swap of a deploy and    *)
(* the record of its release; then current points to that deploy.          *)

RowsOf(r) == {n \in DOMAIN releases : RootOf[releases[n].app] = r}

Agrees(r) ==
  IF RowsOf(r) = {}
  THEN current[r] \notin JobIds
  ELSE \E n \in RowsOf(r) : /\ \A m \in RowsOf(r) : m <= n
                            /\ current[r] = releases[n].job

Switched(h) ==
  /\ HasJob(h)
  /\ job[agent[h].job].action = "deploy"
  /\ \/ Pc(h) = "working" /\ At(h, "ok")
     \/ call[h] = "complete"

InStep(r) ==
  LET h == RootHost[r]
  IN IF Switched(h) /\ RootFor(agent[h].job) = r
     THEN current[r] = agent[h].job
     ELSE Agrees(r)

AllInStep ==
  faults = 0 => /\ \A op \in Ops, j \in JobIds : late[op][j] = 0
                /\ \A r \in Roots : InStep(r)

(* A root whose agent did not move.                                        *)
LEMMA InStepKept ==
  ASSUME Inv, LedgerMoves, NEW r \in Roots, NEW h \in Hosts, h = RootHost[r],
         agent'[h] = agent[h], call'[h] = call[h], work'[h] = work[h],
         current'[r] = current[r], Agrees(r) => Agrees(r)', InStep(r)
  PROVE  InStep(r)'
<1>1. HasJob(h)' <=> HasJob(h)
  BY DEF HasJob, Pc
<1>2. HasJob(h) => Mine(h, agent[h].job)
  BY Caller
<1>3. Switched(h)' <=> Switched(h)
  BY <1>1, <1>2 DEF Switched, Mine, LedgerMoves, Pc, At
<1>4. Switched(h) => RootFor(agent[h].job)' = RootFor(agent[h].job)
  BY <1>2 DEF Switched, Mine, LedgerMoves, RootFor
<1>. QED BY <1>3, <1>4 DEF InStep

(* A root whose agent moves, with nothing switched before or after.        *)
LEMMA InStepMoved ==
  ASSUME NEW r \in Roots, NEW h \in Hosts, h = RootHost[r], InStep(r),
         ~Switched(h), ~Switched(h)', Agrees(r) => Agrees(r)'
  PROVE  InStep(r)'
  BY DEF InStep

(* Where no site was live, the initial page is as good.                    *)
LEMMA AgreesKept ==
  ASSUME Inv, NEW r \in Roots, releases' = releases,
         \/ current'[r] = current[r]
         \/ current'[r] = Initial /\ current[r] \notin JobIds,
         Agrees(r)
  PROVE  Agrees(r)'
<1>1. RowsOf(r)' = RowsOf(r)
  BY DEF RowsOf
<1>2. \A n \in RowsOf(r) : releases[n].job \in JobIds
  <2>1. \A n \in DOMAIN releases : releases[n] \in Release
    BY DEF Inv, JobsTypeOK
  <2>. QED BY <2>1 DEF RowsOf, Release
<1>. QED BY <1>1, <1>2, HostAssumption DEF Agrees

(* What is left to show when one agent moves and current does not.         *)
LEMMA OneMoves ==
  ASSUME Inv, LedgerMoves, NEW h \in Hosts,
         \A g \in Hosts \ {h} :
           agent'[g] = agent[g] /\ call'[g] = call[g] /\ work'[g] = work[g],
         releases' = releases, current' = current, ~Switched(h), ~Switched(h)',
         NEW r \in Roots, InStep(r)
  PROVE  InStep(r)'
<1>1. RootHost[r] \in Hosts
  BY FleetAssumption
<1>2. Agrees(r) => Agrees(r)'
  BY AgreesKept
<1>3. CASE RootHost[r] = h
  BY <1>2, <1>3, InStepMoved
<1>4. CASE RootHost[r] # h
  BY <1>1, <1>2, <1>4, InStepKept
<1>. QED BY <1>3, <1>4

LEMMA UsersInStep ==
  ASSUME Inv, LedgerMoves, UserStep, NEW r \in Roots, InStep(r)
  PROVE  InStep(r)'
<1>1. releases' = releases /\ UNCHANGED <<agent, call, work, current>>
  BY DEF UserStep, Users, CreateDeployment, SetupApp, RollbackRelease, CancelDeployment,
     InsertJob, SetStatus, hostVars, deployVars
<1>. QED BY <1>1, AgreesKept, InStepKept, FleetAssumption

LEMMA LoopInStep ==
  ASSUME LedgerInv, NEW h \in Hosts,
         \/ Start(h) \/ Poll(h) \/ EndTick(h) \/ StartFailed(h) \/ GotReport(h)
         \/ \E j \in JobIds : Take(h, j),
         NEW r \in Roots, InStep(r)
  PROVE  InStep(r)'
<1>1. /\ UNCHANGED <<job, releases, work, current>>
      /\ \A g \in Hosts \ {h} : agent'[g] = agent[g] /\ call'[g] = call[g]
  BY DEF Start, Poll, EndTick, StartFailed, GotReport, Take, jobsVars, hostVars,
     Become, Answer, LedgerInv, Inv, DeploymentTypeOK
<1>2. /\ Pc(h) # "working" /\ call[h] # "complete"
      /\ Pc(h)' # "working" /\ call'[h] # "complete"
  BY DEF Start, Poll, EndTick, StartFailed, GotReport, Take, Become, Answer,
     LedgerInv, Inv, AgentInv, CallFits, Pc, DeploymentTypeOK
<1>. QED BY <1>1, <1>2, NothingMoves, OneMoves DEF Switched, LedgerInv

LEMMA GotStartInStep ==
  ASSUME LedgerInv, NEW h \in Hosts, GotStart(h), NEW r \in Roots, InStep(r)
  PROVE  InStep(r)'
<1> PICK j \in JobIds : j = agent[h].job
  BY GotStartIsHandOver DEF LedgerInv
<1>1. /\ UNCHANGED <<job, releases, current>>
      /\ \A g \in Hosts \ {h} :
           agent'[g] = agent[g] /\ call'[g] = call[g] /\ work'[g] = work[g]
      /\ work'[h].step # "ok" /\ call'[h] = "none"
      /\ Pc(h) = "starting" /\ call[h] = "ok"
  BY GotStartIsHandOver DEF GotStart, HandOver, Begin, Become, Answer, Accepted, FirstStep,
     jobsVars, LedgerInv, Inv, DeploymentTypeOK, HostInv, HostTypeOK
<1>. QED BY <1>1, NothingMoves, OneMoves DEF Switched, LedgerInv, At

(* The swap of a deploy puts its root out of step.                         *)
LEMMA WorkingInStep ==
  ASSUME LedgerInv, NEW h \in Hosts, Working(h), NEW r \in Roots, InStep(r)
  PROVE  InStep(r)'
<1>1. Pc(h) = "working" /\ HasJob(h) /\ AgentInv(h) /\ Execute(h)
  BY DEF Working, HasJob, LedgerInv, Inv
<1> PICK j \in JobIds : j = agent[h].job
  BY <1>1, Caller DEF Mine, LedgerInv
<1> PICK q \in Roots : q = RootFor(j)
  BY <1>1, Rooted, Caller DEF Mine, LedgerInv
<1>2. /\ WorkerKnows(h) /\ call[h] = "none"
      /\ work[h].job = j /\ work[h].root = q /\ RootHost[q] = h
  BY <1>1, Caller, Rooted
  DEF LedgerInv, Inv, AgentInv, ExecutionKnown, CallFits, Mine, HostOf, RootFor
<1>3. UNCHANGED <<job, releases, agent, call>>
  BY DEF Working, jobsVars, deployVars
<1> DEFINE w == work[h]
<1>4. ExecutorMoves(h)
  BY <1>1, ExecuteMoves DEF LedgerInv, Inv
<1> USE DEF ExecutorMoves
<1>5. ~Switched(h)
  BY <1>2, <1>4 DEF Switched, At, Done
<1>6. CASE RootHost[r] # h
  <2>1. RootHost[r] \in Hosts /\ r # q
    BY <1>2, <1>6, FleetAssumption
  <2>2. current'[r] = current[r]
    BY <1>2, <1>4, <2>1
  <2>3. Agrees(r) => Agrees(r)'
    BY <1>3, <2>2, AgreesKept DEF LedgerInv
  <2>. QED BY <1>3, <1>4, <1>6, <2>1, <2>2, <2>3, InStepKept, NothingMoves DEF LedgerInv
<1>7. CASE RootHost[r] = h
  <2>1. Agrees(r)
    BY <1>5, <1>7 DEF InStep
  <2>2. CASE Switched(h)' /\ RootFor(agent[h].job)' = r
    <3>1. work'[h].step = "ok" /\ job[j].action = "deploy" /\ r = q
      BY <1>2, <1>3, <2>2 DEF Switched, At, RootFor
    <3>2. w.step = "swap"
      BY <1>1, <1>2, <1>4, <3>1 DEF WorkerKnows
    <3>3. current'[r] = agent'[h].job
      BY <1>2, <1>3, <1>4, <3>1, <3>2
    <3>. QED BY <1>7, <2>2, <3>3 DEF InStep
  <2>3. CASE ~(Switched(h)' /\ RootFor(agent[h].job)' = r)
    <3>1. ~(r = q /\ w.step = "swap" /\ work'[h].step = "ok")
      BY <1>1, <1>2, <1>3, <1>4, <2>3 DEF Switched, At, RootFor, HasJob, Pc, WorkerKnows
    <3>2. Agrees(r)'
      BY <1>2, <1>3, <1>4, <2>1, <3>1, AgreesKept DEF LedgerInv
    <3>. QED BY <1>7, <2>3, <3>2 DEF InStep
  <2>. QED BY <2>2, <2>3
<1>. QED BY <1>6, <1>7

LEMMA ReportInStep ==
  ASSUME LedgerInv, NEW h \in Hosts, Report(h), NEW r \in Roots, InStep(r)
  PROVE  InStep(r)'
<1>1. Pc(h) = "working" /\ HasJob(h) /\ call[h] = "none"
  BY DEF Report, HasJob, LedgerInv, Inv, AgentInv, CallFits
<1>2. /\ UNCHANGED <<job, releases, current>>
      /\ \A g \in Hosts \ {h} :
           agent'[g] = agent[g] /\ call'[g] = call[g] /\ work'[g] = work[g]
      /\ call'[h] = "complete" <=> At(h, "ok")
  BY DEF Report, Leave, Become, Answer, Outcome, jobsVars, LedgerInv, Inv,
     DeploymentTypeOK, HostInv, HostTypeOK
<1>3. agent[h] \in [pc : {"starting", "working", "reporting"},
                    queue : SUBSET JobIds, job : JobIds]
  BY <1>1 DEF LedgerInv, Inv, DeploymentTypeOK, Agent, Pc
<1>4. agent'[h].pc = "reporting" /\ agent'[h].job = agent[h].job
  BY <1>3 DEF Report, Become, LedgerInv, Inv, DeploymentTypeOK
<1>5. Switched(h)' <=> Switched(h)
  BY <1>1, <1>2, <1>4 DEF Switched, HasJob, Pc
<1>6. Agrees(r) => Agrees(r)'
  BY <1>2, AgreesKept DEF LedgerInv
<1>7. CASE RootHost[r] = h
  BY <1>2, <1>4, <1>5, <1>6, <1>7 DEF InStep, RootFor
<1>8. CASE RootHost[r] # h
  BY <1>2, <1>6, <1>8, InStepKept, NothingMoves, FleetAssumption DEF LedgerInv
<1>. QED BY <1>7, <1>8

(* Recording the release puts the root in step again: the row is the       *)
(* newest, and current points to its job.                                  *)
LEMMA HandleInStep ==
  ASSUME LedgerInv, LedgerMoves, NEW h \in Hosts, Handle(h), NEW r \in Roots, InStep(r)
  PROVE  InStep(r)'
<1>1. /\ call[h] \in Ops /\ HasJob(h) /\ Mine(h, agent[h].job)
      /\ UNCHANGED <<work, current, agent>>
  BY Caller DEF Handle, hostVars, LedgerInv
<1> PICK j \in JobIds : j = agent[h].job
  BY <1>1 DEF Mine
<1> PICK q \in Roots : q = RootFor(j)
  BY <1>1, Rooted DEF Mine, LedgerInv
<1>2. Pc(h) # "working" /\ RootHost[q] = h
  BY <1>1, Rooted DEF LedgerInv, Inv, AgentInv, CallFits, Ops, Mine
<1>3. PICK after \in {"ok", "finish"} : Serve(call[h], j, after) /\ Answer(h, after)
  BY DEF Handle
<1>4. call'[h] = after /\ \A g \in Hosts \ {h} : call'[g] = call[g]
  BY <1>3 DEF Answer, LedgerInv, Inv, DeploymentTypeOK
<1>5. ~Switched(h)'
  BY <1>1, <1>2, <1>4 DEF Switched, Pc
<1>6. CASE call[h] = "complete" /\ job[j].action = "deploy"
  <2>1. InsertRelease(j)
    BY <1>3, <1>6 DEF Serve, RecordRelease
  <2>2. /\ job' = job
        /\ DOMAIN releases' = DOMAIN releases \cup {Len(releases) + 1}
        /\ \A n \in DOMAIN releases : n <= Len(releases) /\ releases'[n] = releases[n]
        /\ releases'[Len(releases) + 1].job = j
        /\ releases'[Len(releases) + 1].app = job[j].app
    BY <2>1, Recording DEF LedgerInv, Inv
  <2>3. Switched(h)
    BY <1>1, <1>6 DEF Switched
  <2>4. CASE r = q
    <3> DEFINE last == Len(releases) + 1
    <3>1. current[r] = j
      BY <1>2, <2>3, <2>4 DEF InStep
    <3>2. last \in RowsOf(r)'
      BY <2>2, <2>4 DEF RowsOf, RootFor
    <3>3. Len(releases) \in Nat /\ \A m \in RowsOf(r)' : m \in Nat /\ m <= last
      BY <2>2 DEF RowsOf, LedgerInv, Inv, JobsTypeOK
    <3>4. Agrees(r)'
      BY <1>1, <2>2, <3>1, <3>2, <3>3 DEF Agrees
    <3>. QED BY <1>2, <1>5, <2>4, <3>4 DEF InStep
  <2>5. CASE r # q
    <3>1. RowsOf(r)' = RowsOf(r) /\ \A n \in RowsOf(r) : releases'[n] = releases[n]
      BY <2>2, <2>5 DEF RowsOf, RootFor
    <3>2. Agrees(r) <=> Agrees(r)'
      BY <1>1, <3>1 DEF Agrees
    <3>3. CASE RootHost[r] = h
      BY <1>5, <2>5, <3>2, <3>3 DEF InStep
    <3>4. CASE RootHost[r] # h
      BY <1>1, <1>4, <3>2, <3>4, InStepKept, FleetAssumption DEF LedgerInv
    <3>. QED BY <3>3, <3>4
  <2>. QED BY <2>4, <2>5
<1>7. CASE ~(call[h] = "complete" /\ job[j].action = "deploy")
  <2>1. ~Switched(h)
    BY <1>2, <1>7 DEF Switched
  <2>2. releases' = releases
    BY <1>3, <1>7 DEF Serve, SetStatus, RecordRelease, jobsVars
  <2>. QED BY <1>1, <1>4, <1>5, <2>1, <2>2, OneMoves DEF LedgerInv
<1>. QED BY <1>6, <1>7

LEMMA AllInStepInit == Init => AllInStep
<1> SUFFICES ASSUME Init, NEW r \in Roots PROVE InStep(r)
  BY DEF Init, AllInStep
<1>1. RootHost[r] \in Hosts
  BY FleetAssumption
<1>2. ~Switched(RootHost[r])
  BY <1>1 DEF Init, Switched, HasJob, Pc
<1>3. DOMAIN releases = {}
  BY DEF Init, JobsInit
<1>4. Agrees(r)
  BY <1>3, HostAssumption DEF Init, HostInit, Agrees, RowsOf
<1>. QED BY <1>2, <1>4 DEF InStep

LEMMA AllInStepNext == LedgerInv /\ AllInStep /\ [Next]_vars => AllInStep'
<1> SUFFICES ASSUME LedgerInv, AllInStep, [Next]_vars PROVE AllInStep'
  OBVIOUS
<1>1. faults \in Nat
  BY DEF LedgerInv, Inv, DeploymentTypeOK
<1>2. CASE UNCHANGED vars
  <2>1. UNCHANGED <<job, releases, agent, call, work, current, late, faults>>
    BY <1>2 DEF vars, jobsVars, hostVars, deployVars
  <2>2. \A r \in Roots : InStep(r) => InStep(r)'
    BY <2>1, AgreesKept, InStepKept, NothingMoves, FleetAssumption DEF LedgerInv
  <2>. QED BY <2>1, <2>2 DEF AllInStep
<1>3. CASE \E h \in Hosts : CallFails(h) \/ GiveUp(h) \/ Crash(h)
  BY <1>1, <1>3 DEF CallFails, GiveUp, Crash, Fault, AllInStep
<1>4. CASE \E op \in Ops, j \in JobIds : HandleLate(op, j) \/ LoseLate(op, j)
  BY <1>4 DEF HandleLate, LoseLate, AllInStep
<1>5. CASE UserStep
  <2>1. LedgerMoves
    BY <1>5, NextMoves DEF LedgerInv, Next
  <2>2. UNCHANGED <<late, faults>>
    BY <1>5 DEF UserStep, deployVars
  <2>. QED BY <1>5, <2>1, <2>2, UsersInStep DEF AllInStep, LedgerInv
<1>6. ASSUME NEW h \in Hosts, Tick(h) PROVE AllInStep'
  <2>1. UNCHANGED <<late, faults>>
    BY <1>6 DEF Tick, Start, Poll, EndTick, Take, GotStart, StartFailed, Working, Report,
       GotReport, deployVars
  <2>2. \A r \in Roots : InStep(r) => InStep(r)'
    BY <1>6, LoopInStep, GotStartInStep, WorkingInStep, ReportInStep DEF Tick
  <2>. QED BY <2>1, <2>2 DEF AllInStep
<1>7. ASSUME NEW h \in Hosts, Handle(h) PROVE AllInStep'
  <2>1. LedgerMoves
    BY <1>7, NextMoves DEF LedgerInv, Next
  <2>2. UNCHANGED <<late, faults>>
    BY <1>7 DEF Handle
  <2>. QED BY <1>7, <2>1, <2>2, HandleInStep DEF AllInStep
<1>. QED BY <1>2, <1>3, <1>4, <1>5, <1>6, <1>7 DEF Next, Trouble

(* Without faults, an agent between two jobs leaves its roots as the       *)
(* ledger has them: the newest release of a root is live there, also when  *)
(* several apps share the root.                                            *)
THEOREM LedgerAgreesWithHosts == Spec => []LedgerAgrees
<1>1. Spec => []AllInStep
  BY AllInStepInit, AllInStepNext, LedgerInvariant, PTL DEF Spec
<1>2. LedgerInv /\ AllInStep => LedgerAgrees
  <2> SUFFICES ASSUME LedgerInv, AllInStep, NEW h \in Hosts, NEW r \in Roots,
                      faults = 0, RootHost[r] = h, Pc(h) \in {"idle", "next"}
               PROVE  Agrees(r)
    BY DEF LedgerAgrees, Agrees, RowsOf
  <2>1. ~Switched(h)
    BY DEF Switched, HasJob
  <2>. QED BY <2>1 DEF AllInStep, InStep
<1>. QED BY <1>1, <1>2, LedgerInvariant, PTL

=============================================================================
