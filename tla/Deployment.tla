----------------------------- MODULE Deployment -----------------------------
(***************************************************************************)
(* The deployment pipeline: users and the control plane's job ledger       *)
(* (Jobs), the agent of each host with its executor (Host), and the HTTP   *)
(* requests between them.                                                  *)
(*                                                                         *)
(* An agent polls, takes the listed jobs one by one, and for each job      *)
(* sends start, executes it, and sends complete or fail, waiting for every *)
(* response (src/cmd/cplane-agent/main.go, tick and handleJob).  It keeps  *)
(* nothing on disk about jobs and retries nothing.                         *)
(*                                                                         *)
(* A request can be refused, its response can be lost, and the agent's     *)
(* 30-second timeout or its death can leave a request behind that the      *)
(* server still serves later, or never.  Each of these is a fault; runs    *)
(* allow MaxFaults of them.                                                *)
(***************************************************************************)
EXTENDS Jobs, Host, FiniteSets

CONSTANT MaxFaults \* bound on the faults of a behaviour

ASSUME DeploymentAssumption == MaxFaults \in Nat

VARIABLES
  agent, \* agent[h]: where the agent of h is in its loop
  call,  \* call[h]: the request the agent of h waits for
  late,  \* late[op][j]: requests no agent waits for any more
  faults \* faults so far

deployVars == <<agent, call, late, faults>>
vars == <<jobsVars, hostVars, deployVars>>

\* complete takes two statements on the server: "finish" is a complete
\* whose release row is in and whose status update is still to come.
Ops == {"start", "complete", "finish", "fail"}

\* queue is the part of the listing that is still to be handled; job is
\* meaningful while starting, working and reporting.
Agent == [pc : {"down", "idle", "next"}, queue : SUBSET JobIds] \cup
         [pc : {"starting", "working", "reporting"}, queue : SUBSET JobIds,
          job : JobIds]

DeploymentTypeOK ==
  /\ agent \in [Hosts -> Agent]
  /\ call \in [Hosts -> Ops \cup {"none", "ok", "error"}]
  /\ late \in [Ops -> [JobIds -> Nat]]
  /\ faults \in Nat

TypeOK == JobsTypeOK /\ HostTypeOK /\ DeploymentTypeOK

Init ==
  /\ JobsInit
  /\ HostInit
  /\ agent = [h \in Hosts |-> [pc |-> "down", queue |-> {}]]
  /\ call = [h \in Hosts |-> "none"]
  /\ late = [op \in Ops |-> [j \in JobIds |-> 0]]
  /\ faults = 0

RootFor(j) == RootOf[job[j].app]

Pc(h) == agent[h].pc
Become(h, state) == agent' = [agent EXCEPT ![h] = state]
Answer(h, response) == call' = [call EXCEPT ![h] = response]

Fault ==
  /\ faults < MaxFaults
  /\ faults' = faults + 1

-----------------------------------------------------------------------------
(* The server's side of a request.                                         *)

\* Mutants of RecordRelease: a release for every action; an error of the
\* INSERT is not looked at.
ReleaseForAll(j) == InsertRelease(j)

ReleaseOrNot(j) == InsertRelease(j) \/ UNCHANGED jobsVars

\* The first half of handleAgentCompleteJob: the request names a release
\* when the executor deployed.
RecordRelease(j) ==
  IF job[j].action = "deploy" THEN InsertRelease(j) ELSE UNCHANGED jobsVars

\* Mutant: what failed is tried again.
StatusRequeued ==
  [start |-> "running", finish |-> "success", fail |-> "queued"]

\* The status a request sets.
StatusAfter ==
  [start |-> "running", finish |-> "success", fail |-> "failed"]

\* One statement of the server for a request; after is what has become of
\* the request.
Serve(op, j, after) ==
  \/ op = "complete" /\ RecordRelease(j) /\ after = "finish"
  \/ op # "complete" /\ SetStatus(j, StatusAfter[op]) /\ after = "ok"

\* A request its agent waits for.
Handle(h) ==
  /\ call[h] \in Ops
  /\ \E after \in {"ok", "finish"} :
       Serve(call[h], agent[h].job, after) /\ Answer(h, after)
  /\ UNCHANGED <<hostVars, agent, late, faults>>

\* A request its agent gave up on.
HandleLate(op, j) ==
  /\ late[op][j] > 0
  /\ \E after \in {"ok", "finish"} :
       /\ Serve(op, j, after)
       /\ late' = [o \in Ops |-> [i \in JobIds |->
                     late[o][i] - (IF o = op /\ i = j THEN 1 ELSE 0)
                                + (IF o = after /\ i = j THEN 1 ELSE 0)]]
  /\ UNCHANGED <<hostVars, agent, call, faults>>

-----------------------------------------------------------------------------
(* What goes wrong between them.                                           *)

\* The server answers with an error before the next statement (a store
\* error, a restart), or its answer is lost on the way.
CallFails(h) ==
  /\ call[h] \in Ops \cup {"ok"}
  /\ Fault
  /\ Answer(h, "error")
  /\ UNCHANGED <<jobsVars, hostVars, agent, late>>

Abandon(h) ==
  late' = IF call[h] \in Ops
          THEN [late EXCEPT ![call[h]][agent[h].job] = @ + 1]
          ELSE late

\* The client's timeout expires; the request is still under way.
GiveUp(h) ==
  /\ call[h] \in Ops
  /\ Fault
  /\ Abandon(h)
  /\ Answer(h, "error")
  /\ UNCHANGED <<jobsVars, hostVars, agent>>

\* An abandoned request is never served.
LoseLate(op, j) ==
  /\ late[op][j] > 0
  /\ late' = [late EXCEPT ![op][j] = @ - 1]
  /\ UNCHANGED <<jobsVars, hostVars, agent, call, faults>>

Crash(h) ==
  /\ Pc(h) # "down"
  /\ Fault
  /\ Become(h, [pc |-> "down", queue |-> {}])
  /\ Abandon(h)
  /\ Answer(h, "none")
  /\ Kill(h)
  /\ UNCHANGED jobsVars

-----------------------------------------------------------------------------
(* The agent's loop.                                                       *)

\* systemd starts the agent (Restart=always).
Start(h) ==
  /\ Pc(h) = "down"
  /\ Become(h, [pc |-> "idle", queue |-> {}])
  /\ UNCHANGED <<jobsVars, hostVars, call, late, faults>>

\* tick: the heartbeat and the listing.  When either fails, or nothing is
\* pending, the tick changes nothing here.
Poll(h) ==
  /\ Pc(h) = "idle"
  /\ ListPending(h) # {}
  /\ Become(h, [pc |-> "next", queue |-> ListPending(h)])
  /\ UNCHANGED <<jobsVars, hostVars, call, late, faults>>

\* handleJob, up to the start request.
Take(h, j) ==
  /\ Pc(h) = "next"
  /\ j \in agent[h].queue
  /\ Become(h, [pc |-> "starting", queue |-> agent[h].queue \ {j}, job |-> j])
  /\ Answer(h, "start")
  /\ UNCHANGED <<jobsVars, hostVars, late, faults>>

EndTick(h) ==
  /\ Pc(h) = "next"
  /\ agent[h].queue = {}
  /\ Become(h, [pc |-> "idle", queue |-> {}])
  /\ UNCHANGED <<jobsVars, hostVars, call, late, faults>>

\* Mutant: an error of the start request is ignored.
AcceptedOrNot(h) == call[h] \in {"ok", "error"}

Accepted(h) == call[h] = "ok"

GotStart(h) ==
  /\ Pc(h) = "starting"
  /\ Accepted(h)
  /\ LET j == agent[h].job
     IN Begin(h, j, RootFor(j), job[j].action)
  /\ Become(h, [agent[h] EXCEPT !.pc = "working"])
  /\ Answer(h, "none")
  /\ UNCHANGED <<jobsVars, late, faults>>

StartFailed(h) ==
  /\ Pc(h) = "starting"
  /\ call[h] = "error"
  /\ Become(h, [pc |-> "next", queue |-> agent[h].queue])
  /\ Answer(h, "none")
  /\ UNCHANGED <<jobsVars, hostVars, late, faults>>

Working(h) ==
  /\ Pc(h) = "working"
  /\ Execute(h)
  /\ UNCHANGED <<jobsVars, deployVars>>

\* Mutants of Outcome: the executor's error is ignored, or not reported.
OutcomeGood(h) == "complete"

OutcomeIfGood(h) == IF At(h, "ok") THEN "complete" ELSE "error"

\* The request handleJob ends with.
Outcome(h) == IF At(h, "ok") THEN "complete" ELSE "fail"

Report(h) ==
  /\ Pc(h) = "working"
  /\ Finished(h)
  /\ Leave(h)
  /\ Become(h, [agent[h] EXCEPT !.pc = "reporting"])
  /\ Answer(h, Outcome(h))
  /\ UNCHANGED <<jobsVars, late, faults>>

\* Mutant: a complete that got no answer is sent again.
GotReportRetry(h) ==
  /\ Pc(h) = "reporting"
  /\ \/ /\ call[h] = "ok"
        /\ Become(h, [pc |-> "next", queue |-> agent[h].queue])
        /\ Answer(h, "none")
     \/ call[h] = "error" /\ Answer(h, "complete") /\ UNCHANGED agent
  /\ UNCHANGED <<jobsVars, hostVars, late, faults>>

\* Whatever the answer, handleJob is over.
GotReport(h) ==
  /\ Pc(h) = "reporting"
  /\ call[h] \in {"ok", "error"}
  /\ Become(h, [pc |-> "next", queue |-> agent[h].queue])
  /\ Answer(h, "none")
  /\ UNCHANGED <<jobsVars, hostVars, late, faults>>

-----------------------------------------------------------------------------
UserStep == Users /\ UNCHANGED <<hostVars, deployVars>>

Tick(h) ==
  \/ Start(h) \/ Poll(h) \/ EndTick(h)
  \/ \E j \in JobIds : Take(h, j)
  \/ GotStart(h) \/ StartFailed(h)
  \/ Working(h) \/ Report(h) \/ GotReport(h)

Trouble ==
  \/ \E h \in Hosts : CallFails(h) \/ GiveUp(h) \/ Crash(h)
  \/ \E op \in Ops, j \in JobIds : HandleLate(op, j) \/ LoseLate(op, j)

Next ==
  \/ UserStep
  \/ \E h \in Hosts : Tick(h) \/ Handle(h)
  \/ Trouble

Spec == Init /\ [][Next]_vars

\* The agent's loop never stops by itself, systemd restarts a dead agent,
\* and a server that is up answers; git is assumed to end (the agent sets
\* no deadline on it).
Fairness ==
  \A h \in Hosts : WF_vars(Tick(h)) /\ WF_vars(Handle(h))

FairSpec == Spec /\ Fairness

-----------------------------------------------------------------------------
Ran(j) == execs[j] > 0

(* No job is executed twice, whatever crashes, is lost or arrives late: a  *)
(* job is executed only after the start request was answered, and from     *)
(* then on no listing shows it again.                                      *)
ExecutedAtMostOnce == \A j \in JobIds : execs[j] <= 1

(* A job that was acknowledged as started never becomes pending again, so  *)
(* no later listing hands it out once more.                                *)
NeverRequeued ==
  [][\A j \in JobIds :
       job[j].status \notin Pending \cup {"none"}
         => job'[j].status \notin Pending \cup {"none"}]_vars

(* Every release row names a directory that is in place on its host, so a  *)
(* rollback would find it.                                                 *)
ReleaseOnHost ==
  \A n \in DOMAIN releases :
    releases[n].job \in dirs[RootOf[releases[n].app]]

(* The ledger calls a deploy successful only when its release is recorded  *)
(* (the release row is inserted before the status is set), unless a client *)
(* posted the job as successful in the first place.                        *)
SuccessIsRecorded ==
  "success" \notin ClientStatuses =>
    \A j \in JobIds :
      (Exists(j) /\ job[j].status = "success" /\ job[j].action = "deploy")
        => \E n \in DOMAIN releases : releases[n].job = j

(* What is live is never called failed or pending: the deploy that current *)
(* points to is running, successful, or was canceled by a user meanwhile.  *)
LiveIsNotFailed ==
  \A r \in Roots, j \in JobIds :
    current[r] = j => job[j].status \in {"running", "success", "canceled"}

\* Someone other than the ledger still has j in hand.
InHand(j) ==
  \/ \E h \in Hosts :
       \/ j \in agent[h].queue
       \/ Pc(h) \in {"starting", "working", "reporting"} /\ agent[h].job = j
  \/ \E op \in Ops : late[op][j] > 0

(* A cancellation sticks when the agent has not been told of the job: it   *)
(* stays canceled and is never executed.  (A cancellation that comes after *)
(* the listing does not stop the job, see README.)                         *)
EarlyCancelSticks ==
  [][\A j \in JobIds :
       (job[j].status = "canceled" /\ ~InHand(j)) =>
         /\ job'[j].status = "canceled"
         /\ execs'[j] = execs[j]
         /\ ~InHand(j)']_vars

(* The ledger agrees with the hosts: as long as no fault happened, when an *)
(* agent is between two jobs the newest release recorded for a root is the *)
(* one current points to, also when several apps share the root.           *)
LedgerAgrees ==
  \A h \in Hosts, r \in Roots :
    (faults = 0 /\ RootHost[r] = h /\ Pc(h) \in {"idle", "next"}) =>
      LET rows == {n \in DOMAIN releases : RootOf[releases[n].app] = r}
      IN IF rows = {}
         THEN current[r] \notin JobIds
         ELSE \E n \in rows : /\ \A m \in rows : m <= n
                              /\ current[r] = releases[n].job

(* Work is not forgotten: with finitely many faults, a pending job is      *)
(* eventually started or canceled, as its agent polls for ever.            *)
PendingIsHandled ==
  \A j \in JobIds :
    (job[j].status \in Pending) ~> (job[j].status \notin Pending)

(* A started job ends: a running job that an agent, or a request on its    *)
(* way, has in hand is eventually recorded as successful or failed, or     *)
(* canceled, unless a fault happens. A job that a client posted as running *)
(* is in nobody's hands: the listing leaves it out, no agent executes it,  *)
(* and it runs in the ledger until a user cancels it.                      *)
StartedJobEnds ==
  \A j \in JobIds :
    (job[j].status = "running" /\ InHand(j))
      ~> (faults > 0 \/ job[j].status \in {"success", "failed", "canceled"})

(* PRD: on startup the agent reports the job its death interrupted, and    *)
(* the control plane decides about it.                                     *)
InterruptedJobIsReported ==
  \A j \in JobIds :
    (job[j].status = "running" /\ Ran(j) /\ ~InHand(j))
      ~> (job[j].status # "running")

(* PRD: the agent performs a rollback by switching current to the release  *)
(* that was selected.                                                      *)
RollbackSwitchesCurrent ==
  \A h \in Hosts :
    LET row == job[work[h].job]
    IN (Finished(h) /\ row.action = "rollback" /\ row.release > 0) =>
         current[work[h].root] = releases[row.release].job

\* The pipeline's state, seen as a Rollout.
Promise ==
  INSTANCE Rollout WITH
    Jobs <- JobIds,
    runs <- execs,
    built <- [r \in Roots |-> dirs[r] \cap JobIds],
    live <- [r \in Roots |-> {current[r]} \cap JobIds],
    log <- [j \in JobIds |->
              Cardinality({n \in DOMAIN releases : releases[n].job = j})]

(* The pipeline keeps the promise of Rollout: every step of it, faults and *)
(* users included, is one of Rollout's steps or changes none of what       *)
(* Rollout tells apart.                                                    *)
ImplementsRollout == Promise!RolloutSpec

=============================================================================
