-------------------------------- MODULE Queue --------------------------------
(***************************************************************************)
(* The order and the times of one host's jobs.  A row carries created_at,  *)
(* started_at and finished_at; each is a clock reading the server takes    *)
(* when it handles a request, before the statement waits for the           *)
(* database's one connection (src/internal/store/sqlitestore/sqlite.go),   *)
(* so statements are executed in another order than they are dated.  The   *)
(* agent executes a listing in the order of created_at and goes on when a  *)
(* request fails (handleJob).  What the executor does is left out; see     *)
(* Host and Deployment.                                                    *)
(***************************************************************************)
EXTENDS Integers, Sequences, FiniteSets

CONSTANTS
  Jobs,     \* identifiers of jobs
  Users,    \* requests of users that are under way at the same time
  Posts,    \* what clients put in status, started_at and finished_at of
            \* POST /api/deployments
  MaxTime,  \* bound on the clock
  MaxFaults \* bound on failed requests and deaths of the agent

VARIABLES
  job,     \* job[j]: the row
  user,    \* user[u]: the statement a user's request waits with
  agent,   \* the agent's listing, the job in hand and its open request
  late,    \* requests the agent gave up on
  now,     \* the clock
  faults,  \* failed requests and deaths so far
  after,   \* after[j]: the jobs whose requests were over before (history)
  order,   \* the jobs in the order they were executed (history)
  skipped, \* the jobs with a failed start request (history)
  overdue  \* the jobs with a start request that the server took up only
           \* after the agent gave up on it (history)

vars == <<job, user, agent, late, now, faults, after, order, skipped, overdue>>

Never == -1
Time == Nat \cup {Never}
Statuses == {"queued", "signaled", "running", "success", "failed", "canceled"}
Finished == {"success", "failed", "canceled"}

ASSUME QueueAssumption ==
  /\ MaxTime \in Nat /\ MaxFaults \in Nat
  /\ Posts \subseteq [status : Statuses, started : Time, finished : Time]

NoRow == [status |-> "none", created |-> Never, started |-> Never, finished |-> Never]
NewRow == [status : Statuses, created : Nat, started : Time, finished : Time]
Row == NewRow \cup {NoRow}

\* stamp is Never as long as the server has not taken the request up.
Idle == [step |-> "none"]
Update == [job : Jobs, status : {"running"} \cup Finished, stamp : Time]

TypeOK ==
  /\ job \in [Jobs -> Row]
  /\ user \in [Users -> {Idle} \cup [step : {"create"}, job : Jobs, row : NewRow]
                                \cup [step : {"cancel"}, update : Update]]
  /\ agent \in [rest : Seq(Jobs), call : {Idle} \cup [step : {"start", "report"}, update : Update]
                                                \cup [step : {"execute"}, job : Jobs]]
  /\ late \subseteq [no : Nat, update : Update]
  /\ now \in Nat /\ faults \in Nat
  /\ after \in [Jobs -> SUBSET Jobs]
  /\ order \in Seq(Jobs) /\ skipped \subseteq Jobs /\ overdue \subseteq Jobs

Init ==
  /\ job = [j \in Jobs |-> NoRow]
  /\ user = [u \in Users |-> Idle]
  /\ agent = [rest |-> <<>>, call |-> Idle]
  /\ late = {} /\ now = 0 /\ faults = 0
  /\ after = [j \in Jobs |-> {}]
  /\ order = <<>> /\ skipped = {} /\ overdue = {}

Exists(j) == job[j].status # "none"

-----------------------------------------------------------------------------
(* The statements.                                                         *)

\* Mutant: COALESCE(started_at, ?) and COALESCE(finished_at, ?).
DatedOnce(row, status, stamp) ==
  [row EXCEPT
    !.status = status,
    !.started = IF status = "running" /\ @ = Never THEN stamp ELSE @,
    !.finished = IF status \in Finished /\ @ = Never THEN stamp ELSE @]

\* COALESCE(?, started_at) and COALESCE(?, finished_at).
Dated(row, status, stamp) ==
  [row EXCEPT
    !.status = status,
    !.started = IF status = "running" THEN stamp ELSE @,
    !.finished = IF status \in Finished THEN stamp ELSE @]

Execute(u) == job' = [job EXCEPT ![u.job] = Dated(@, u.status, u.stamp)]

\* The statuses ListPendingJobs selects.
Waiting == {"queued", "signaled"}

Pending == {j \in Jobs : job[j].status \in Waiting}

\* Mutant: no ORDER BY.
AnyListing(s) == TRUE

\* ORDER BY created_at ASC; rows of one instant come in any order.
Ordered(s) == \A i, k \in DOMAIN s : i < k => job[s[i]].created <= job[s[k]].created

Listings ==
  {s \in [1 .. Cardinality(Pending) -> Pending] :
     Pending = {s[i] : i \in DOMAIN s} /\ Ordered(s)}

-----------------------------------------------------------------------------
(* Users.                                                                  *)

\* A request that arrives after the answer to another one, and at another
\* instant than the other arrived at.  The status and the times of the body are
\* stored as they are (an empty status as "queued").
BeginCreate(u, j) ==
  /\ user[u] = Idle /\ ~Exists(j)
  /\ \A v \in Users : user[v].step = "create" => user[v].job # j
  /\ \E p \in Posts :
       user' = [user EXCEPT ![u] =
         [step |-> "create", job |-> j, row |-> [status |-> p.status, created |-> now,
                                                 started |-> p.started, finished |-> p.finished]]]
  /\ after' = [after EXCEPT ![j] = {i \in Jobs : Exists(i) /\ job[i].created < now}]
  /\ UNCHANGED <<job, agent, late, now, faults, order, skipped, overdue>>

CreateDeploymentJob(u) ==
  /\ user[u].step = "create"
  /\ job' = [job EXCEPT ![user[u].job] = user[u].row]
  /\ user' = [user EXCEPT ![u] = Idle]
  /\ UNCHANGED <<agent, late, now, faults, after, order, skipped, overdue>>

BeginCancel(u, j) ==
  /\ user[u] = Idle /\ Exists(j)
  /\ user' = [user EXCEPT ![u] =
       [step |-> "cancel", update |-> [job |-> j, status |-> "canceled", stamp |-> now]]]
  /\ UNCHANGED <<job, agent, late, now, faults, after, order, skipped, overdue>>

CancelDeploymentJob(u) ==
  /\ user[u].step = "cancel" /\ Execute(user[u].update)
  /\ user' = [user EXCEPT ![u] = Idle]
  /\ UNCHANGED <<agent, late, now, faults, after, order, skipped, overdue>>

-----------------------------------------------------------------------------
(* The agent.                                                              *)

\* A request on its way to the server.
Call(step, j, status) ==
  [step |-> step, update |-> [job |-> j, status |-> status, stamp |-> Never]]
Calling(call) == agent' = [agent EXCEPT !.call = call]
Asks == agent.call.step \in {"start", "report"}

PendingJobs ==
  /\ agent = [rest |-> <<>>, call |-> Idle]
  /\ \E s \in Listings : agent' = [agent EXCEPT !.rest = s]
  /\ UNCHANGED <<job, user, late, now, faults, after, order, skipped, overdue>>

Start ==
  /\ agent.call = Idle /\ agent.rest # <<>>
  /\ agent' = [rest |-> Tail(agent.rest), call |-> Call("start", Head(agent.rest), "running")]
  /\ UNCHANGED <<job, user, late, now, faults, after, order, skipped, overdue>>

\* The server takes the request up: it reads the clock, and the statement waits.
BeginUpdate ==
  /\ Asks /\ agent.call.update.stamp = Never
  /\ Calling([agent.call EXCEPT !.update.stamp = now])
  /\ UNCHANGED <<job, user, late, now, faults, after, order, skipped, overdue>>

\* The statement of a request that was taken up.
Served == Asks /\ agent.call.update.stamp # Never /\ Execute(agent.call.update)

Started ==
  /\ agent.call.step = "start" /\ Served
  /\ Calling([step |-> "execute", job |-> agent.call.update.job])
  /\ order' = Append(order, agent.call.update.job)
  /\ UNCHANGED <<user, late, now, faults, after, skipped, overdue>>

Report ==
  /\ agent.call.step = "execute"
  /\ \E status \in {"success", "failed"} :
       Calling(Call("report", agent.call.job, status))
  /\ UNCHANGED <<job, user, late, now, faults, after, order, skipped, overdue>>

Reported ==
  /\ agent.call.step = "report" /\ Served
  /\ Calling(Idle)
  /\ UNCHANGED <<user, late, now, faults, after, order, skipped, overdue>>

Fault == faults < MaxFaults /\ faults' = faults + 1

\* The request stays under way, before or after the server took it up.
LeftBehind == late' = late \cup {[no |-> faults, update |-> agent.call.update]}

\* The request is refused, its answer is lost, or the agent gives up on it;
\* the agent goes on with the listing.
CallFails ==
  /\ Asks /\ Fault
  /\ Calling(Idle)
  /\ \/ UNCHANGED <<job, late>>
     \/ Served /\ UNCHANGED late
     \/ LeftBehind /\ UNCHANGED job
  /\ skipped' = skipped \cup (IF agent.call.step = "start" THEN {agent.call.update.job} ELSE {})
  /\ UNCHANGED <<user, now, after, order, overdue>>

\* The server takes up a request the agent gave up on: it is dated now.
BeginLate(l) ==
  /\ l \in late /\ l.update.stamp = Never
  /\ late' = (late \ {l}) \cup {[l EXCEPT !.update.stamp = now]}
  /\ overdue' = overdue \cup (IF l.update.status = "running" THEN {l.update.job} ELSE {})
  /\ UNCHANGED <<job, user, agent, now, faults, after, order, skipped>>

Late(l) ==
  /\ l \in late /\ l.update.stamp # Never
  /\ late' = late \ {l}
  /\ Execute(l.update)
  /\ UNCHANGED <<user, agent, now, faults, after, order, skipped, overdue>>

Die ==
  /\ Fault /\ agent # [rest |-> <<>>, call |-> Idle]
  /\ agent' = [rest |-> <<>>, call |-> Idle]
  /\ IF Asks THEN LeftBehind ELSE UNCHANGED late
  /\ UNCHANGED <<job, user, now, after, order, skipped, overdue>>

Tick ==
  /\ now < MaxTime /\ now' = now + 1
  /\ UNCHANGED <<job, user, agent, late, faults, after, order, skipped, overdue>>

UserStep(u) ==
  \/ \E j \in Jobs : BeginCreate(u, j) \/ BeginCancel(u, j)
  \/ CreateDeploymentJob(u)
  \/ CancelDeploymentJob(u)

Next ==
  \/ \E u \in Users : UserStep(u)
  \/ PendingJobs \/ Start \/ BeginUpdate \/ Started \/ Report \/ Reported
  \/ CallFails \/ Die \/ Tick
  \/ \E l \in late : BeginLate(l) \/ Late(l)

Spec == Init /\ [][Next]_vars

-----------------------------------------------------------------------------
(* Properties.                                                             *)

Executed == {order[i] : i \in DOMAIN order}

\* First come, first served: of two jobs, one requested after the other was
\* answered, the earlier one is executed first, whatever concurrent requests,
\* cancellations and restarts of the agent there are, unless a start request
\* of the earlier one failed.  So what is live is what was asked for last.
InOrder ==
  \A i, k \in DOMAIN order :
    i < k /\ order[k] \in after[order[i]] => order[k] \in skipped

\* A job that was executed and ended was created, started and finished in this
\* order by its row, whatever times its client posted and whatever cancellations
\* and late requests with older times were written in between.  One start request
\* can break this, and the code does not keep it from it: one that the server
\* takes up after the agent gave up on it is dated then, perhaps after the report
\* of a later start.  A row posted as ended was not executed.
TimesInOrder ==
  \A j \in Executed \ overdue :
    job[j].status \in {"success", "failed"} =>
      /\ job[j].started # Never /\ job[j].created <= job[j].started
      /\ job[j].started <= job[j].finished

=============================================================================
