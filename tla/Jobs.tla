-------------------------------- MODULE Jobs --------------------------------
(***************************************************************************)
(* The control plane's job ledger: the tables deployment_jobs and releases *)
(* (src/internal/store/sqlitestore) and the HTTP operations that write     *)
(* them (src/internal/api/server.go).                                      *)
(*                                                                         *)
(* Every operation below is one SQL statement.  The store opens SQLite     *)
(* with a single connection, so statements never overlap; a handler made   *)
(* of several statements is split where another handler can slip in        *)
(* between them (completing a job: InsertRelease, then the status).        *)
(*                                                                         *)
(* Rows of deployment_jobs and releases are never deleted.                 *)
(*                                                                         *)
(* Left out: log lines, audit events, approved_by, the three timestamps,   *)
(* ref, commit and checksum columns.  ORDER BY created_at is left out of   *)
(* ListPendingJobs: a row's created_at is read before its INSERT waits for *)
(* the connection, so rows need not appear in that order, and no property  *)
(* below depends on it; a listing is the SET of pending jobs.              *)
(***************************************************************************)
EXTENDS Naturals, Sequences, Fleet

CONSTANTS
  ClientActions, \* actions clients put in POST /api/deployments
  ClientStatuses \* statuses clients put in POST /api/deployments

\* Every action but the first two is one the agent's switch does not know.
Actions == {"setup_app", "deploy", "rollback"}

Statuses == {"queued", "signaled", "running", "success", "failed", "canceled"}

\* The statuses ListPendingJobs selects.
Pending == {"queued", "signaled"}

ASSUME JobsAssumption ==
  /\ ClientActions \subseteq Actions
  /\ ClientStatuses \subseteq Statuses

VARIABLES
  job,      \* job[j]: the row of job j, or NoRow
  releases  \* the rows of releases, oldest first

jobsVars == <<job, releases>>

\* release is the number of the release a rollback selects, 0 for none.
Row == [app : Apps, action : Actions, status : Statuses, release : Nat]

NoRow == [status |-> "none"]

Release == [app : Apps, job : JobIds, status : {"active"}, available : BOOLEAN]

JobsTypeOK ==
  /\ job \in [JobIds -> Row \cup {NoRow}]
  /\ releases \in Seq(Release)

JobsInit ==
  /\ job = [j \in JobIds |-> NoRow]
  /\ releases = << >>

Exists(j) == job[j] # NoRow

-----------------------------------------------------------------------------
(* The statements.                                                         *)

\* CreateDeploymentJob: INSERT of a row with a fresh identifier.
InsertJob(j, app, action, status, release) ==
  /\ ~Exists(j)
  /\ job' = [job EXCEPT ![j] = [app |-> app, action |-> action,
                                status |-> status, release |-> release]]
  /\ UNCHANGED releases

\* UpdateDeploymentJobStatus: WHERE id = ? is its only condition, so it
\* overwrites every status, final ones included.
SetStatus(j, status) ==
  /\ job' = [job EXCEPT ![j].status = status]
  /\ UNCHANGED releases

\* CreateRelease as handleAgentCompleteJob calls it; releases carries no
\* UNIQUE constraint on the job.
InsertRelease(j) ==
  /\ releases' = Append(releases, [app |-> job[j].app, job |-> j,
                                   status |-> "active", available |-> TRUE])
  /\ UNCHANGED job

\* Mutants of ListPending: canceled jobs are listed; nothing is listed while a
\* job runs.
ListCanceled(h) ==
  {j \in JobIds : job[j].status \in Pending \cup {"canceled"}
                  /\ HostOf(job[j].app) = h}

ListUnlessRunning(h) ==
  {j \in JobIds : /\ job[j].status \in Pending /\ HostOf(job[j].app) = h
                  /\ \A i \in JobIds : job[i].status # "running"}

\* ListPendingJobs.
ListPending(h) ==
  {j \in JobIds : job[j].status \in Pending /\ HostOf(job[j].app) = h}

-----------------------------------------------------------------------------
(* The users' operations.                                                  *)

\* handleCreateDeployment stores the action and the status of the request's
\* body, and fills in deploy and queued when they are empty; the dashboard's
\* form always asks for a queued deploy.
CreateDeployment(j, app, action, status) ==
  /\ action \in ClientActions \cup {"deploy"}
  /\ status \in ClientStatuses \cup {"queued"}
  /\ InsertJob(j, app, action, status, 0)

\* The job half of handleDashboardSetupApp, after it inserted the app.
SetupApp(j, app) == InsertJob(j, app, "setup_app", "queued", 0)

\* handleRollbackRelease for release number n.
RollbackRelease(j, n) ==
  /\ n \in DOMAIN releases
  /\ releases[n].available
  /\ InsertJob(j, releases[n].app, "rollback", "queued", n)

\* Mutant: the status is spelled differently from the schema's.
CancelMisspelt(j) ==
  /\ Exists(j)
  /\ SetStatus(j, "cancelled")

\* handleCancelDeployment looks neither at the status nor at who works on
\* the job.  (For an unknown job the UPDATE changes no row.)
CancelDeployment(j) ==
  /\ Exists(j)
  /\ SetStatus(j, "canceled")

Users ==
  \E j \in JobIds :
    \/ \E app \in Apps, action \in Actions, status \in Statuses :
         CreateDeployment(j, app, action, status)
    \/ \E app \in Apps : SetupApp(j, app)
    \/ \E n \in DOMAIN releases : RollbackRelease(j, n)
    \/ CancelDeployment(j)

=============================================================================
