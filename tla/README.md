# C-Plane: a verification development

C-Plane deploys static sites and small services: a control plane (HTTP API, dashboard, SQLite
store) keeps a ledger of jobs, and an agent on every host polls for its jobs and executes them.
This directory models that code in TLA+, checks the models with TLC and proves theorems about
them with TLAPS. Line numbers are those of the repository at this commit; `main.go` is
`src/cmd/cplane-agent/main.go`, `server.go` and `sqlite.go` are under `src/internal/`.

## 1. Inventory

| Component | Code | State | Operations | Interacts with |
|---|---|---|---|---|
| Job ledger | `server.go` 217-343, 1389-1521, 1576-1651; `sqlite.go` 287-390 | rows of `deployment_jobs`, `releases` | create deploy / setup_app / rollback job, approve, cancel, list pending, start, complete, fail | users and agents over HTTP |
| Agent loop | `main.go` 139-252, 512-553 | in memory only: the ticker, the listing being worked off, the current job, the open request | heartbeat, poll, start, execute, complete or fail | ledger over HTTP (30 s timeout, no retries), executor |
| Executor | `main.go` 254-420 | `releases/<key>`, `releases/.tmp-<key>`, `current`, `current.next` of each app root | setup_app, deploy | git, the file system; the web server follows `current` |
| Recipe and nginx site | `main.go` 283-330, 385-392, 455-503 | `index.html`, `deploy.yaml`, sites-available and -enabled | written by setup_app, tested and reloaded | nginx |
| Host registry, presence | `server.go` 115-135, 1187-1308, 1554-1574; `sqlite.go` 58-163, 506-515 | `hosts` rows, `last_seen_at` | create, list, delete, heartbeat, mark stale offline | agents, apps (foreign keys) |
| Repositories, apps | `server.go` 137-215, 1310-1387; `sqlite.go` 165-285 | `repos`, `apps` rows | create, list, delete repository | hosts, jobs (foreign keys) |
| Registration | `server.go` 1523-1552; `sqlite.go` 135-156; `main.go` 95-137, 614-627; `scripts/install-agent.sh` 140-190 | `agent_token_hash`, the token file, the agent's service | register by hand and from the installer, uninstall | registry, installer |
| Audit trail | `server.go` 1685-1699; `sqlite.go` 398-448; `cmd/cplane/main.go` 30-56 | `audit_events` rows, the requests under way at a shutdown | record, prune heartbeats to five, list | every handler |
| Names and times | `main.go` 422-453; `sqlite.go` 353, 502 | none | release keys, order of times as texts | executor, ledger |
| Agent configuration | `main.go` 555-611 | none | load | installer, admin |
| Dashboard pages, installers' downloads, MQTT | `server.go` 345-1185; `scripts/`; PRD only | none | output, set-up | - |

What is hard here:

* **Agents and the ledger share no transaction.** A job is listed, started, executed and reported by
  separate requests; each can be refused, answered into the void, or served long after the agent
  gave up on it. The server checks no status before it writes one (`sqlite.go` 331).
* **The agent forgets.** It keeps no journal; a death between two steps leaves whatever the
  file system and the ledger happened to contain.
* **Users do not wait.** Cancel is an unconditional UPDATE; any action and any status can be posted.
* **Apps may share a root**, and domains; a host executes one job at a time, and sends no heartbeat
  meanwhile.
* **The clock is read before the statement waits** for the one connection: rows are dated, and hosts
  taken for silent, in another order than the statements are executed.
* **A change and its audit event are two statements**, with the context of a client that may leave.
* **A token is replaced on the server before it is replaced in the file.**

Correctness, per component. *Ledger*: a started job is never handed out again; a job has at most one
release; successful means recorded; jobs are executed in the order they were asked for. *Agent and
protocol*: at most one execution per job; an early cancellation sticks; pending jobs are handled;
what is live is not called failed. *Executor*: the live site always resolves and stays published; a
failed deploy is not live; nothing half built. *Site*: a setup that ends well is served, and a served
site stays served. *Registry*: no host with apps disappears; offline only when silent, but
for the time a request waits; a host whose idle agent keeps to time is online. *Registration*: a token works once; a host is cut off only with
a reason. *Audit*: events tell what happened, gaps have a reason, the heartbeat rows stay bounded.
*Names*: a release has a directory of its own. *Configuration*: the last line of the right section
decides.

## 2. Modules

| Module | Models |
|---|---|
| `Fleet` | the constants: hosts, roots, apps and where they live (`apps` rows are never updated or deleted) |
| `Jobs` | the job ledger: one operator per SQL statement, one action per user operation |
| `Host` | the executor of each host: one action per step of `handleDeploy`, `replaceSymlink`, `handleSetupApp`, `ensureSymlink`, failures and death at each; has its own specification `HostSpec` |
| `Deployment` | the composition: `Jobs`, `Host`, the agents' loop, requests in flight, faults; the mapping of its variables to those of `Rollout` (`Promise`) |
| `Rollout` | the abstract promise of the pipeline: jobs run once, what is live is in place, each release recorded once and never made live after that |
| `SetupApp` | `handleSetupApp` one file operation at a time, with the recipe, the initial page and the nginx sites, what nginx serves, and reboots; shown to implement `HostSpec` |
| `Queue` | the order of one host's jobs and their three time columns, with the clock readings statements carry |
| `Registry` | hosts, repositories and apps: presence, registration, deletions, one action per SQL statement (a transaction is one), with the clock reading each handler takes before it |
| `Presence` | the agents' ticker and loop in time, over `Registry`; shown to implement it |
| `Registration` | the token file, the installer, `register` by hand, lost, late and refused requests, the uninstaller |
| `AuditTrail` | the life of a request: statements, event, answer, the client that leaves, the server's shutdown, death and restart |
| `HeartbeatAudit` | the audit rows of one host's heartbeats: insert and prune |
| `Names` | pure functions: `safePathToken`, `shortID`, the release key, the text of a time |
| `AgentConfig` | pure function: `LoadConfig` over files of a few lines |
| `MCDeployment`, `MCSetupApp`, `MCPresence`, `MCQueue`, `MCRegistration`, `MCAuditTrail`, `MCTexts` | instances for TLC |
| `HostProofs`, `DeploymentProofs`, `SetupAppProofs`, `RegistryProofs` (with `Presence`), `AgentProofs` (`Registration`, `Names`, `AgentConfig`), `QueueProofs`, `AuditTrailProofs`, `HeartbeatAuditProofs` | theorems and proofs |

`Deployment` and `Registry` are separate specifications: jobs take their app and host as given
(`Fleet`), which `ReferencesHold` justifies: what an app refers to is not deleted, not even under a
busy agent (`BusyIsKept`). `SetupApp` and `Deployment` both contain the executor of `Host`, the one
in detail, the other composed; each is shown to implement `HostSpec`.

Operators whose comment begins with "Mutant" are not part of any specification: each is a
plausible bug, kept to show that the property it is paired with would notice it.

### State and code

*Pipeline.* `job[j]` is row j of `deployment_jobs` (app, action, status, and the release a rollback
names); `releases` the rows of that table in insertion order. The action `rollback` stands for every
action the agent's switch does not know. SQLite is opened with one connection (`sqlite.go` 24-37), so
a statement is atomic; `handleAgentCompleteJob` is two statements and therefore two steps
(`complete`, then `finish`). `agent[h]` is the position of the goroutine in `tick`/`handleJob`, with
the rest of the listing. `call[h]` is the request it waits for and, after the server's last
statement, the answer. `late` counts the requests nobody waits for any more; the server may serve
each of them at any later time, or never. `work[h]`, `dirs`, `temps`, `current`, `next` are the
executor and its files. `execs[j]` is a history variable: how often an agent began to execute j.

*SetupApp.* `task[h].op` is the next file operation of `handleSetupApp`. `os.WriteFile` is two
operations, create and fill, with a failure or a death in between; a file is `none`, `empty`, `part`
or `whole`. nginx is external: `test` accepts when all enabled sites are whole and of good domains,
`reload` takes them over, a boot leaves nginx down when they are rejected. `spoilt[h]` is a history
variable: a setup failed or died on h.

*Queue.* A row carries `created_at`, `started_at`, `finished_at`. A client posts a job with a status and
times of its own, which are stored as they are (`Posts`; `sqlite.go` 287-304). The agent's request is
dated when the server takes it up (`BeginUpdate`, `BeginLate`; `sqlite.go` 322) and then waits for the
connection with that stamp. The agent's listing is ordered by `created_at`. `overdue` (history) holds the
jobs with a start request that was taken up only after the agent had given up on it. `after[j]` (history) holds the jobs
whose requests were answered before j's was sent: the order that users can tell.

*Registry and Presence.* `hosts[h]` is the row of h; status `unused` means not created yet and
`deleted` that the row is gone (identifiers are random, so it does not come back). `request[r]` is
the next statement of a handler with the arguments it carries and `stamp`, the clock it read before it
waited for the connection (`nowUTC()` is evaluated before `ExecContext`). `token` numbers the tokens
of a host, 0 being the install token; `installed` and `contact` are history
variables: how often the install token was accepted, and when something from the agent of h was last
written, which is not the column `last_seen_at`: that holds when the request arrived. `Leave` is a client that goes
away, an error or the death of the server: the waiting statement is not executed. An agent waits at
most `MaxWait` (30 s, `main.go` 181-188) and then closes the connection, which ends the context of its
statement; so time does not pass while an agent's request is older than that. Any other request waits at most
`MaxAge`, a bound of the run that no theorem depends on. Foreign keys are taken to be enforced
(`schema.go` 4, one connection). `Deletable` leaves out
the foreign key from `deployment_jobs` to hosts: a job's host is its app's, so the count of apps
covers it. In `Presence`, `agent[h].due` is when the ticker of `runAgent` fires next (a missed tick
fires at once, further ones are dropped) and `mode` where the goroutine is; a job may take for ever. A heartbeat is sent, arrives at the server
(and is dated), is written and is answered, in steps of their own. `steady` (history) are the hosts whose
agent is idle and has kept to time since a heartbeat was written: the ticker was heeded when it fired, no
request took longer than `Quick`, at most `MaxLost` heartbeats in a row failed, and nobody else wrote an
older time of the host.

*Registration.* `current` numbers the token whose hash the server keeps, `file` is what the token
file holds, `proc[p]` a process between two of its steps: the shell's redirection and `writeSecret`
both truncate before they write. An installer may be told to skip `register` (`--skip-register`, read at
`install-agent.sh` 181); it then plants the install token and starts the service all the same, which
`runs.skipped` records. `late` are tokens in requests nobody waits for. `accepted` is a
history variable.

*AuditTrail.* `request[r].done` counts the statements the handler of r has executed; `trail` the
events. `server` is up, draining after a signal (at most ten seconds), or down. The handlers of
repositories and apps have the shape of those of hosts.

*Names, AgentConfig.* The inputs are grown one character, or one line, at a time, so that the
invariants quantify over all of them up to the bound; the specifications are compared with reference
definitions (`TokenIsJoined`: the maximal runs of kept characters joined by hyphens, cut at `TokenLen`; the cut
comes last and may leave a hyphen at the end, so that two hyphens can meet in a key). The two share no
state; `MCTexts` puts them side by side, so that a behaviour types refs or writes a file.

Abstractions, and why they are sound for these properties:

* A listing is a set in `Deployment`: no property there depends on the order in which it is worked
  off. The order, and what it promises, is the subject of `Queue`.
* The job names its release directory: a release key ends in the job's identifier (`KeysDiffer`), and
  a job is executed at most once, which is proved.
* Validation of the metadata, the recipe and nginx are failures of the executor's first or last step
  in `Host`; `SetupApp` takes them apart.
* The error of `os.RemoveAll` is ignored by the code; the model takes removal as successful.
* Several agents on one host (a manual `run -once` beside the service) are not modelled.
* Logs, `approved_by`, actors, addresses and metadata of events are left out.

## 3. Runs

| Run | Instance | Shows |
|---|---|---|
| `pipeline` | `MCDeployment`: 1 host, 2 apps on one root, 2 jobs with every action and every status a client may post but `success`, 2 faults | `TypeOK`, `ExecutedAtMostOnce`, `ReleaseOnHost`, `SuccessIsRecorded`, `LiveIsNotFailed`, `LedgerAgrees`, `NeverRequeued`, `EarlyCancelSticks`, `ImplementsRollout` (refinement) |
| `handled` | `MCDeployment`, fair: 1 app, 2 jobs with every status a client may post, 1 fault | `PendingIsHandled`, `StartedJobEnds` |
| `setup` | `MCSetupApp`: 1 host, 2 roots, 2 domains (nginx rejects one), 3 jobs of any kind, failure and death at every file operation, reboots | `LinksResolve`, `FailureNotLive`, `NoHalfBuiltRelease`, `SiteKept`, `SuccessIsServed`, `ServedStays`, `HostSpec` (refinement) |
| `presence` | `MCPresence`: 1 host, 1 repository, 1 app, 2 concurrent requests; in units of 15 s: hosts stale after 4, agents wait 2, ticker 1, 2 heartbeats lost in a row, other requests wait 1, clock to 5 | `PTypeOK`, `ReferencesHold`, `OfflineIsSilent`, `OnlineIsRecent`, `InstallTokenOnce`, `IdleIsOnline`, `BusyIsKept` |
| `registration` | `MCRegistration`: 3 processes at a time, 2 runs of the installer, each with `--skip-register` or without, and 2 by hand, 2 faults, fair | `AnsweredIsCurrent`, `StrandedWithReason`, `InstallationSucceeds` |
| `trail` | `MCAuditTrail`: 2 requests of any kind, 1 host, 1 job, 1 error, 1 signal, 1 death, clock to 1, fair | `EventsHappened`, `GapsHaveReason`, `CauseBeforeEffect`, `StopEnds` |
| `heartbeats` | `HeartbeatAudit`: 3 concurrent heartbeats, 5 rows, 2 kept, clock to 2, one request lost | `NewestKept`, `Bounded` |
| `queue` | `MCQueue`: 2 jobs, posted as signaled with a time of finishing or as ended with times in the wrong order, 2 users, clock to 2, 1 fault | `InOrder`, `TimesInOrder` |
| `texts` | `MCTexts`: refs of up to 4 and 1 characters, tokens cut at 3, 1 character of an identifier, times of 3 places in base 3, files of up to 3 lines | `TokenIsJoined`, `KeysDiffer`, `TextInOrder`, `LastLineDecides` |
| `interrupted`, `rollback`, `prepared` | `MCDeployment` (two), `MCSetupApp` | disagreements, see below |

**Bounds.** `JobIds` bounds the jobs, `MaxFaults` the faults (a refused or lost answer, an expired
timeout, a death). Two jobs are enough for every conflict `pipeline` speaks of: a job and a second
execution of itself, or two jobs for one root; `setup` has three, so that a site is set up, taken
over and set up again. Two faults allow a late request together with a second failure or a
death: the shortest histories in which a start request overtakes a completed job, or a retried
completion would be recorded twice, need one. Identifiers are interchangeable, so the runs that
check safety alone use symmetry. In `presence` two requests are the actor of a conflict and the one
it conflicts with, next to the agent's own heartbeat; time is counted in poll
intervals, so that the constants are the code's own (60 s, 30 s and 15 s), and `MaxTime` is one unit past
the stale limit: a host has the time to be seen, to go stale and to be deleted, and an agent to lose
heartbeats, to be slow, and to be busy beyond the limit. At this grain a request that is prompt ends in the
unit it began in (`Quick` is 0); that up to 7 s are prompt, and a clock without a bound, is the
theorem's. `MaxAge`, how long any request but an agent's waits, is 1. In `registration` three processes let a third run overlap two that already do. In `heartbeats`
the five rows are more than twice the number kept, and clock readings can be equal, so that the
random identifiers decide. `texts` scales the constants 40 (a token), 8 (an identifier) and 6 (a
fraction of a second) down so that tokens are cut and fractions end in zeros. No theorem below
depends on any bound.

**Fairness.** `handled`: weak fairness of each agent (`Tick`) and of the server's answer to a waiting
agent (`Handle`). The loop in `runAgent` has no exit but a signal, systemd restarts the agent
(`Restart=always`), and a running server answers. One assumption is *not* backed by the code: that git
ends. `exec.CommandContext` gets a context without a deadline (`main.go` 344), so a clone that hangs
stops the host's jobs for good. `registration`: a process that was started goes on (`Run`), since it
is sequential code whose request ends with the client's timeout at the latest. `trail`: a draining
server without requests closes, and `Shutdown` expires after ten seconds (`cmd/cplane/main.go` 43-52);
nothing is assumed of clients. Late requests get no fairness.

**Deadlock** is checked in `pipeline`, `handled`, `heartbeats` and `presence`. The other models end by themselves, once
every job has run, every process has ended or every input was tried.

**Disagreements with the documents** (runs that TLC is expected to refute):

* `interrupted`: PRD line 874, "On startup, agent reports interrupted job." The agent keeps no record;
  the job stays `running` for ever.
* `rollback`: PRD line 313, the agent performs a rollback "by switching the `current` symlink". The agent
  rejects the action and the job fails.
* `prepared`: PRD line 262, the agent prepares the recipe placeholder. `writeIfMissing` creates the file
  before it fills it; after a death in between, every later setup finds an empty recipe, leaves it and
  reports success.

Other disagreements have no run of their own; the models contain them, and a property that holds says
how far they go:

* PRD line 863, "Keep failed release directory": the deferred `RemoveAll` (`main.go` 340) deletes it,
  which is `NoHalfBuiltRelease`.
* PRD line 377, "After successful registration, the agent stores only the runtime agent token": a second
  run of `install-agent.sh` overwrites it by the install token (line 152), which is spent.
  `StrandedWithReason` says that only this, a fault or the uninstaller cuts a host off.
* PRD line 798, the audit log must record deploys, registrations and failed auth: failed
  authentication records nothing (`server.go` 1541), and `recordAudit` ignores its error (1689).
  `GapsHaveReason` lists the reasons for which a change is not in the trail.
* PRD line 805 speaks of periodic heartbeats; a busy agent sends none (`main.go` 198). `IdleIsOnline` and
  `BusyIsKept` say what holds nevertheless: the host of an idle agent that keeps to time is online, a
  busy one's is at least not deleted.

Exceptions that the properties state, since the code does nothing about them and no document speaks of them:

* A job that a client posts as `running` is listed by no agent and runs in the ledger until a user cancels
  it. `StartedJobEnds` is about running jobs that somebody has in hand. A job posted as `success` has no release and no
  times but those of its client: `SuccessIsRecorded` and `TimesInOrder` leave it out.
* A start request that the server takes up after the agent gave up on it is dated then. When the job was
  listed and started again and has ended meanwhile, its row may say that it started after it finished (and is
  running again): `TimesInOrder` leaves these jobs out (`overdue`).
* `last_seen_at` is overwritten without a comparison: a heartbeat or a registration that waited puts
  back what a later one wrote, and the host may be taken offline that much too early. `OfflineIsSilent` measures
  the moment something of the host was last written (`contact`), and allows for exactly this wait
  (`MaxWait`).
* An idle agent's host can go offline when requests are slow. A heartbeat is written at 0, the request for
  jobs times out at 30 s, the next heartbeat, sent at once, times out at 60 s, and a listing after that
  finds the host silent. `IdleIsOnline`
  promises nothing to an agent with a request that takes longer than `Quick`.
* `--skip-register` starts the service with the install token unexchanged: `InstallationSucceeds` and
  `StartedAfterExchange` except it.

A cancellation after the listing is not covered by `EarlyCancelSticks`: the agent starts the job and
the start overwrites `canceled`. No document says what should happen, so this is no finding.
Likewise a job whose start request failed is overtaken by the rest of its listing: `InOrder` allows
exactly this.

## 4. Proofs

For all values of the constants, from the named assumptions of the modules alone:

* `HostProofs`: `HostInvariant` and from it `HostLinksResolve`, `HostSiteKept`,
  `HostFailureNotLive`, `HostNoHalfBuiltRelease`. The invariant `HostInv` adds to the properties
  what each step knows about its root (`StepKnows`: a clone's directory does not exist yet, a
  release to be linked is in place, at the swap `current.next` names the job, ...), that a root
  belongs to one host, and that a directory exists only for an executed job. Without the last two a
  second host, or a second execution, could disturb the step.
* `DeploymentProofs`: `TypesCorrect`, `AtMostOnce`, `StartedStaysStarted`, `ExecutorIsHost` and `SitesSafe`.
  The invariant `Inv` says of each agent which request it can wait for, that what is left
  of its listing was never executed and belongs to its host, that the job in hand is not in the rest of
  the listing, and, once the start was answered, is not pending; an executed job exists and is
  not pending; a late request concerns an existing job. `LedgerMoves` is the one fact about the
  ledger the argument needs: rows stay, keep app and action, and never become pending again.
* `ExecutorIsHost` shows `Spec => HostSpec`: the executor is handed each job at most once, at a root of
  its own host. The executor's theorems therefore hold of the whole pipeline (`SitesSafe`).
* `DeploymentProofs`, second part: `ReleasesOnHosts`, `SuccessRecorded`, `LiveNotFailed` and `EarlyCancel`. A job's
  execution ends once, so at any time there is at most one request to complete it, with its agent or
  among the late ones, and none once its release is recorded; a request to fail it exists
  only when its release is not live and cannot become live. `LedgerInv` says this for what each
  agent does (`WorkerKnows`), for the late requests of each job (`LateKnows`) and for the rows. A
  step concerns one job of one agent: `OneJob` and `NoJob` reduce the invariant to that job, `Setting` and
  `Recording` are the effects of the two statements of a completion.
* `LedgerAgreesWithHosts` needs more: what a root shows between the switch of `current` and the statement
  that records it. `InStep` says that until then the job in the agent's hand is the live one (`Switched`),
  and otherwise the newest release of the root is (`Agrees`); `AllInStep` adds that without
  a fault there are no late requests.
* `PipelineIsRollout` shows that the pipeline implements `Rollout` under the mapping `Promise`: the answer to a start is
  `Run`, `Checkout` is `Build`, `Swap` is `Activate`, the statement that inserts the release, be the request in time
  or late, is `Record`; every other step is a stutter. A release is thus recorded at most once and never
  made live after that. `LogIs` makes the counter of the abstract log of the rows (`RecordedOnce`).
* `SetupAppProofs`: `SetupIsHost` shows `Spec => HostSpec` for the detailed setup, so Host's theorems hold of it
  (`SetupHostSafe`). `SetupIsServed` and `SetupKeepsServed` follow from `SetupInv`, which says of each host what the
  next file operation knows of the domain being set up (`SiteKnown`), that what is served is
  enabled, and, while no setup failed or died there, that every enabled site but the one being
  written is whole and of a domain nginx accepts (`SitesSound`). That is why a boot brings
  everything back. `SetupAssumption` includes that `Absent`, the root of what is not served, is no root.
* `QueueProofs`: `FirstComeFirstServed` and `EndedAfterStart`. Three invariants, each resting on the one before:
  `UserInv` (a job requested after another was answered has the later `created_at`), `UpdateInv` (a job's
  end was dated after every start of it that is written or may still be written, unless a start was taken up
  overdue, so late updates cannot reverse its times; only an executed job has an end under way) and `ListInv` (a job in hand or executed left no earlier one behind that may still be executed,
  except those whose start request failed).
* `AuditTrailProofs`: `TrailIsTrue`, `GapsAreExplained`, `TrailInOrder`. `TrailInv` says what the place of a handler implies for its
  statements and its event (`Life`), that an install token is presented only after the event of its host
  was inserted or an error happened (`Caused`), and of each event that its handler is past its
  statements (`Told`). What one handler knows of the others only grows (`Grows`).
* `HeartbeatAuditProofs`: `HeartbeatsKept` and `HeartbeatsBounded`. Identifiers differ, so `Newer` is a strict total order and
  the ranks of n rows are exactly 0 .. n - 1 (`RanksDiffer`, an injection between sets of one size is
  onto): a prune leaves exactly `Keep` rows if there are as many (`KeptIsBounded`, `KeptIsFull`), and
  those are newer than every row that had `Keep` newer ones (`KeptAreNewer`). A pruned row therefore still has
  `Keep` newer ones after the prunes that follow.
* `RegistryProofs`: `RegistryInvariant` and from it `NoDanglingApp`, `OnlySilentGoOffline`,
  `DecisionsSeeRecent`, `InstallOnce`, `RegistryTypes`, from `RegistryAssumption` (`MaxWait <= StaleAfter`: 30 s
  against 60 s). The invariant adds to the properties that a host that is offline was silent by the
  column (`SeenIsSilent`), that what was written last was at most `MaxWait` old (`LateOverwrites`; the two together are
  `OfflineIsSilent`, which is not inductive alone), that stamps are not from the future
  (`Dated`; without it a mark could take a host of the present offline), that an agent's request is at
  most `MaxWait` old (`InTime`; without it a heartbeat delayed past a mark could bring a
  silent host back as online), that a host was not seen before it exists, and that the install
  token is current only while it is not spent. The actions share three lemmas: `MarkKeeps`, `SeeingKeeps` and
  `RequestMoves`.
* `RegistryProofs`, second part: `PresenceIsRegistry` shows that every step of an agent or of anybody else is one of
  `Registry` or leaves it alone, so that Registry's theorems hold of the composition
  (`PresenceReferences`). `IdleAgentsOnline` and `BusyHostsKept` follow from `PInv`, which adds to Registry's invariant when
  the ticker is due (`OnSchedule`), how long ago a steady host can have been seen after so many lost heartbeats
  (`Recent`, with `Reach`) and that a busy agent's host has an app (`Kept`). `PresenceAssumption` is
  `2 * Quick <= Poll`, `(MaxLost + 1) * Poll + 2 * Quick <= StaleAfter` and `Quick <= MaxWait`: the code's 15 s
  and 60 s meet it with up to 7 s for a prompt request and two heartbeats lost in a row, and
  the client's limit of 30 s is `MaxWait`, on which it puts no other condition.
* `AgentProofs`, first part: `RegistrationInvariant` and from it `AnswerStaysCurrent`, `StrandingHasReason`, `TokensWorkOnce`,
  `ServiceAfterExchange` (with the exception of `--skip-register`), `RegistrationTypes`. `RInv` says that nobody has a token the server has not made
  (`Known`), that an answered process is the only holder of the current token (`Holders`), that the current
  token was not accepted yet (`Spent`), and, of a history without fault, second installation and
  uninstaller, that the current token is the install token, in the file or on its way there
  (`OnItsWay`, which needs to know that nothing was sent before the install token was planted).
* `AgentProofs`, second part: `DifferentKeys`, `TextsInOrder`, `LastLinesDecide` and `TokensAreJoined`, for refs and files
  of any length, any texts and any `TokenLen`, `ShortLen`, `Fraction` and `Base`. As invariants they follow from the types
  alone (`TextsTypeCorrect`: refs are in `Seq(Chars)`, the file in `Seq(Line)`); the work is what the functions compute.
  The library's induction theorems take an operator as a parameter and cannot be used, but that `<` is
  well-founded can (`Least`): `UpTo` derives induction over the members of a set from it, and
  `FoldExists` from that the function behind `FoldLeft` and `FlattenSeq`, so that
  both can be followed one element at a time (`WrittenSteps`, `ReadSteps`, `FlattenSteps`).
  * *Tokens.* `WrittenJoined` is the invariant of the loop in `safePathToken`: what it has written is `Joined` of what it has
    read, with a hyphen at the end if one is due before the next letter or digit. It rests on `JoinedAppend`, what one more
    character does to the reference; there the list of places that `Ordered` chooses has to be unique (`OneList`). `TrimJoined`
    and `TrimBlank` are the two trims.
  * *Keys.* A key ends in `ShortLen` characters of the identifier (`ShortIDEnd`, `KeyParts`), whatever the ref contributes.
  * *Times.* The first digit that differs is in the text of the later time; where the earlier one's text has ended
    there, it has the blank, which is smaller than any digit (`EarlierIsSmaller`).
  * *Files.* After each line `ReadLine` is in the section the reference gives (`InSection`) and has for each key the
    value of the last line that assigned it so far (`HasValue`).

With TLC alone stay the liveness properties (`PendingIsHandled`, `StartedJobEnds`, `InstallationSucceeds`,
`StopEnds`), which are outside what the prover does, and the three disagreements, which are counterexamples. Every
invariant, action property and refinement of the passing runs is a theorem.

## 5. Plan

What is left: `Queue` and `Deployment` share the ledger but not a specification; that `Deployment` with an ordered
listing implements `Queue` is not stated.

Not modelled: the dashboard's HTML (output only; its forms call the operations of the API), job logs
(their errors are ignored and nothing reads them back), the retention columns and
`MarkReleaseRollbackUnavailable` (no caller), downloads, users and the flags other than `--skip-register` in the
installers (no state that
is read back), MQTT (no code).
