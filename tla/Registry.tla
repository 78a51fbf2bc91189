------------------------------ MODULE Registry ------------------------------
(***************************************************************************)
(* The registry of the control plane: rows of hosts, repos and apps, the   *)
(* presence of hosts (last_seen_at and status) and the registration of     *)
(* their agents.                                                           *)
(*                                                                         *)
(* SQLite is opened with one connection (src/internal/store/sqlitestore/   *)
(* sqlite.go), so a statement is atomic and a transaction keeps every      *)
(* other statement out.  A handler reads the clock first and then waits    *)
(* for the connection; between two statements of one handler any other     *)
(* handler may get it.  Each action below is one statement or one          *)
(* transaction, and Begin... is the moment the handler reads the clock.    *)
(***************************************************************************)
EXTENDS Integers

CONSTANTS
  Hosts,      \* identifiers of hosts
  Repos,      \* identifiers of repositories
  Apps,       \* identifiers of apps
  Requests,   \* requests the server handles at the same time
  StaleAfter, \* hostHeartbeatStaleAfter
  MaxWait,    \* the agent's timeout for a request
  MaxTime,    \* bound on the clock
  MaxTokens,  \* bound on the registrations of a host
  MaxAge      \* bound on the time any other request waits

\* 30 s in NewClient against 60 s in hostHeartbeatStaleAfter.
ASSUME RegistryAssumption ==
  /\ {StaleAfter, MaxWait, MaxTime, MaxTokens, MaxAge} \subseteq Nat
  /\ MaxWait <= StaleAfter

VARIABLES
  hosts,    \* hosts[h]: the row of h
  repos,    \* repos[p]: whether there is a row for p
  apps,     \* the rows of apps
  request,  \* request[r]: the next statement of a request, with its data
  now,      \* the server's clock
  installed,\* installed[h]: how often the install token of h was accepted
  contact   \* (history) contact[h]: when something from the agent of h was last written

vars == <<hosts, repos, apps, request, now, installed, contact>>

Never == -1 \* last_seen_at IS NULL

\* Identifiers are random: one that was deleted does not come back.  token
\* numbers the tokens of a host in the order they were made: 0 is the
\* install token.
HostRow == [status : {"unused", "offline", "online", "deleted"},
            seen : Nat \cup {Never}, token : Nat]

AppRow == [id : Apps, repo : Repos, host : Hosts]

Idle == [step |-> "none"]

Request ==
  {Idle} \cup
  [step : {"listMark", "listRead"}, stamp : Nat] \cup
  [step : {"heartbeat", "hostMark", "hostDrop"}, host : Hosts, stamp : Nat] \cup
  [step : {"register"}, host : Hosts, stamp : Nat, token : Nat] \cup
  [step : {"repoMark", "repoOnline", "repoApps", "repoDrop"}, repo : Repos, stamp : Nat]

TypeOK ==
  /\ hosts \in [Hosts -> HostRow]
  /\ repos \in [Repos -> {"unused", "here", "deleted"}]
  /\ apps \subseteq AppRow
  /\ request \in [Requests -> Request]
  /\ now \in Nat
  /\ installed \in [Hosts -> Nat]
  /\ contact \in [Hosts -> Nat \cup {Never}]

Init ==
  /\ hosts = [h \in Hosts |-> [status |-> "unused", seen |-> Never, token |-> 0]]
  /\ repos = [p \in Repos |-> "unused"]
  /\ apps = {}
  /\ request = [r \in Requests |-> Idle]
  /\ now = 0
  /\ installed = [h \in Hosts |-> 0]
  /\ contact = [h \in Hosts |-> Never]

Registered(h) == hosts[h].status \in {"offline", "online"}
Online(h) == hosts[h].status = "online"

Step(r) == request[r].step
Take(r, step, next) ==
  /\ Step(r) = step
  /\ request' = [request EXCEPT ![r] = next]
GoOn(r, step) == [request[r] EXCEPT !.step = step]

-----------------------------------------------------------------------------
(* Creating rows: one INSERT each.                                         *)

CreateHost(h) ==
  /\ hosts[h].status = "unused"
  /\ hosts' = [hosts EXCEPT ![h].status = "offline"]
  /\ UNCHANGED <<repos, apps, request, now, installed, contact>>

CreateRepository(p) ==
  /\ repos[p] = "unused"
  /\ repos' = [repos EXCEPT ![p] = "here"]
  /\ UNCHANGED <<hosts, apps, request, now, installed, contact>>

\* Nothing but the foreign keys of apps looks at the two identifiers.
CreateApp(a, p, h) ==
  /\ \A row \in apps : row.id # a
  /\ repos[p] = "here" /\ Registered(h)
  /\ apps' = apps \cup {[id |-> a, repo |-> p, host |-> h]}
  /\ UNCHANGED <<hosts, repos, request, now, installed, contact>>

-----------------------------------------------------------------------------
(* Presence.                                                               *)

BeginHeartbeat(r, h) ==
  /\ hosts[h].status # "unused"
  /\ Take(r, "none", [step |-> "heartbeat", host |-> h, stamp |-> now])
  /\ UNCHANGED <<hosts, repos, apps, now, installed, contact>>

\* Mutant: a heartbeat that leaves the status alone.
SeenOnly(h, stamp) == [hosts[h] EXCEPT !.seen = stamp]

\* Mutant: the status is what the agent reports.
SeenAsReported(h, stamp) == [hosts[h] EXCEPT !.status = "busy", !.seen = stamp]

\* What a heartbeat or a registration writes about the host's presence.
Seen(h, stamp) == [hosts[h] EXCEPT !.status = "online", !.seen = stamp]

\* Without a row the UPDATE changes nothing and the agent is told ok.
Heartbeat(r) ==
  /\ Take(r, "heartbeat", Idle)
  /\ LET h == request[r].host IN
       \/ /\ Registered(h)
          /\ hosts' = [hosts EXCEPT ![h] = Seen(h, request[r].stamp)]
          /\ contact' = [contact EXCEPT ![h] = now]
       \/ ~Registered(h) /\ UNCHANGED <<hosts, contact>>
  /\ UNCHANGED <<repos, apps, now, installed>>

\* Mutant: a host may miss twice the time.
StaleLater(h, stamp) == Online(h) /\ hosts[h].seen < stamp - 2 * StaleAfter

Stale(h, stamp) ==
  /\ Online(h)
  /\ hosts[h].seen = Never \/ hosts[h].seen < stamp - StaleAfter

\* markStaleHostsOffline, the first statement of a listing and of both
\* deletions.
Mark(r, step, next) ==
  /\ Take(r, step, GoOn(r, next))
  /\ hosts' = [h \in Hosts |-> IF Stale(h, request[r].stamp)
                               THEN [hosts[h] EXCEPT !.status = "offline"]
                               ELSE hosts[h]]
  /\ UNCHANGED <<repos, apps, now, installed, contact>>

BeginList(r) ==
  /\ Take(r, "none", [step |-> "listMark", stamp |-> now])
  /\ UNCHANGED <<hosts, repos, apps, now, installed, contact>>

ListHosts(r) ==
  \/ Mark(r, "listMark", "listRead")
  \/ Take(r, "listRead", Idle) /\ UNCHANGED <<hosts, repos, apps, now, installed, contact>>

-----------------------------------------------------------------------------
(* Registration of an agent.                                               *)

\* The token file holds the install token or the one of an earlier
\* registration.
BeginRegister(r, h, t) ==
  /\ hosts[h].status # "unused" /\ hosts[h].token < MaxTokens
  /\ t \in 0 .. hosts[h].token
  /\ Take(r, "none", [step |-> "register", host |-> h, stamp |-> now, token |-> t])
  /\ UNCHANGED <<hosts, repos, apps, now, installed, contact>>

\* Mutant: the UPDATE finds the host by its id alone.
GrantedById(h, t) == Registered(h)

Granted(h, t) == Registered(h) /\ hosts[h].token = t

Register(r) ==
  /\ Take(r, "register", Idle)
  /\ LET h == request[r].host
         t == request[r].token IN
       \/ /\ Granted(h, t)
          /\ hosts' = [hosts EXCEPT ![h] =
                         [Seen(h, request[r].stamp) EXCEPT !.token = @ + 1]]
          /\ installed' = [installed EXCEPT ![h] = @ + (IF t = 0 THEN 1 ELSE 0)]
          /\ contact' = [contact EXCEPT ![h] = now]
       \/ ~Granted(h, t) /\ UNCHANGED <<hosts, installed, contact>>
  /\ UNCHANGED <<repos, apps, now>>

-----------------------------------------------------------------------------
(* Deleting a host: the mark, then a transaction.                          *)

BeginDeleteHost(r, h) ==
  /\ hosts[h].status # "unused"
  /\ Take(r, "none", [step |-> "hostMark", host |-> h, stamp |-> now])
  /\ UNCHANGED <<hosts, repos, apps, now, installed, contact>>

\* Mutant: the applications of the host are not counted.
DeletableOffline(h) == Registered(h) /\ ~Online(h)

\* Not found, online and with applications are refused.
Deletable(h) ==
  /\ Registered(h) /\ ~Online(h)
  /\ \A row \in apps : row.host # h

DropHost(r) ==
  /\ Take(r, "hostDrop", Idle)
  /\ LET h == request[r].host IN
       hosts' = IF Deletable(h)
                THEN [hosts EXCEPT ![h].status = "deleted"]
                ELSE hosts
  /\ UNCHANGED <<repos, apps, now, installed, contact>>

DeleteHost(r) == Mark(r, "hostMark", "hostDrop") \/ DropHost(r)

-----------------------------------------------------------------------------
(* Deleting a repository: four statements and no transaction.              *)

BeginDeleteRepository(r, p) ==
  /\ repos[p] # "unused"
  /\ Take(r, "none", [step |-> "repoMark", repo |-> p, stamp |-> now])
  /\ UNCHANGED <<hosts, repos, apps, now, installed, contact>>

Uses(row, r) == row.repo = request[r].repo

CountOnline(r) ==
  /\ Take(r, "repoOnline", IF \E row \in apps : Uses(row, r) /\ Online(row.host)
                           THEN Idle ELSE GoOn(r, "repoApps"))
  /\ UNCHANGED <<hosts, repos, apps, now, installed, contact>>

CountApps(r) ==
  /\ Take(r, "repoApps", IF \E row \in apps : Uses(row, r)
                         THEN Idle ELSE GoOn(r, "repoDrop"))
  /\ UNCHANGED <<hosts, repos, apps, now, installed, contact>>

\* Mutant: apps.repo_id without its foreign key.
UnreferencedAnyway(r) == TRUE

\* The foreign key of apps.repo_id: the DELETE fails while a row refers to
\* the repository.
Unreferenced(r) == \A row \in apps : ~Uses(row, r)

DropRepository(r) ==
  /\ Take(r, "repoDrop", Idle)
  /\ repos' = IF repos[request[r].repo] = "here" /\ Unreferenced(r)
              THEN [repos EXCEPT ![request[r].repo] = "deleted"]
              ELSE repos
  /\ UNCHANGED <<hosts, apps, now, installed, contact>>

DeleteRepository(r) ==
  \/ Mark(r, "repoMark", "repoOnline")
  \/ CountOnline(r)
  \/ CountApps(r)
  \/ DropRepository(r)

-----------------------------------------------------------------------------
(* Requests that end early, and time.                                      *)

\* The client goes away or the server dies: the statement that waits is
\* never executed.
Leave(r) ==
  /\ Step(r) # "none"
  /\ request' = [request EXCEPT ![r] = Idle]
  /\ UNCHANGED <<hosts, repos, apps, now, installed, contact>>

\* An agent that has waited MaxWait closes the connection, which ends the
\* context its statement waits with.
Waits(r) ==
  /\ Step(r) \in {"heartbeat", "register"} => now < request[r].stamp + MaxWait
  /\ Step(r) \notin {"none", "heartbeat", "register"} => now < request[r].stamp + MaxAge

Tick ==
  /\ now < MaxTime
  /\ \A r \in Requests : Waits(r)
  /\ now' = now + 1
  /\ UNCHANGED <<hosts, repos, apps, request, installed, contact>>

Create ==
  \/ \E h \in Hosts : CreateHost(h)
  \/ \E p \in Repos : CreateRepository(p)
  \/ \E a \in Apps, p \in Repos, h \in Hosts : CreateApp(a, p, h)

Begin(r) ==
  \/ BeginList(r)
  \/ \E h \in Hosts : BeginHeartbeat(r, h) \/ BeginDeleteHost(r, h)
  \/ \E h \in Hosts : \E t \in 0 .. hosts[h].token : BeginRegister(r, h, t)
  \/ \E p \in Repos : BeginDeleteRepository(r, p)

Statement(r) ==
  \/ ListHosts(r)
  \/ Heartbeat(r)
  \/ Register(r)
  \/ DeleteHost(r)
  \/ DeleteRepository(r)

Next ==
  \/ Create
  \/ Tick
  \/ \E r \in Requests : Begin(r) \/ Statement(r) \/ Leave(r)

Spec == Init /\ [][Next]_vars

-----------------------------------------------------------------------------
(* Properties.                                                             *)

\* An app's repository and host exist.  For hosts the transaction in
\* DeleteHost sees to it, for repositories only the foreign key: an app can
\* be created between the statements of DeleteRepository.
ReferencesHold ==
  \A row \in apps : repos[row.repo] = "here" /\ Registered(row.host)

\* Nothing of a host that is offline, or was deleted, was written since more
\* than StaleAfter - MaxWait ago, or ever.  What counts is the moment of the
\* UPDATE and not the column: heartbeats and registrations overwrite
\* last_seen_at without comparing, so one that waited for the connection, at
\* most MaxWait, puts back what a later one wrote (UpdateHostHeartbeat,
\* RegisterHostAgent), and a host may be taken away that much too early.  No
\* order of heartbeats, registrations, listings and deletions makes it more.
OfflineIsSilent ==
  \A h \in Hosts :
    hosts[h].status \in {"offline", "deleted"} =>
      contact[h] = Never \/ contact[h] + StaleAfter < now + MaxWait

\* The steps of a request that read the status after it has marked hosts.
AfterMark == {"listRead", "hostDrop", "repoOnline", "repoApps", "repoDrop"}

\* Between its mark and its decision a request never sees a host online that
\* was silent for more than StaleAfter when the request began, although a
\* heartbeat with an older clock reading may be written in between.
OnlineIsRecent ==
  \A r \in Requests, h \in Hosts :
    Step(r) \in AfterMark /\ Online(h) =>
      hosts[h].seen + StaleAfter >= request[r].stamp

\* The install token is accepted once, however many registrations present it
\* at the same time or again (RegisterHostAgent compares and sets the hash in
\* one statement).
InstallTokenOnce == \A h \in Hosts : installed[h] <= 1

=============================================================================
