--------------------------- MODULE RegistryProofs ---------------------------
(***************************************************************************)
(* Proofs about Registry, for any number of hosts, repositories, apps and  *)
(* concurrent requests and without a bound on time: only the assumption    *)
(* RegistryAssumption is used, that an agent does not wait longer for a    *)
(* response than a host may be silent.                                     *)
(*                                                                         *)
(* In the second part, proofs about Presence: the agents' loop only ever   *)
(* does to the registry what Registry allows, and a host whose agent runs  *)
(* and is not busy is online as long as it keeps to time, for any poll     *)
(* interval, timeout and number of lost heartbeats that PresenceAssumption *)
(* admits.                                                                 *)
(***************************************************************************)
EXTENDS Presence, TLAPS

\* A request carries a clock reading that is not from the future.
Dated == \A r \in Requests : Step(r) # "none" => request[r].stamp <= now

\* An agent's request that is still waiting was stamped at most MaxWait ago.
InTime ==
  \A r \in Requests :
    Step(r) \in {"heartbeat", "register"} => now <= request[r].stamp + MaxWait

\* The install token is the current one only until it is accepted.
InstallTokenSpent ==
  \A h \in Hosts : hosts[h].token = 0 => installed[h] = 0

\* A host that does not exist yet was never seen.
UnusedIsUnseen ==
  \A h \in Hosts : hosts[h].status = "unused" => hosts[h].seen = Never

\* By last_seen_at a host that is offline was silent.
SeenIsSilent ==
  \A h \in Hosts :
    hosts[h].status \in {"offline", "deleted"} =>
      hosts[h].seen = Never \/ hosts[h].seen + StaleAfter < now

\* What was written for a host last is at most MaxWait older than the moment
\* it was written at.
LateOverwrites ==
  \A h \in Hosts :
    contact[h] # Never => hosts[h].seen # Never /\ contact[h] <= hosts[h].seen + MaxWait

Inv ==
  /\ TypeOK
  /\ UnusedIsUnseen /\ LateOverwrites
  /\ Dated /\ InTime
  /\ ReferencesHold
  /\ SeenIsSilent
  /\ OnlineIsRecent
  /\ InstallTokenSpent /\ InstallTokenOnce

-----------------------------------------------------------------------------

\* The fields a request has at each step (what the handlers pass on from one
\* statement to the next).
LEMMA RequestFields ==
  ASSUME TypeOK, NEW r \in Requests
  PROVE  /\ Step(r) # "none" => request[r].stamp \in Nat
         /\ Step(r) \in {"heartbeat", "register", "hostMark", "hostDrop"} =>
              request[r].host \in Hosts
         /\ Step(r) = "register" => request[r].token \in Nat
         /\ Step(r) \in {"repoMark", "repoOnline", "repoApps", "repoDrop"} =>
              request[r].repo \in Repos
  BY DEF TypeOK, Request, Idle, Step

\* Going on keeps the data of a request (DeleteHost, DeleteRepository and
\* ListHosts pass their arguments on unchanged).
LEMMA GoingOn ==
  ASSUME TypeOK, NEW r \in Requests, NEW step,
         \/ Step(r) = "listMark" /\ step = "listRead"
         \/ Step(r) = "hostMark" /\ step = "hostDrop"
         \/ Step(r) \in {"repoMark", "repoOnline", "repoApps"}
              /\ step \in {"repoOnline", "repoApps", "repoDrop"}
  PROVE  /\ GoOn(r, step) \in Request
         /\ GoOn(r, step).step = step
         /\ GoOn(r, step).stamp = request[r].stamp
  <1>1. CASE Step(r) = "listMark"
    BY <1>1 DEF TypeOK, Request, Idle, Step, GoOn
  <1>2. CASE Step(r) = "hostMark"
    BY <1>2 DEF TypeOK, Request, Idle, Step, GoOn
  <1>3. CASE Step(r) \in {"repoMark", "repoOnline", "repoApps"}
    BY <1>3 DEF TypeOK, Request, Idle, Step, GoOn
  <1> QED BY <1>1, <1>2, <1>3

\* Marking stale hosts (markStaleHostsOffline) keeps the invariant.
LEMMA MarkKeeps ==
  ASSUME Inv, NEW r \in Requests, NEW step, NEW next, Mark(r, step, next),
         \/ step = "listMark" /\ next = "listRead"
         \/ step = "hostMark" /\ next = "hostDrop"
         \/ step = "repoMark" /\ next = "repoOnline"
  PROVE  Inv'
  <1> USE RegistryAssumption
  <1> DEFINE stamp == request[r].stamp
  <1>1. /\ Step(r) = step /\ stamp \in Nat /\ stamp <= now /\ now \in Nat
        /\ GoOn(r, next) \in Request
        /\ GoOn(r, next).step = next /\ GoOn(r, next).stamp = stamp
    BY GoingOn, RequestFields DEF Mark, Take, Inv, Dated, TypeOK
  <1>2. /\ request' = [request EXCEPT ![r] = GoOn(r, next)]
        /\ UNCHANGED <<repos, apps, now, installed, contact>>
    BY DEF Mark, Take
  <1>3. \A h \in Hosts :
          /\ hosts'[h] \in HostRow
          /\ hosts'[h].seen = hosts[h].seen /\ hosts'[h].token = hosts[h].token
          /\ hosts[h].status = "offline" => hosts'[h] = hosts[h]
          /\ hosts[h].status = "deleted" => hosts'[h] = hosts[h]
          /\ hosts[h].status = "unused" => hosts'[h] = hosts[h]
          /\ hosts'[h].status = "online" => ~Stale(h, stamp) /\ Online(h)
          /\ hosts[h].status = "online" =>
               \/ hosts'[h].status = "online"
               \/ hosts'[h].status = "offline" /\ Stale(h, stamp)
    BY DEF Mark, Inv, TypeOK, HostRow, Stale, Online
  <1>4. TypeOK'
    <2>1. hosts' \in [Hosts -> HostRow]
      BY <1>3 DEF Mark
    <2> QED BY <2>1, <1>1, <1>2 DEF Inv, TypeOK
  <1>5. Dated' /\ InTime'
    BY <1>1, <1>2 DEF Inv, Dated, InTime, TypeOK, Step
  <1>6. ReferencesHold'
    BY <1>2, <1>3 DEF Inv, TypeOK, HostRow, AppRow, ReferencesHold, Registered
  <1>7. SeenIsSilent'
    BY <1>1, <1>2, <1>3 DEF Inv, TypeOK, HostRow, SeenIsSilent, Stale, Never
  <1>8. OnlineIsRecent'
    <2> SUFFICES ASSUME NEW q \in Requests, NEW h \in Hosts,
                        Step(q)' \in AfterMark, Online(h)'
                 PROVE  hosts'[h].seen + StaleAfter >= request'[q].stamp
      BY DEF OnlineIsRecent, AfterMark
    <2>1. CASE q = r
      BY <2>1, <1>1, <1>2, <1>3 DEF Inv, TypeOK, HostRow, Stale, Never, Online
    <2>2. CASE q # r
      BY <2>2, <1>2, <1>3 DEF Inv, TypeOK, OnlineIsRecent, Online, Step, AfterMark
    <2> QED BY <2>1, <2>2
  <1>9. InstallTokenSpent' /\ InstallTokenOnce' /\ UnusedIsUnseen' /\ LateOverwrites'
    BY <1>2, <1>3 DEF Inv, TypeOK, HostRow, InstallTokenSpent, InstallTokenOnce,
                      UnusedIsUnseen, LateOverwrites
  <1> QED BY <1>4, <1>5, <1>6, <1>7, <1>8, <1>9 DEF Inv

\* Taking a request from one step to the next without touching a row keeps
\* the invariant when the new step is sound: the bookkeeping all such actions
\* share (Begin..., CountOnline, CountApps, the end of a listing, Leave).
LEMMA RequestMoves ==
  ASSUME Inv, NEW r \in Requests, NEW next \in Request,
         request' = [request EXCEPT ![r] = next],
         UNCHANGED <<hosts, repos, apps, now, installed, contact>>,
         next.step # "none" => next.stamp <= now,
         next.step \in {"heartbeat", "register"} => now <= next.stamp + MaxWait,
         next.step \in AfterMark =>
           Step(r) \in AfterMark /\ next.stamp = request[r].stamp
  PROVE  Inv'
  <1>1. TypeOK' /\ Dated' /\ InTime'
    BY DEF Inv, TypeOK, Dated, InTime, Step
  <1>2. /\ ReferencesHold' /\ SeenIsSilent' /\ UnusedIsUnseen' /\ LateOverwrites'
        /\ InstallTokenSpent' /\ InstallTokenOnce'
    BY
       DEF Inv, UnusedIsUnseen, LateOverwrites, ReferencesHold, Registered, SeenIsSilent,
       InstallTokenSpent,
           InstallTokenOnce
  <1>3. OnlineIsRecent'
    BY DEF Inv, TypeOK, OnlineIsRecent, Online, Step, AfterMark
  <1> QED BY <1>1, <1>2, <1>3 DEF Inv

\* Changing the row of one host that is seen keeps the invariant (Heartbeat
\* and Register, which write last_seen_at from a clock reading that is at
\* most MaxWait old).
LEMMA SeeingKeeps ==
  ASSUME Inv, NEW r \in Requests, NEW h \in Hosts, NEW t \in Nat,
         Step(r) \in {"heartbeat", "register"},
         request' = [request EXCEPT ![r] = Idle],
         UNCHANGED <<repos, apps, now>>,
         Registered(h),
         hosts' = [hosts EXCEPT ![h] = [Seen(h, request[r].stamp) EXCEPT !.token = t]],
         contact' = [contact EXCEPT ![h] = now],
         installed' \in [Hosts -> Nat],
         InstallTokenSpent', InstallTokenOnce'
  PROVE  Inv'
  <1> USE RegistryAssumption
  <1> DEFINE stamp == request[r].stamp
  <1>1. stamp \in Nat /\ stamp <= now /\ now \in Nat /\ now <= stamp + MaxWait
    BY RequestFields DEF Inv, TypeOK, Dated, InTime
  <1>2. /\ \A g \in Hosts : g # h => hosts'[g] = hosts[g]
        /\ hosts'[h] \in HostRow
        /\ hosts'[h].status = "online" /\ hosts'[h].seen = stamp
        /\ contact'[h] = now /\ \A g \in Hosts : g # h => contact'[g] = contact[g]
    BY <1>1 DEF Inv, TypeOK, HostRow, Seen
  <1>3. TypeOK'
    BY <1>1, <1>2 DEF Inv, TypeOK, Request, Idle
  <1>4. Dated' /\ InTime'
    BY DEF Inv, TypeOK, Dated, InTime, Step, Idle
  <1>5. ReferencesHold'
    BY <1>2 DEF Inv, TypeOK, AppRow, ReferencesHold, Registered
  <1>6. SeenIsSilent' /\ UnusedIsUnseen' /\ LateOverwrites'
    <2>1. SeenIsSilent' /\ UnusedIsUnseen'
      BY <1>2 DEF Inv, SeenIsSilent, UnusedIsUnseen
    <2>2. LateOverwrites'
      BY <1>1, <1>2 DEF Inv, LateOverwrites, Never
    <2> QED BY <2>1, <2>2
  <1>7. OnlineIsRecent'
    <2> SUFFICES ASSUME NEW q \in Requests, NEW g \in Hosts,
                        Step(q)' \in AfterMark, Online(g)'
                 PROVE  hosts'[g].seen + StaleAfter >= request'[q].stamp
      BY DEF OnlineIsRecent, AfterMark
    <2>1. /\ q # r /\ Step(q) \in AfterMark
          /\ request'[q].stamp = request[q].stamp
          /\ request[q].stamp \in Nat /\ request[q].stamp <= now
      BY RequestFields DEF Inv, TypeOK, Dated, Step, Idle, AfterMark
    <2>2. CASE g = h
      BY <1>1, <1>2, <2>1, <2>2
    <2>3. CASE g # h
      BY <1>2, <2>1, <2>3 DEF Inv, OnlineIsRecent, Online
    <2> QED BY <2>2, <2>3
  <1> QED BY <1>3, <1>4, <1>5, <1>6, <1>7 DEF Inv

-----------------------------------------------------------------------------

\* The initial state: an empty database and no requests.
LEMMA InitInv == Init => Inv
  BY
     DEF Init, Inv, TypeOK, UnusedIsUnseen, LateOverwrites, HostRow, Request, Idle, Dated, InTime, Step,
     ReferencesHold,
         SeenIsSilent, OnlineIsRecent, AfterMark, InstallTokenSpent, InstallTokenOnce,
         Never

\* Creating rows keeps the invariant; a new host was never seen, and the
\* foreign keys see to the references of a new app.
LEMMA CreateKeeps == ASSUME Inv, Create PROVE Inv'
  <1>1. ASSUME NEW h \in Hosts, CreateHost(h) PROVE Inv'
    <2>1. /\ \A g \in Hosts : g # h => hosts'[g] = hosts[g]
          /\ hosts'[h] \in HostRow /\ hosts'[h].status = "offline"
          /\ hosts'[h].token = hosts[h].token /\ hosts'[h].seen = Never
          /\ hosts[h].status = "unused"
          /\ UNCHANGED <<repos, apps, request, now, installed, contact>>
      BY <1>1 DEF CreateHost, Inv, TypeOK, HostRow, UnusedIsUnseen, LateOverwrites
    <2>2. TypeOK' /\ Dated' /\ InTime'
      BY <1>1, <2>1 DEF CreateHost, Inv, TypeOK, Dated, InTime, Step
    <2>3. ReferencesHold' /\ SeenIsSilent' /\ UnusedIsUnseen' /\ LateOverwrites'
      BY <2>1 DEF Inv, TypeOK, AppRow, ReferencesHold, Registered, SeenIsSilent,
                  UnusedIsUnseen, LateOverwrites
    <2>4. OnlineIsRecent' /\ InstallTokenSpent' /\ InstallTokenOnce'
      BY <2>1 DEF Inv, OnlineIsRecent, Online, Step, AfterMark, InstallTokenSpent,
                  InstallTokenOnce
    <2> QED BY <2>2, <2>3, <2>4 DEF Inv
  <1>2. ASSUME NEW p \in Repos, CreateRepository(p) PROVE Inv'
    <2>1. TypeOK' /\ Dated' /\ InTime' /\ ReferencesHold'
      BY <1>2 DEF CreateRepository, Inv, TypeOK, AppRow, Dated, InTime, Step,
                  ReferencesHold, Registered
    <2>2. SeenIsSilent' /\ UnusedIsUnseen' /\ LateOverwrites' /\ OnlineIsRecent'
      BY <1>2 DEF CreateRepository, Inv, SeenIsSilent, UnusedIsUnseen, LateOverwrites,
                  OnlineIsRecent, Online, Step, AfterMark
    <2>3. InstallTokenSpent' /\ InstallTokenOnce'
      BY <1>2 DEF CreateRepository, Inv, InstallTokenSpent, InstallTokenOnce
    <2> QED BY <2>1, <2>2, <2>3 DEF Inv
  <1>3. ASSUME NEW a \in Apps, NEW p \in Repos, NEW h \in Hosts, CreateApp(a, p, h)
        PROVE  Inv'
    BY <1>3 DEF CreateApp, Inv, TypeOK, AppRow, Dated, InTime, Step,
                ReferencesHold, Registered, SeenIsSilent, UnusedIsUnseen, LateOverwrites,
                OnlineIsRecent, Online, AfterMark, InstallTokenSpent, InstallTokenOnce
  <1> QED BY <1>1, <1>2, <1>3 DEF Create

\* A handler that reads the clock keeps the invariant: it has not marked yet.
LEMMA BeginKeeps == ASSUME Inv, NEW r \in Requests, Begin(r) PROVE Inv'
  <1> USE RegistryAssumption
  <1> DEFINE Starts(next) ==
        /\ next \in Request /\ next.stamp = now /\ next.step \notin AfterMark
        /\ request' = [request EXCEPT ![r] = next]
        /\ UNCHANGED <<hosts, repos, apps, now, installed, contact>>
  <1>1. ASSUME NEW next, Starts(next) PROVE Inv'
    <2>1. next.stamp <= now /\ now <= next.stamp + MaxWait
      BY <1>1 DEF Inv, TypeOK
    <2> QED BY <1>1, <2>1, RequestMoves
  <1>2. CASE BeginList(r)
    <2>1. Starts([step |-> "listMark", stamp |-> now])
      BY <1>2 DEF BeginList, Take, Inv, TypeOK, Request, AfterMark
    <2> QED BY <1>1, <2>1
  <1>3. ASSUME NEW h \in Hosts, BeginHeartbeat(r, h) PROVE Inv'
    <2>1. Starts([step |-> "heartbeat", host |-> h, stamp |-> now])
      BY <1>3 DEF BeginHeartbeat, Take, Inv, TypeOK, Request, AfterMark
    <2> QED BY <1>1, <2>1
  <1>4. ASSUME NEW h \in Hosts, BeginDeleteHost(r, h) PROVE Inv'
    <2>1. Starts([step |-> "hostMark", host |-> h, stamp |-> now])
      BY <1>4 DEF BeginDeleteHost, Take, Inv, TypeOK, Request, AfterMark
    <2> QED BY <1>1, <2>1
  <1>5. ASSUME NEW h \in Hosts, NEW t \in 0 .. hosts[h].token, BeginRegister(r, h, t)
        PROVE  Inv'
    <2>1. t \in Nat
      BY <1>5 DEF Inv, TypeOK, HostRow
    <2>2. Starts([step |-> "register", host |-> h, stamp |-> now, token |-> t])
      BY <1>5, <2>1 DEF BeginRegister, Take, Inv, TypeOK, Request, AfterMark
    <2> QED BY <1>1, <2>2
  <1>6. ASSUME NEW p \in Repos, BeginDeleteRepository(r, p) PROVE Inv'
    <2>1. Starts([step |-> "repoMark", repo |-> p, stamp |-> now])
      BY <1>6 DEF BeginDeleteRepository, Take, Inv, TypeOK, Request, AfterMark
    <2> QED BY <1>1, <2>1
  <1> QED BY <1>2, <1>3, <1>4, <1>5, <1>6 DEF Begin

\* A heartbeat, for a host that is there or is not (UpdateHostHeartbeat).
LEMMA HeartbeatKeeps == ASSUME Inv, NEW r \in Requests, Heartbeat(r) PROVE Inv'
  <1> DEFINE h == request[r].host
  <1>1. /\ Step(r) = "heartbeat" /\ h \in Hosts
        /\ request' = [request EXCEPT ![r] = Idle]
        /\ UNCHANGED <<repos, apps, now, installed>>
    BY RequestFields DEF Heartbeat, Take, Inv
  <1>2. CASE Registered(h)
    <2> DEFINE t == hosts[h].token
    <2>0. /\ t \in Nat /\ Seen(h, request[r].stamp).token = t
          /\ [Seen(h, request[r].stamp) EXCEPT !.token = t] = Seen(h, request[r].stamp)
      BY <1>1 DEF Inv, TypeOK, HostRow, Seen
    <2>1. /\ t \in Nat /\ contact' = [contact EXCEPT ![h] = now]
          /\ hosts' = [hosts EXCEPT ![h] = [Seen(h, request[r].stamp) EXCEPT !.token = t]]
          /\ hosts'[h].token = t /\ \A g \in Hosts : g # h => hosts'[g] = hosts[g]
      BY <1>1, <1>2, <2>0 DEF Heartbeat, Inv, TypeOK
    <2>2. installed' \in [Hosts -> Nat] /\ InstallTokenSpent' /\ InstallTokenOnce'
      BY <1>1, <2>1 DEF Inv, TypeOK, InstallTokenSpent, InstallTokenOnce
    <2> HIDE DEF t, h
    <2> QED BY <1>1, <1>2, <2>1, <2>2, SeeingKeeps
  <1>3. CASE ~Registered(h)
    <2>1. UNCHANGED <<hosts, contact>> /\ Idle \in Request
      BY <1>3 DEF Heartbeat, Request
    <2> QED BY <1>1, <2>1, RequestMoves DEF Idle, AfterMark
  <1> QED BY <1>2, <1>3

\* A registration (RegisterHostAgent): the token it presents is spent.
LEMMA RegisterKeeps == ASSUME Inv, NEW r \in Requests, Register(r) PROVE Inv'
  <1> DEFINE h == request[r].host
             t == request[r].token
  <1>1. /\ Step(r) = "register" /\ h \in Hosts /\ t \in Nat
        /\ request' = [request EXCEPT ![r] = Idle]
        /\ UNCHANGED <<repos, apps, now>>
    BY RequestFields DEF Register, Take, Inv
  <1>2. CASE Granted(h, t)
    <2>0. Registered(h) /\ hosts[h].token = t /\ Seen(h, request[r].stamp).token = t
      BY <1>1, <1>2 DEF Granted, Inv, TypeOK, HostRow, Seen
    <2>1. /\ Registered(h) /\ hosts[h].token = t /\ t + 1 \in Nat
          /\ hosts' = [hosts EXCEPT ![h] = [Seen(h, request[r].stamp) EXCEPT !.token = t + 1]]
          /\ installed' = [installed EXCEPT ![h] = @ + (IF t = 0 THEN 1 ELSE 0)]
          /\ contact' = [contact EXCEPT ![h] = now]
      BY <1>1, <1>2, <2>0 DEF Register
    <2>2. hosts'[h].token = t + 1 /\ \A g \in Hosts : g # h => hosts'[g] = hosts[g]
      BY <1>1, <2>1 DEF Inv, TypeOK, HostRow, Seen
    <2>3. installed' \in [Hosts -> Nat] /\ InstallTokenSpent' /\ InstallTokenOnce'
      BY <1>1, <2>1, <2>2 DEF Inv, TypeOK, InstallTokenSpent, InstallTokenOnce
    <2> HIDE DEF t, h
    <2> QED BY <1>1, <2>1, <2>3, SeeingKeeps
  <1>3. CASE ~Granted(h, t)
    <2>1. UNCHANGED <<hosts, installed, contact>> /\ Idle \in Request
      BY <1>3 DEF Register, Request
    <2> QED BY <1>1, <2>1, RequestMoves DEF Idle, AfterMark
  <1> QED BY <1>2, <1>3

\* Deleting the host (the transaction of DeleteHost): it is offline, so it is
\* silent, and no app refers to it.
LEMMA DropHostKeeps == ASSUME Inv, NEW r \in Requests, DropHost(r) PROVE Inv'
  <1> DEFINE h == request[r].host
  <1>1. /\ Step(r) = "hostDrop" /\ h \in Hosts
        /\ request' = [request EXCEPT ![r] = Idle]
        /\ UNCHANGED <<repos, apps, now, installed, contact>>
    BY RequestFields DEF DropHost, Take, Inv
  <1>2. CASE Deletable(h)
    <2>1. /\ hosts' = [hosts EXCEPT ![h].status = "deleted"]
          /\ hosts[h].status = "offline" /\ \A row \in apps : row.host # h
      BY <1>2 DEF DropHost, Deletable, Registered, Online
    <2>2. /\ \A g \in Hosts : g # h => hosts'[g] = hosts[g]
          /\ hosts'[h] \in HostRow /\ hosts'[h].status = "deleted"
          /\ hosts'[h].token = hosts[h].token /\ hosts'[h].seen = hosts[h].seen
      BY <1>1, <2>1 DEF Inv, TypeOK, HostRow
    <2>3. TypeOK' /\ Dated' /\ InTime'
      BY <1>1, <2>1, <2>2 DEF Inv, TypeOK, Dated, InTime, Step, Request, Idle
    <2>4. ReferencesHold' /\ SeenIsSilent' /\ UnusedIsUnseen' /\ LateOverwrites'
      BY <1>1, <2>1, <2>2 DEF Inv, TypeOK, AppRow, ReferencesHold, Registered,
                              SeenIsSilent, UnusedIsUnseen, LateOverwrites
    <2>5. OnlineIsRecent' /\ InstallTokenSpent' /\ InstallTokenOnce'
      BY <1>1, <2>1, <2>2 DEF Inv, TypeOK, OnlineIsRecent, Online, Step, AfterMark, Idle,
                              InstallTokenSpent, InstallTokenOnce
    <2> QED BY <2>3, <2>4, <2>5 DEF Inv
  <1>3. CASE ~Deletable(h)
    <2>1. UNCHANGED hosts /\ Idle \in Request
      BY <1>3 DEF DropHost, Request
    <2> QED BY <1>1, <2>1, RequestMoves DEF Idle, AfterMark
  <1> QED BY <1>2, <1>3

\* The statements of DeleteRepository after its mark: the two counts only
\* move on, and the foreign key protects the apps from the last one.
LEMMA DropRepositoryKeeps ==
  ASSUME Inv, NEW r \in Requests, CountOnline(r) \/ CountApps(r) \/ DropRepository(r)
  PROVE  Inv'
  <1>1. Idle \in Request /\ Idle.step = "none"
    BY DEF Request, Idle
  <1>2. ASSUME NEW step \in {"repoApps", "repoDrop"}, Step(r) \in {"repoOnline", "repoApps"},
               request' = [request EXCEPT ![r] = GoOn(r, step)],
               UNCHANGED <<hosts, repos, apps, now, installed, contact>>
        PROVE  Inv'
    <2>1. /\ GoOn(r, step) \in Request /\ GoOn(r, step).step = step
          /\ GoOn(r, step).stamp = request[r].stamp
      BY <1>2, GoingOn DEF Inv
    <2>2. request[r].stamp <= now
      BY <1>2 DEF Inv, Dated
    <2> HIDE DEF GoOn
    <2> QED BY <1>2, <2>1, <2>2, RequestMoves DEF AfterMark
  <1>3. ASSUME request' = [request EXCEPT ![r] = Idle],
               UNCHANGED <<hosts, repos, apps, now, installed, contact>>
        PROVE  Inv'
    BY <1>1, <1>3, RequestMoves DEF AfterMark
  <1>4. CASE CountOnline(r)
    BY <1>2, <1>3, <1>4 DEF CountOnline, Take
  <1>5. CASE CountApps(r)
    BY <1>2, <1>3, <1>5 DEF CountApps, Take
  <1>6. CASE DropRepository(r)
    <2> DEFINE p == request[r].repo
    <2>1. /\ Step(r) = "repoDrop" /\ p \in Repos
          /\ request' = [request EXCEPT ![r] = Idle]
          /\ UNCHANGED <<hosts, apps, now, installed, contact>>
      BY <1>6, RequestFields DEF DropRepository, Take, Inv
    <2>2. CASE UNCHANGED repos
      BY <1>3, <2>1, <2>2
    <2>3. CASE repos' # repos
      <3>1. /\ repos' = [repos EXCEPT ![p] = "deleted"]
            /\ \A row \in apps : row.repo # p
        BY <1>6, <2>3 DEF DropRepository, Unreferenced, Uses
      <3>2. TypeOK' /\ Dated' /\ InTime'
        BY <2>1, <3>1 DEF Inv, TypeOK, Dated, InTime, Step, Request, Idle
      <3>3. ReferencesHold'
        BY <2>1, <3>1 DEF Inv, TypeOK, AppRow, ReferencesHold, Registered
      <3>4. SeenIsSilent' /\ UnusedIsUnseen' /\ LateOverwrites' /\ OnlineIsRecent'
        BY <2>1 DEF Inv, TypeOK, SeenIsSilent, UnusedIsUnseen, LateOverwrites, OnlineIsRecent, Online,
                    Step, AfterMark, Idle
      <3>5. InstallTokenSpent' /\ InstallTokenOnce'
        BY <2>1 DEF Inv, InstallTokenSpent, InstallTokenOnce
      <3> QED BY <3>2, <3>3, <3>4, <3>5 DEF Inv
    <2> QED BY <2>2, <2>3
  <1> QED BY <1>4, <1>5, <1>6

\* The invariant is inductive.
LEMMA NextKeeps == ASSUME Inv, [Next]_vars PROVE Inv'
  <1>1. CASE Create
    BY <1>1, CreateKeeps
  <1>2. CASE Tick
    <2>1. /\ now' = now + 1 /\ UNCHANGED <<hosts, repos, apps, request, installed, contact>>
          /\ \A r \in Requests : Waits(r)
      BY <1>2 DEF Tick
    <2>2. TypeOK' /\ Dated'
      BY <2>1, RequestFields DEF Inv, TypeOK, Dated, Step
    <2>3. InTime'
      BY <2>1, RequestFields, RegistryAssumption DEF Inv, TypeOK, InTime, Waits, Step
    <2>4. ReferencesHold' /\ UnusedIsUnseen' /\ LateOverwrites' /\ InstallTokenSpent' /\ InstallTokenOnce'
      BY <2>1 DEF Inv, ReferencesHold, Registered, UnusedIsUnseen, LateOverwrites, InstallTokenSpent,
                  InstallTokenOnce
    <2>5. SeenIsSilent'
      BY <2>1, RegistryAssumption DEF Inv, TypeOK, HostRow, SeenIsSilent, Never
    <2>6. OnlineIsRecent'
      BY <2>1 DEF Inv, OnlineIsRecent, Online, Step, AfterMark
    <2> QED BY <2>2, <2>3, <2>4, <2>5, <2>6 DEF Inv
  <1>3. ASSUME NEW r \in Requests, Begin(r) PROVE Inv'
    BY <1>3, BeginKeeps
  <1>4. ASSUME NEW r \in Requests, request' = [request EXCEPT ![r] = Idle],
               UNCHANGED <<hosts, repos, apps, now, installed, contact>>
        PROVE  Inv'
    <2>1. Idle \in Request
      BY DEF Request
    <2> QED BY <1>4, <2>1, RequestMoves DEF Idle, AfterMark
  <1>5. ASSUME NEW r \in Requests, Statement(r) PROVE Inv'
    <2>1. CASE ListHosts(r)
      BY <2>1, <1>4, MarkKeeps DEF ListHosts, Take
    <2>2. CASE DeleteHost(r)
      BY <2>2, MarkKeeps, DropHostKeeps DEF DeleteHost
    <2>3. CASE DeleteRepository(r)
      BY <2>3, MarkKeeps, DropRepositoryKeeps DEF DeleteRepository
    <2> QED BY <1>5, <2>1, <2>2, <2>3, HeartbeatKeeps, RegisterKeeps DEF Statement
  <1>6. ASSUME NEW r \in Requests, Leave(r) PROVE Inv'
    BY <1>4, <1>6 DEF Leave
  <1>7. CASE UNCHANGED vars
    BY <1>7 DEF vars, Inv, TypeOK, Dated, InTime, Step, ReferencesHold, Registered,
                SeenIsSilent, UnusedIsUnseen, LateOverwrites, OnlineIsRecent, Online, AfterMark,
                InstallTokenSpent, InstallTokenOnce
  <1> QED BY <1>1, <1>2, <1>3, <1>5, <1>6, <1>7 DEF Next

-----------------------------------------------------------------------------

\* The inductive invariant of the registry.
THEOREM RegistryInvariant == Spec => []Inv
  BY InitInv, NextKeeps, PTL DEF Spec

\* The type invariant of the registry.
THEOREM RegistryTypes == Spec => []TypeOK
  <1>1. Inv => TypeOK
    BY DEF Inv
  <1> QED BY <1>1, RegistryInvariant, PTL

\* No app refers to a host or a repository that is gone, although
\* DeleteRepository counts and deletes in separate statements.
THEOREM NoDanglingApp == Spec => []ReferencesHold
  <1>1. Inv => ReferencesHold
    BY DEF Inv
  <1> QED BY <1>1, RegistryInvariant, PTL

\* markStaleHostsOffline and DeleteHost only ever hit hosts for which nothing
\* was written in the last hostHeartbeatStaleAfter less the agents' timeout,
\* although heartbeats and registrations overwrite a later last_seen_at.
THEOREM OnlySilentGoOffline == Spec => []OfflineIsSilent
  <1>1. Inv => OfflineIsSilent
    <2> SUFFICES ASSUME Inv, NEW h \in Hosts, hosts[h].status \in {"offline", "deleted"},
                        contact[h] # Never
                 PROVE  contact[h] + StaleAfter < now + MaxWait
      BY DEF OfflineIsSilent
    <2>1. /\ hosts[h].seen \in Nat /\ contact[h] \in Nat /\ now \in Nat
          /\ contact[h] <= hosts[h].seen + MaxWait /\ hosts[h].seen + StaleAfter < now
      BY DEF Inv, TypeOK, HostRow, LateOverwrites, SeenIsSilent
    <2> QED BY <2>1, RegistryAssumption
  <1> QED BY <1>1, RegistryInvariant, PTL

\* What a listing shows and the deletions refuse as online was seen recently.
THEOREM DecisionsSeeRecent == Spec => []OnlineIsRecent
  <1>1. Inv => OnlineIsRecent
    BY DEF Inv
  <1> QED BY <1>1, RegistryInvariant, PTL

\* RegisterHostAgent accepts an install token at most once.
THEOREM InstallOnce == Spec => []InstallTokenOnce
  <1>1. Inv => InstallTokenOnce
    BY DEF Inv
  <1> QED BY <1>1, RegistryInvariant, PTL

-----------------------------------------------------------------------------
(* Presence: the registry with the loop of its agents.                     *)

\* How long after the last heartbeat the next one is sent when k are lost.
Reach(k) == (k + 1) * Poll

\* What was written for h is at most Quick older than the tick it is about.
Base(h) == hosts[h].seen + Quick

\* The agent's heartbeat at the server.
Beat(h) == request[agent[h].slot]

AgentsTyped == agent \in [Hosts -> Agent] /\ steady \subseteq Hosts

\* The agents that run.
Active == [mode : {"rest", "sent", "beat", "told", "poll", "busy"}, due : Nat, since : Nat,
           slot : Requests \cup {NoSlot}, lost : 0 .. MaxLost]

\* The heartbeat of a tick is under way.
Beating(h) == Mode(h) \in {"sent", "beat", "told"}

\* The ticker of an agent fires within one interval of now and of the
\* heartbeat it sent, and the server dates a heartbeat after it was sent.
OnSchedule(h) ==
  /\ Running(h) => agent[h].due <= now + Poll
  /\ Asking(h) => agent[h].since <= now
  /\ Beating(h) => agent[h].due <= agent[h].since + Poll
  /\ Mode(h) = "beat" =>
       /\ agent[h].slot \in Requests
       /\ Beat(h).step = "heartbeat" /\ Beat(h).host = h
       /\ agent[h].since <= Beat(h).stamp
  /\ Mode(h) = "poll" => agent[h].lost = 0

\* How long ago a steady host can have been seen, by what its agent does.
Recent(h) ==
  /\ Running(h) /\ Mode(h) # "busy"
  /\ Online(h) /\ hosts[h].seen \in Nat
  /\ Asking(h) => Prompt(h)
  /\ Mode(h) = "rest" => /\ now <= Base(h) + Reach(agent[h].lost)
                         /\ agent[h].due <= Base(h) + Reach(agent[h].lost)
  /\ Mode(h) \in {"sent", "beat"} => agent[h].since <= Base(h) + Reach(agent[h].lost)
  /\ Mode(h) = "told" => agent[h].since <= Base(h)
  /\ Mode(h) = "poll" => /\ agent[h].since <= Base(h) + Quick
                         /\ agent[h].due <= Base(h) + Poll

\* A busy agent's host has an app and so cannot be deleted.
Kept(h) == Mode(h) = "busy" => Registered(h) /\ \E row \in apps : row.host = h

Sound(h) ==
  /\ OnSchedule(h)
  /\ h \in steady => Recent(h)
  /\ Kept(h)

PInv == Inv /\ AgentsTyped /\ \A h \in Hosts : Sound(h)

-----------------------------------------------------------------------------
(* Time.                                                                   *)

\* One more lost heartbeat costs one interval, and MaxLost of them leave a
\* host online (PollInterval against hostHeartbeatStaleAfter).
LEMMA ReachFacts ==
  ASSUME NEW k \in 0 .. MaxLost
  PROVE  /\ Reach(k) \in Nat /\ Poll <= Reach(k)
         /\ Reach(k + 1) = Reach(k) + Poll
         /\ Reach(k) + 2 * Quick <= StaleAfter
  <1> USE PresenceAssumption, RegistryAssumption
  <1>1. Reach(k) = k * Poll + Poll /\ Reach(k + 1) = k * Poll + Poll + Poll
    BY DEF Reach
  <1>2. k * Poll \in Nat
    OBVIOUS
  <1>3. k * Poll + Poll <= (MaxLost + 1) * Poll
    <2>1. (MaxLost - k) * Poll \in Nat
      OBVIOUS
    <2>2. (MaxLost + 1) * Poll = (MaxLost - k) * Poll + k * Poll + Poll
      OBVIOUS
    <2> QED BY <2>1, <2>2, <1>2
  <1> QED BY <1>1, <1>2, <1>3

\* The ticker fires again in the future, within one interval (runAgent).
LEMMA FollowingIsNext ==
  ASSUME now \in Nat, NEW due \in Nat, due <= now
  PROVE  Following(due) \in now + 1 .. now + Poll
  <1> USE PresenceAssumption
  <1> DEFINE q == (now - due) \div Poll
  <1>1. q \in Nat /\ q * Poll <= now - due /\ now - due < q * Poll + Poll
    OBVIOUS
  <1>2. q <= now
    BY <1>1
  <1>3. (q + 1) * Poll = q * Poll + Poll
    BY <1>1
  <1>4. due + (q + 1) * Poll \in now + 1 .. now + Poll
    BY <1>1, <1>3
  <1>5. q + 1 \in 1 .. now + 1
    BY <1>1, <1>2
  <1> QED BY <1>4, <1>5 DEF Following

\* What is known of an agent by its type.
LEMMA AgentFields ==
  ASSUME AgentsTyped, NEW h \in Hosts, Running(h)
  PROVE  /\ agent[h] \in Active
         /\ agent[h].due \in Nat /\ agent[h].since \in Nat
         /\ agent[h].lost \in 0 .. MaxLost
         /\ Mode(h) \in {"rest", "busy"} \/ Asking(h)
  <1>1. agent[h] \in Active
    BY DEF AgentsTyped, Agent, Active, Off, Running, Mode
  <1> QED BY <1>1 DEF Active, Mode, Asking

\* A steady host is not stale for any handler (all that
\* markStaleHostsOffline looks at).
LEMMA SteadyIsFresh ==
  ASSUME PInv, NEW h \in Hosts, h \in steady
  PROVE  /\ Online(h) /\ hosts[h].seen \in Nat
         /\ now <= hosts[h].seen + StaleAfter
  <1> USE PresenceAssumption, RegistryAssumption
  <1>1. Recent(h) /\ Running(h) /\ now \in Nat /\ hosts[h].seen \in Nat
    BY DEF PInv, Sound, Inv, TypeOK, Recent
  <1>2. /\ agent[h].lost \in 0 .. MaxLost /\ agent[h].since \in Nat
        /\ Mode(h) = "rest" \/ Asking(h)
    BY <1>1, AgentFields DEF PInv, Recent
  <1>3. /\ Reach(agent[h].lost) \in Nat /\ Reach(agent[h].lost) + 2 * Quick <= StaleAfter
        /\ Poll <= Reach(agent[h].lost)
    BY <1>2, ReachFacts
  <1>4. CASE Mode(h) = "rest"
    BY <1>1, <1>3, <1>4 DEF Recent, Base
  <1>5. CASE Asking(h)
    BY <1>1, <1>2, <1>3, <1>5 DEF Recent, Base, Prompt, Asking
  <1> QED BY <1>1, <1>2, <1>4, <1>5 DEF Recent

-----------------------------------------------------------------------------
(* Presence is a Registry.                                                 *)

\* Every step of an agent or of anybody else is a step of the registry or
\* leaves it alone.
LEMMA StepIsRegistrys == ASSUME PInv, [PNext]_pvars PROVE [Next]_vars
  <1>1. ASSUME NEW h \in Hosts, AgentStep(h) PROVE [Next]_vars
    <2>1. Mode(h) = "beat" => agent[h].slot \in Requests
      BY DEF PInv, Sound, OnSchedule
    <2>2. \/ \E r \in Requests : BeginHeartbeat(r, h) \/ Heartbeat(r)
          \/ UNCHANGED vars
      BY <1>1, <2>1 DEF AgentStep, Start, Fire, Arrive, Written, Answered, BeatFails, Polled,
                        Finish, Stop
    <2> QED BY <2>2 DEF Next, Begin, Statement
  <1>2. ASSUME NEW r \in Requests, Others(r) PROVE [Next]_vars
    BY <1>2 DEF Others, Next
  <1>3. CASE Create \/ PTick
    BY <1>3 DEF Next, PTick
  <1>4. CASE UNCHANGED pvars
    BY <1>4 DEF pvars
  <1> QED BY <1>1, <1>2, <1>3, <1>4 DEF PNext

-----------------------------------------------------------------------------
(* What a step does to the host of an agent that does not take it.         *)

\* A row changes in one of these ways, and the others are as before.
Changed(h) ==
  \/ hosts'[h] = hosts[h]
  \/ hosts[h].status = "unused"
  \/ /\ Online(h)' /\ hosts'[h].seen \in Nat
     /\ h \in steady' => hosts'[h].seen = hosts[h].seen \/ now <= hosts'[h].seen + Quick
  \/ /\ \E t \in Nat : t <= now /\ Stale(h, t)
     /\ Registered(h)'
  \/ Deletable(h)

\* What an agent knows of its host survives every such change: the row of a
\* steady host can only be written again, with a time at most Quick old.
LEMMA OthersKeep ==
  ASSUME PInv, NEW h \in Hosts, agent'[h] = agent[h], now' = now,
         h \in steady' => h \in steady,
         Mode(h) = "beat" => request'[agent[h].slot] = request[agent[h].slot],
         apps \subseteq apps', Changed(h)
  PROVE  Sound(h)'
  <1> USE PresenceAssumption, RegistryAssumption
  <1>1. /\ Sound(h) /\ AgentsTyped /\ now \in Nat /\ hosts[h] \in HostRow
        /\ Mode(h)' = Mode(h) /\ Running(h)' = Running(h)
        /\ Asking(h)' = Asking(h) /\ Beating(h)' = Beating(h)
    BY DEF PInv, Inv, TypeOK, Mode, Running, Asking, Beating
  <1>2. OnSchedule(h)'
    BY <1>1 DEF Sound, OnSchedule, Beat
  <1>3. Kept(h)'
    <2> SUFFICES ASSUME Mode(h) = "busy" PROVE Registered(h)' /\ \E row \in apps' : row.host = h
      BY DEF Kept, Mode
    <2>1. Registered(h) /\ \E row \in apps : row.host = h
      BY <1>1 DEF Sound, Kept
    <2>2. Registered(h)'
      BY <2>1 DEF Changed, Deletable, Registered, Online
    <2> QED BY <2>1, <2>2
  <1>4. ASSUME h \in steady' PROVE Recent(h)'
    <2>1. /\ h \in steady /\ Online(h) /\ hosts[h].seen \in Nat
          /\ now <= hosts[h].seen + StaleAfter
      BY <1>4, SteadyIsFresh
    <2>2. Recent(h) /\ OnSchedule(h)
      BY <1>1, <2>1 DEF Sound
    <2>3. ~Deletable(h) /\ hosts[h].status # "unused"
          /\ ~\E t \in Nat : t <= now /\ Stale(h, t)
      BY <2>1, <1>1 DEF Deletable, Online, Stale, Never
    <2>4. /\ Reach(agent[h].lost)' = Reach(agent[h].lost)
          /\ Prompt(h)' = Prompt(h)
      BY DEF Reach, Prompt
    <2>5. CASE Online(h)' /\ hosts'[h].seen = hosts[h].seen
      <3>1. Base(h)' = Base(h)
        BY <2>5 DEF Base
      <3> QED BY <1>1, <2>2, <2>4, <2>5, <3>1 DEF Recent
    <2>6. CASE Online(h)' /\ hosts'[h].seen \in Nat /\ now <= hosts'[h].seen + Quick
      <3>1. /\ agent[h].lost \in 0 .. MaxLost /\ agent[h].due \in Nat
            /\ agent[h].since \in Nat
        BY <1>1, <2>2, AgentFields DEF Recent
      <3>2. Reach(agent[h].lost) \in Nat /\ Poll <= Reach(agent[h].lost)
        BY <3>1, ReachFacts
      <3> DEFINE base == hosts'[h].seen + Quick
      <3>3. base \in Nat /\ now <= base
        BY <2>6
      <3>4. agent[h].due <= now + Poll /\ (Asking(h) => agent[h].since <= now)
        BY <2>2 DEF OnSchedule, Recent
      <3>5. /\ agent[h].due <= base + Poll /\ agent[h].due <= base + Reach(agent[h].lost)
            /\ now <= base + Reach(agent[h].lost)
        BY <3>1, <3>2, <3>3, <3>4, <1>1
      <3>6. Asking(h) => /\ agent[h].since <= base /\ agent[h].since <= base + Quick
                         /\ agent[h].since <= base + Reach(agent[h].lost)
        BY <3>1, <3>2, <3>3, <3>4, <1>1
      <3>7. Base(h)' = base
        BY DEF Base
      <3> HIDE DEF base
      <3> QED BY <1>1, <2>2, <2>4, <2>6, <3>5, <3>6, <3>7 DEF Recent, Asking
    <2> QED BY <2>1, <2>3, <2>5, <2>6, <1>4 DEF Changed, Online
  <1> QED BY <1>2, <1>3, <1>4 DEF Sound

\* A step of anybody else touches one request, which no agent waits for, and
\* a row changes as Changed says.
LEMMA OthersChange ==
  ASSUME PInv, NEW r \in Requests, Others(r)
  PROVE  /\ now' = now /\ apps' = apps
         /\ \A q \in Requests \ {r} : request'[q] = request[q]
         /\ \A h \in Hosts : Changed(h)
  <1> USE PresenceAssumption, RegistryAssumption
  <1>1. /\ Inv /\ TypeOK
        /\ steady' = {h \in steady : ~Backdated(h)}
    BY DEF PInv, Inv, Others
  <1>2. ASSUME NEW step, NEW next, Take(r, step, next)
        PROVE  \A q \in Requests \ {r} : request'[q] = request[q]
    BY <1>1, <1>2 DEF Take, TypeOK
  <1>3. ASSUME NEW step, NEW next, step # "none", Mark(r, step, next)
        PROVE  /\ now' = now /\ apps' = apps
               /\ \A q \in Requests \ {r} : request'[q] = request[q]
               /\ \A h \in Hosts : Changed(h)
    <2>1. /\ Take(r, step, GoOn(r, next)) /\ now' = now /\ apps' = apps
          /\ request[r].stamp \in Nat /\ request[r].stamp <= now
      BY <1>1, <1>3, RequestFields DEF Mark, Take, Inv, Dated
    <2>2. \A h \in Hosts : Changed(h)
      BY <1>1, <1>3, <2>1 DEF Mark, Changed, Registered, Stale, Online, TypeOK, HostRow
    <2> QED BY <1>2, <2>1, <2>2
  <1>4. ASSUME NEW step, NEW next, Take(r, step, next), UNCHANGED <<hosts, apps, now>>
        PROVE  /\ now' = now /\ apps' = apps
               /\ \A q \in Requests \ {r} : request'[q] = request[q]
               /\ \A h \in Hosts : Changed(h)
    BY <1>2, <1>4 DEF Changed
  \* A heartbeat or a registration writes the row of one host.
  <1>5. ASSUME NEW g \in Hosts, NEW row, row.status = "online", row.seen \in Nat,
               hosts' = [hosts EXCEPT ![g] = row]
        PROVE  \A h \in Hosts : Changed(h)
    <2> SUFFICES ASSUME NEW h \in Hosts PROVE Changed(h)
      OBVIOUS
    <2>1. CASE h # g
      BY <1>1, <1>5, <2>1 DEF Changed, TypeOK
    <2>2. CASE h = g
      <3>1. hosts'[h] = row
        BY <1>1, <1>5, <2>2 DEF TypeOK
      <3>2. h \in steady' => hosts'[h].seen = hosts[h].seen \/ now <= hosts'[h].seen + Quick
        BY <1>1, <1>5, <3>1 DEF Backdated, TypeOK
      <3> QED BY <1>5, <3>1, <3>2 DEF Changed, Online
    <2> QED BY <2>1, <2>2
  <1>6. CASE Begin(r)
    BY <1>6, <1>4 DEF Begin, BeginList, BeginHeartbeat, BeginDeleteHost, BeginRegister,
                      BeginDeleteRepository
  <1>7. CASE ListHosts(r)
    BY <1>7, <1>3, <1>4 DEF ListHosts
  <1>8. CASE DeleteHost(r)
    <2>1. CASE Mark(r, "hostMark", "hostDrop")
      BY <2>1, <1>3
    <2>2. CASE DropHost(r)
      <3>1. /\ now' = now /\ apps' = apps
            /\ \A q \in Requests \ {r} : request'[q] = request[q]
        BY <2>2, <1>2 DEF DropHost
      <3>2. \A h \in Hosts : Changed(h)
        BY <2>2, <1>1 DEF DropHost, Changed, TypeOK
      <3> QED BY <3>1, <3>2
    <2> QED BY <1>8, <2>1, <2>2 DEF DeleteHost
  <1>9. CASE DeleteRepository(r)
    <2>1. CASE Mark(r, "repoMark", "repoOnline")
      BY <2>1, <1>3
    <2>2. CASE CountOnline(r) \/ CountApps(r) \/ DropRepository(r)
      BY <2>2, <1>4 DEF CountOnline, CountApps, DropRepository
    <2> QED BY <1>9, <2>1, <2>2 DEF DeleteRepository
  <1>10. CASE Heartbeat(r)
    <2> DEFINE g == request[r].host
    <2>1. /\ now' = now /\ apps' = apps
          /\ \A q \in Requests \ {r} : request'[q] = request[q]
      BY <1>10, <1>2 DEF Heartbeat
    <2>2. /\ g \in Hosts /\ Seen(g, request[r].stamp).status = "online"
          /\ Seen(g, request[r].stamp).seen = request[r].stamp /\ request[r].stamp \in Nat
      BY <1>1, <1>10, RequestFields DEF Heartbeat, Take, Seen, TypeOK, HostRow
    <2>3. hosts' = hosts \/ hosts' = [hosts EXCEPT ![g] = Seen(g, request[r].stamp)]
      BY <1>10 DEF Heartbeat
    <2>4. CASE hosts' = hosts
      BY <2>1, <2>4 DEF Changed
    <2>5. CASE hosts' = [hosts EXCEPT ![g] = Seen(g, request[r].stamp)]
      BY <2>1, <2>2, <2>5, <1>5
    <2> QED BY <2>3, <2>4, <2>5
  <1>11. CASE Register(r)
    <2> DEFINE g == request[r].host
               old == Seen(g, request[r].stamp)
               row == [old EXCEPT !.token = old.token + 1]
    <2>1. /\ now' = now /\ apps' = apps
          /\ \A q \in Requests \ {r} : request'[q] = request[q]
      BY <1>11, <1>2 DEF Register
    <2>2. /\ g \in Hosts /\ row.status = "online"
          /\ row.seen = request[r].stamp /\ request[r].stamp \in Nat
      BY <1>1, <1>11, RequestFields DEF Register, Take, Seen, TypeOK, HostRow
    <2>3. hosts' = hosts \/ hosts' = [hosts EXCEPT ![g] = row]
      BY <1>11 DEF Register
    <2>4. CASE hosts' = hosts
      BY <2>1, <2>4 DEF Changed
    <2>5. CASE hosts' = [hosts EXCEPT ![g] = row]
      <3> HIDE DEF row
      <3> QED BY <2>1, <2>2, <2>5, <1>5
    <2> QED BY <2>3, <2>4, <2>5
  <1>12. CASE Leave(r)
    BY <1>1, <1>12 DEF Leave, Changed, TypeOK
  <1> QED BY <1>6, <1>7, <1>8, <1>9, <1>10, <1>11, <1>12 DEF Others, Statement

\* Creating rows only adds some.
LEMMA CreateChanges ==
  ASSUME PInv, Create
  PROVE  /\ now' = now /\ request' = request /\ apps \subseteq apps'
         /\ \A h \in Hosts : Changed(h)
  BY DEF Create, CreateHost, CreateRepository, CreateApp, Changed, PInv, Inv, TypeOK

-----------------------------------------------------------------------------
(* Time and the agents.                                                    *)

\* Time passes for a steady host only while its ticker has not fired and its
\* request is prompt.
LEMMA TimeKeeps ==
  ASSUME PInv, PTick, agent' = agent, NEW h \in Hosts
  PROVE  Sound(h)'
  <1> USE PresenceAssumption, RegistryAssumption
  <1>1. /\ Sound(h) /\ AgentsTyped /\ now \in Nat
        /\ Mode(h)' = Mode(h) /\ Running(h)' = Running(h)
        /\ Asking(h)' = Asking(h) /\ Beating(h)' = Beating(h)
    BY DEF PInv, Inv, TypeOK, Mode, Running, Asking, Beating
  <1>2. /\ now' = now + 1 /\ UNCHANGED <<hosts, apps, request>>
        /\ h \in steady' => h \in steady /\ ~Overdue(h)
    BY DEF PTick, Tick
  <1>3. Running(h) => agent[h].due \in Nat /\ agent[h].since \in Nat
                      /\ agent[h].lost \in 0 .. MaxLost
    BY <1>1, AgentFields
  <1>4. OnSchedule(h)'
    BY <1>1, <1>2, <1>3 DEF Sound, OnSchedule, Beat, Asking, Running
  <1>5. Kept(h)'
    BY <1>1, <1>2 DEF Sound, Kept, Registered
  <1>6. ASSUME h \in steady' PROVE Recent(h)'
    <2>1. Recent(h) /\ ~Overdue(h) /\ Running(h)
      BY <1>1, <1>2, <1>6 DEF Sound, Recent
    <2>2. Base(h) \in Nat /\ Reach(agent[h].lost) \in Nat
      BY <2>1, <1>3, ReachFacts DEF Recent, Base
    <2>3. Base(h)' = Base(h) /\ Online(h)' = Online(h)
          /\ Reach(agent[h].lost)' = Reach(agent[h].lost)
      BY <1>2 DEF Base, Reach, Online
    <2>4. Mode(h) = "rest" => now + 1 <= Base(h) + Reach(agent[h].lost)
      BY <2>1, <2>2, <1>1, <1>3 DEF Recent, Overdue
    <2>5. Asking(h) => Prompt(h)'
      BY <2>1, <1>1, <1>2, <1>3 DEF Overdue, Prompt
    <2> QED BY <2>1, <2>3, <2>4, <2>5, <1>1, <1>2 DEF Recent
  <1> QED BY <1>4, <1>5, <1>6 DEF Sound

\* The agent of h writes to the row of h and to a request of its own.
LEMMA AgentTouches ==
  ASSUME PInv, NEW h \in Hosts, AgentStep(h), NEW g \in Hosts, g # h
  PROVE  Sound(g)'
  <1>1. Inv /\ TypeOK /\ AgentsTyped /\ Sound(g) /\ Sound(h)
    BY DEF PInv, Inv
  <1>2. agent'[g] = agent[g] /\ (g \in steady' => g \in steady)
    BY <1>1 DEF AgentsTyped, AgentStep, Start, Fire, Arrive, Written, Answered, BeatFails,
                Polled, Finish, Stop, Become
  <1>3. /\ now' = now /\ apps' = apps /\ hosts'[g] = hosts[g]
        /\ \A q \in Requests :
             Step(q) = "heartbeat" /\ request[q].host # h => request'[q] = request[q]
    <2>1. \A r \in Requests : BeginHeartbeat(r, h) =>
            /\ now' = now /\ apps' = apps /\ hosts' = hosts
            /\ Step(r) = "none" /\ \A q \in Requests \ {r} : request'[q] = request[q]
      BY <1>1 DEF BeginHeartbeat, Take, TypeOK
    <2>2. Mode(h) = "beat" => agent[h].slot \in Requests /\ Beat(h).host = h
      BY <1>1 DEF Sound, OnSchedule
    <2>3. \A r \in Requests : Heartbeat(r) /\ request[r].host = h =>
            /\ now' = now /\ apps' = apps /\ hosts'[g] = hosts[g]
            /\ \A q \in Requests \ {r} : request'[q] = request[q]
      BY <1>1 DEF Heartbeat, Take, TypeOK
    <2>4. \/ \E r \in Requests : BeginHeartbeat(r, h)
          \/ Mode(h) = "beat" /\ Heartbeat(agent[h].slot)
          \/ UNCHANGED vars
      BY DEF AgentStep, Start, Fire, Arrive, Written, Answered, BeatFails, Polled, Finish, Stop
    <2>5. CASE \E r \in Requests : BeginHeartbeat(r, h)
      BY <2>1, <2>5
    <2>6. CASE Mode(h) = "beat" /\ Heartbeat(agent[h].slot)
      BY <2>2, <2>3, <2>6 DEF Beat
    <2>7. CASE UNCHANGED vars
      BY <2>7 DEF vars
    <2> QED BY <2>4, <2>5, <2>6, <2>7
  <1>4. Mode(g) = "beat" => request'[agent[g].slot] = request[agent[g].slot]
    BY <1>1, <1>3 DEF Sound, OnSchedule, Beat, Step
  <1> QED BY <1>2, <1>3, <1>4, OthersKeep DEF Changed

\* What the agent of h does keeps its schedule and what it knows of its host.
LEMMA AgentKeeps ==
  ASSUME PInv, NEW h \in Hosts, AgentStep(h)
  PROVE  AgentsTyped' /\ Sound(h)'
  <1> USE PresenceAssumption, RegistryAssumption
  <1>1. /\ Inv /\ TypeOK /\ AgentsTyped /\ Sound(h) /\ OnSchedule(h)
        /\ now \in Nat /\ hosts[h] \in HostRow
        /\ h \in steady => Recent(h)
    BY DEF PInv, Inv, TypeOK, Sound
  <1>2. Running(h) =>
          /\ agent[h] \in Active
          /\ agent[h].due \in Nat /\ agent[h].since \in Nat /\ agent[h].lost \in 0 .. MaxLost
          /\ Reach(agent[h].lost) \in Nat /\ Poll <= Reach(agent[h].lost)
    BY <1>1, AgentFields, ReachFacts
  <1>3. ASSUME NEW a, a \in Active \/ a = Off, Become(h, a), steady' \subseteq steady \cup {h}
        PROVE  AgentsTyped' /\ agent'[h] = a
    <2>1. a \in Agent
      BY <1>3 DEF Active, Agent
    <2> QED BY <1>1, <1>3, <2>1 DEF AgentsTyped, Become
  <1>4. ASSUME Running(h), NEW mode \in {"rest", "busy"}
        PROVE  /\ Goes(h, mode) \in Active
               /\ Goes(h, mode).mode = mode
               /\ Goes(h, mode).due = agent[h].due /\ Goes(h, mode).lost = agent[h].lost
    BY <1>2, <1>4 DEF Goes, Active
  <1>5. CASE Start(h)
    <2> DEFINE a == [mode |-> "sent", due |-> now + Poll, since |-> now, slot |-> NoSlot,
                     lost |-> 0]
    <2>1. a \in Active /\ Become(h, a) /\ UNCHANGED <<vars, steady>>
      BY <1>1, <1>5 DEF Start, Active
    <2>2. AgentsTyped' /\ agent'[h] = a
      BY <2>1, <1>3
    <2>3. h \notin steady /\ h \notin steady'
      BY <1>1, <1>5, <2>1 DEF Start, Recent, Running
    <2>4. now' = now
      BY <2>1 DEF vars
    <2> QED BY <1>1, <2>2, <2>3, <2>4
            DEF Sound, OnSchedule, Kept, Running, Asking, Beating, Mode
  <1>6. CASE Fire(h)
    <2> DEFINE a == Sends(h, Following(agent[h].due))
    <2>1. /\ Mode(h) = "rest" /\ Running(h) /\ agent[h].due <= now
          /\ Become(h, a) /\ UNCHANGED <<vars, steady>>
      BY <1>1, <1>2, <1>6 DEF Fire, Mode, Running
    <2>2. Following(agent[h].due) \in now + 1 .. now + Poll
      BY <1>1, <1>2, <2>1, FollowingIsNext
    <2>3. /\ a \in Active /\ a.mode = "sent" /\ a.due = Following(agent[h].due)
          /\ a.since = now /\ a.lost = agent[h].lost
      <3>1. agent[h] \in Active /\ Following(agent[h].due) \in Nat
        BY <1>1, <1>2, <2>1, <2>2
      <3>2. a \in Active
        BY <1>1, <3>1 DEF Sends, Active
      <3> QED BY <3>1, <3>2 DEF Sends, Active
    <2>4. AgentsTyped' /\ agent'[h] = a
      BY <2>1, <2>3, <1>3
    <2>5. now' = now /\ hosts' = hosts
      BY <2>1 DEF vars
    <2> HIDE DEF a
    <2>6. OnSchedule(h)'
      BY <1>1, <2>2, <2>3, <2>4, <2>5 DEF OnSchedule, Running, Asking, Beating, Mode
    <2>7. ASSUME h \in steady' PROVE Recent(h)'
      <3>1. Recent(h)
        BY <1>1, <2>1, <2>7
      <3>2. Base(h)' = Base(h) /\ Reach(agent[h].lost)' = Reach(agent[h].lost)
        BY <2>3, <2>4, <2>5 DEF Base, Reach
      <3>3. now <= Base(h) + Reach(agent[h].lost)
        BY <2>1, <3>1 DEF Recent
      <3>4. Prompt(h)'
        BY <1>1, <2>3, <2>4, <2>5 DEF Prompt
      <3> QED BY <2>3, <2>4, <2>5, <3>1, <3>2, <3>3, <3>4
              DEF Recent, Online, Mode, Running, Asking
    <2> QED BY <2>3, <2>4, <2>6, <2>7 DEF Sound, Kept, Mode
  <1>7. CASE Arrive(h)
    <2>1. PICK r \in Requests : /\ BeginHeartbeat(r, h)
                                /\ Become(h, [agent[h] EXCEPT !.mode = "beat", !.slot = r])
      BY <1>7 DEF Arrive
    <2> DEFINE a == [agent[h] EXCEPT !.mode = "beat", !.slot = r]
    <2>2. Mode(h) = "sent" /\ Running(h) /\ Become(h, a) /\ steady' = steady
      BY <1>7, <2>1 DEF Arrive, Mode, Running
    <2>3. /\ a \in Active /\ a.mode = "beat" /\ a.slot = r /\ a.due = agent[h].due
          /\ a.since = agent[h].since /\ a.lost = agent[h].lost
      BY <1>2, <2>2 DEF Active
    <2>4. AgentsTyped' /\ agent'[h] = a
      BY <2>2, <2>3, <1>3
    <2>5. /\ request'[r] = [step |-> "heartbeat", host |-> h, stamp |-> now]
          /\ hosts' = hosts /\ now' = now
      BY <1>1, <2>1 DEF BeginHeartbeat, Take, TypeOK
    <2> HIDE DEF a
    <2>6. OnSchedule(h)'
      <3>1. Beat(h)' = [step |-> "heartbeat", host |-> h, stamp |-> now]
        BY <2>3, <2>4, <2>5 DEF Beat
      <3> QED BY <1>1, <2>2, <2>3, <2>4, <2>5, <3>1
              DEF OnSchedule, Running, Asking, Beating, Mode
    <2>7. ASSUME h \in steady' PROVE Recent(h)'
      <3>1. Recent(h)
        BY <1>1, <2>2, <2>7
      <3>2. /\ Base(h)' = Base(h) /\ Reach(agent[h].lost)' = Reach(agent[h].lost)
            /\ Prompt(h)' = Prompt(h)
        BY <2>3, <2>4, <2>5 DEF Base, Reach, Prompt
      <3> QED BY <2>2, <2>3, <2>4, <2>5, <3>1, <3>2
              DEF Recent, Online, Mode, Running, Asking
    <2> QED BY <2>3, <2>4, <2>6, <2>7 DEF Sound, Kept, Mode
  <1>8. CASE Written(h)
    <2> DEFINE a == [agent[h] EXCEPT !.mode = "told", !.slot = NoSlot]
    <2>1. /\ Mode(h) = "beat" /\ Running(h) /\ Heartbeat(agent[h].slot) /\ Become(h, a)
          /\ steady' = IF Registered(h) /\ Prompt(h) THEN steady \cup {h} ELSE steady
      BY <1>8 DEF Written, Mode, Running
    <2>2. /\ agent[h].slot \in Requests /\ Beat(h).step = "heartbeat" /\ Beat(h).host = h
          /\ agent[h].since <= Beat(h).stamp
      BY <1>1, <2>1 DEF OnSchedule
    <2>3. Beat(h).stamp \in Nat /\ Beat(h).stamp <= now
      BY <1>1, <2>2, RequestFields DEF Inv, Dated, Step, Beat
    <2>4. /\ a \in Active /\ a.mode = "told" /\ a.since = agent[h].since
          /\ a.due = agent[h].due /\ a.lost = agent[h].lost
      BY <1>2, <2>1 DEF Active
    <2>5. AgentsTyped' /\ agent'[h] = a
      BY <2>1, <2>4, <1>3
    <2>6. now' = now /\ (Registered(h) => hosts'[h] = Seen(h, Beat(h).stamp))
      BY <1>1, <2>1, <2>2 DEF Heartbeat, Beat, TypeOK
    <2> HIDE DEF a
    <2>7. OnSchedule(h)'
      BY <1>1, <2>1, <2>4, <2>5, <2>6 DEF OnSchedule, Running, Asking, Beating, Mode
    <2>8. ASSUME h \in steady' PROVE Recent(h)'
      <3>1. Registered(h) /\ Prompt(h)
        BY <1>1, <2>1, <2>8 DEF Recent, Registered, Online, Asking
      <3>2. hosts'[h].status = "online" /\ hosts'[h].seen = Beat(h).stamp
        BY <1>1, <2>6, <3>1 DEF Seen, HostRow
      <3>3. agent[h].since <= Base(h)'
        BY <1>2, <2>1, <2>2, <2>3, <3>2 DEF Base
      <3>4. Prompt(h)'
        BY <2>4, <2>5, <2>6, <3>1 DEF Prompt
      <3> QED BY <2>3, <2>4, <2>5, <3>2, <3>3, <3>4 DEF Recent, Online, Mode, Running
    <2> QED BY <2>4, <2>5, <2>7, <2>8 DEF Sound, Kept, Mode
  <1>9. CASE Answered(h)
    <2> DEFINE a == [agent[h] EXCEPT !.mode = "poll", !.since = now, !.lost = 0]
    <2>1. /\ Mode(h) = "told" /\ Running(h) /\ Become(h, a) /\ UNCHANGED <<vars, steady>>
      BY <1>9 DEF Answered, Mode, Running
    <2>2. /\ a \in Active /\ a.mode = "poll" /\ a.since = now /\ a.lost = 0
          /\ a.due = agent[h].due
      <3>1. agent[h] \in Active /\ 0 \in 0 .. MaxLost
        BY <1>2, <2>1
      <3>2. a \in Active
        BY <1>1, <3>1 DEF Active
      <3> QED BY <1>1, <3>1, <3>2 DEF Active
    <2>3. AgentsTyped' /\ agent'[h] = a
      BY <2>1, <2>2, <1>3
    <2>4. now' = now /\ hosts' = hosts
      BY <2>1 DEF vars
    <2> HIDE DEF a
    <2>5. OnSchedule(h)'
      BY <1>1, <2>1, <2>2, <2>3, <2>4 DEF OnSchedule, Running, Asking, Beating, Mode
    <2>6. ASSUME h \in steady' PROVE Recent(h)'
      <3>1. Recent(h) /\ Prompt(h) /\ hosts[h].seen \in Nat
        BY <1>1, <2>1, <2>6 DEF Recent, Asking
      <3>2. Base(h)' = Base(h) /\ Base(h) \in Nat
        BY <2>4, <3>1 DEF Base
      <3>3. agent[h].since <= Base(h) /\ agent[h].due <= agent[h].since + Poll
        BY <1>1, <2>1, <3>1 DEF Recent, OnSchedule, Beating
      <3>4. now <= Base(h) + Quick /\ agent[h].due <= Base(h) + Poll
        BY <1>1, <1>2, <2>1, <3>1, <3>2, <3>3 DEF Prompt
      <3>5. Prompt(h)'
        BY <1>1, <2>2, <2>3, <2>4 DEF Prompt
      <3> QED BY <2>2, <2>3, <2>4, <3>1, <3>2, <3>4, <3>5 DEF Recent, Online, Mode, Running
    <2> QED BY <2>2, <2>3, <2>5, <2>6 DEF Sound, Kept, Mode
  \* An agent that rests keeps to its schedule.
  <1>10. ASSUME Running(h), NEW a \in Active, a.mode = "rest", a.due = agent[h].due,
                Become(h, a), steady' \subseteq steady, UNCHANGED vars,
                h \in steady' => /\ now <= Base(h) + Reach(a.lost)
                                 /\ agent[h].due <= Base(h) + Reach(a.lost)
         PROVE  AgentsTyped' /\ Sound(h)'
    <2>1. AgentsTyped' /\ agent'[h] = a
      BY <1>3, <1>10
    <2>2. now' = now /\ hosts' = hosts
      BY <1>10 DEF vars
    <2>3. OnSchedule(h)'
      BY <1>1, <1>10, <2>1, <2>2 DEF OnSchedule, Running, Asking, Beating, Mode
    <2>4. ASSUME h \in steady' PROVE Recent(h)'
      <3>1. Recent(h)
        BY <1>1, <1>10, <2>4
      <3>2. Base(h)' = Base(h) /\ Reach(agent[h].lost)' = Reach(a.lost)
        BY <2>1, <2>2 DEF Base, Reach
      <3> QED BY <1>10, <2>1, <2>2, <2>4, <3>1, <3>2
              DEF Recent, Online, Mode, Running, Asking
    <2> QED BY <1>10, <2>1, <2>3, <2>4 DEF Sound, Kept, Mode
  <1>11. CASE BeatFails(h)
    <2>1. Beating(h) /\ Running(h) /\ UNCHANGED vars
      BY <1>11 DEF BeatFails, Beating, Mode, Running
    <2>2. CASE /\ agent[h].lost < MaxLost
               /\ Become(h, [Goes(h, "rest") EXCEPT !.lost = @ + 1])
               /\ steady' = steady
      <3> DEFINE a == [Goes(h, "rest") EXCEPT !.lost = @ + 1]
      <3>1. /\ a \in Active /\ a.mode = "rest" /\ a.due = agent[h].due
            /\ a.lost = agent[h].lost + 1
        <4>1. agent[h].lost + 1 \in 0 .. MaxLost
          BY <1>2, <2>1, <2>2
        <4> QED BY <1>4, <2>1, <4>1 DEF Active
      <3>2. Become(h, a)
        BY <2>2
      <3> HIDE DEF a
      <3>3. ASSUME h \in steady'
            PROVE  /\ now <= Base(h) + Reach(a.lost)
                   /\ agent[h].due <= Base(h) + Reach(a.lost)
        <4>1. Recent(h) /\ Prompt(h) /\ hosts[h].seen \in Nat
          BY <1>1, <2>1, <2>2, <3>3 DEF Recent, Asking, Beating
        <4>2. Base(h) \in Nat /\ Reach(a.lost) = Reach(agent[h].lost) + Poll
          BY <1>2, <2>1, <3>1, <4>1, ReachFacts DEF Base
        <4>3. /\ agent[h].since <= Base(h) + Reach(agent[h].lost)
              /\ agent[h].due <= agent[h].since + Poll
          BY <1>1, <1>2, <2>1, <4>1, <4>2 DEF Recent, OnSchedule, Beating
        <4> QED BY <1>1, <1>2, <2>1, <4>1, <4>2, <4>3 DEF Prompt
      <3> QED BY <1>10, <2>1, <2>2, <3>1, <3>2, <3>3
    <2>3. CASE Become(h, Goes(h, "rest")) /\ steady' = steady \ {h}
      <3>1. h \notin steady' /\ steady' \subseteq steady
        BY <2>3
      <3> QED BY <1>4, <1>10, <2>1, <2>3, <3>1
    <2> QED BY <1>11, <2>2, <2>3 DEF BeatFails
  <1>12. CASE Polled(h)
    <2>1. Mode(h) = "poll" /\ Running(h) /\ UNCHANGED vars
      BY <1>12 DEF Polled, Mode, Running
    <2>2. CASE Become(h, Goes(h, "rest")) /\ steady' = steady
      <3>1. ASSUME h \in steady'
            PROVE  /\ now <= Base(h) + Reach(agent[h].lost)
                   /\ agent[h].due <= Base(h) + Reach(agent[h].lost)
        <4>1. Recent(h) /\ Prompt(h) /\ hosts[h].seen \in Nat
          BY <1>1, <2>1, <2>2, <3>1 DEF Recent, Asking
        <4>2. /\ Base(h) \in Nat /\ agent[h].since <= Base(h) + Quick
              /\ agent[h].due <= Base(h) + Poll
          BY <2>1, <4>1 DEF Recent, Base
        <4> QED BY <1>1, <1>2, <2>1, <4>1, <4>2 DEF Prompt
      <3> QED BY <1>4, <1>10, <2>1, <2>2, <3>1
    <2>3. CASE /\ \E row \in apps : row.host = h
               /\ Become(h, Goes(h, "busy")) /\ steady' = steady \ {h}
      <3>1. Registered(h)
        BY <1>1, <2>3 DEF Inv, ReferencesHold
      <3>2. AgentsTyped' /\ agent'[h] = Goes(h, "busy")
        BY <1>3, <1>4, <2>1, <2>3
      <3>3. /\ agent'[h].mode = "busy" /\ agent'[h].due = agent[h].due
            /\ h \notin steady' /\ now' = now /\ hosts' = hosts /\ apps' = apps
        BY <1>4, <2>1, <2>3, <3>2 DEF vars
      <3> QED BY <1>1, <2>1, <2>3, <3>1, <3>2, <3>3
              DEF Sound, OnSchedule, Kept, Registered, Running, Asking, Beating, Mode
    <2> QED BY <1>12, <2>2, <2>3 DEF Polled
  <1>13. CASE Finish(h)
    <2>1. Mode(h) = "busy" /\ Running(h) /\ UNCHANGED <<vars, steady>>
          /\ Become(h, Goes(h, "rest"))
      BY <1>13 DEF Finish, Mode, Running
    <2>2. h \notin steady /\ h \notin steady' /\ steady' \subseteq steady
      BY <1>1, <2>1 DEF Recent
    <2> QED BY <1>4, <1>10, <2>1, <2>2
  <1>14. CASE Stop(h)
    <2>1. AgentsTyped' /\ agent'[h] = Off /\ h \notin steady'
      BY <1>3, <1>14 DEF Stop
    <2> QED BY <2>1 DEF Sound, OnSchedule, Kept, Running, Asking, Beating, Mode, Off
  <1> QED BY <1>5, <1>6, <1>7, <1>8, <1>9, <1>11, <1>12, <1>13, <1>14 DEF AgentStep

-----------------------------------------------------------------------------

\* In the initial state no agent runs.
LEMMA PInitInv == PInit => PInv
  <1> SUFFICES ASSUME PInit PROVE PInv
    OBVIOUS
  <1>1. Inv
    BY InitInv DEF PInit
  <1>2. AgentsTyped /\ steady = {} /\ \A h \in Hosts : agent[h] = Off
    BY DEF PInit, AgentsTyped, Agent
  <1> QED BY <1>1, <1>2 DEF PInv, Sound, OnSchedule, Kept, Running, Asking, Beating, Mode, Off

\* The invariant is inductive.
LEMMA PNextKeeps == ASSUME PInv, [PNext]_pvars PROVE PInv'
  <1>1. Inv'
    BY StepIsRegistrys, NextKeeps DEF PInv
  <1>2. ASSUME NEW h \in Hosts, AgentStep(h)
        PROVE  AgentsTyped' /\ \A g \in Hosts : Sound(g)'
    BY <1>2, AgentKeeps, AgentTouches
  <1>3. CASE Create /\ UNCHANGED <<agent, steady>>
    <2>1. \A h \in Hosts : Sound(h)'
      BY <1>3, CreateChanges, OthersKeep
    <2>2. AgentsTyped'
      BY <1>3 DEF PInv, AgentsTyped
    <2> QED BY <1>1, <2>1, <2>2 DEF PInv
  <1>4. CASE PTick /\ UNCHANGED agent
    <2>1. \A h \in Hosts : Sound(h)'
      BY <1>4, TimeKeeps
    <2>2. AgentsTyped'
      BY <1>4 DEF PInv, AgentsTyped, PTick
    <2> QED BY <1>1, <2>1, <2>2 DEF PInv
  <1>5. ASSUME NEW r \in Requests, Others(r), UNCHANGED agent
        PROVE  AgentsTyped' /\ \A g \in Hosts : Sound(g)'
    <2>1. \A h \in Hosts : Mode(h) = "beat" => agent[h].slot \in Requests \ {r}
      BY <1>5 DEF PInv, Sound, OnSchedule, Others, Owned
    <2>2. steady' \subseteq steady
      BY <1>5 DEF Others
    <2>3. \A h \in Hosts : Sound(h)'
      BY <1>5, <2>1, <2>2, OthersChange, OthersKeep
    <2> QED BY <1>5, <2>2, <2>3 DEF PInv, AgentsTyped
  <1>6. CASE UNCHANGED pvars
    <2>1. /\ agent' = agent /\ steady' = steady /\ now' = now /\ request' = request
          /\ apps' = apps /\ hosts' = hosts
      BY <1>6 DEF pvars, vars
    <2>2. \A h \in Hosts : Sound(h)'
      BY <2>1, OthersKeep DEF Changed
    <2>3. AgentsTyped'
      BY <2>1 DEF PInv, AgentsTyped
    <2> QED BY <1>1, <2>2, <2>3 DEF PInv
  <1> QED BY <1>1, <1>2, <1>3, <1>4, <1>5, <1>6 DEF PNext, PInv

\* The inductive invariant of the agents in time.
THEOREM PresenceInvariant == PSpec => []PInv
  BY PInitInv, PNextKeeps, PTL DEF PSpec

\* The agents' loop, its ticker and its timeouts implement the registry: what
\* is proved of Registry holds with agents that behave as runAgent and tick do.
THEOREM PresenceIsRegistry == PSpec => Spec
  <1>1. PInit => Init
    BY DEF PInit
  <1>2. PInv /\ [PNext]_pvars => [Next]_vars
    BY StepIsRegistrys
  <1> QED BY <1>1, <1>2, PresenceInvariant, PTL DEF PSpec, Spec

\* The type invariant of the registry and its agents.
THEOREM PresenceTypes == PSpec => []PTypeOK
  <1>1. PInv => PTypeOK
    BY DEF PInv, Inv, AgentsTyped, PTypeOK
  <1> QED BY <1>1, PresenceInvariant, PTL

\* A host whose idle agent keeps to time (heartbeats every PollInterval, no
\* more than MaxLost in a row lost, no request longer than Quick, nothing older
\* written by anybody else) is online for every listing and every deletion:
\* markStaleHostsOffline allows hostHeartbeatStaleAfter.
THEOREM IdleAgentsOnline == PSpec => []IdleIsOnline
  <1>1. PInv => IdleIsOnline
    BY SteadyIsFresh DEF IdleIsOnline, PInv, AgentsTyped
  <1> QED BY <1>1, PresenceInvariant, PTL

\* DeleteHost never takes away the host of an agent that executes a job.
THEOREM BusyHostsKept == PSpec => []BusyIsKept
  <1>1. PInv => BusyIsKept
    BY DEF PInv, Sound, Kept, BusyIsKept
  <1> QED BY <1>1, PresenceInvariant, PTL

\* References between rows hold with the agents running.
THEOREM PresenceReferences == PSpec => []ReferencesHold
  BY PresenceIsRegistry, NoDanglingApp, PTL

=============================================================================
