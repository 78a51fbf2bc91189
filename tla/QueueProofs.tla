---------------------------- MODULE QueueProofs ----------------------------
(***************************************************************************)
(* First come, first served, and times in order, for every number of jobs, *)
(* users and faults and without a bound on time.                           *)
(*                                                                         *)
(* The invariant has three parts.  UserInv is about rows and the requests  *)
(* that create them: what was answered before a job was requested has the  *)
(* smaller created_at.  UpdateInv is about the updates under way: a job's  *)
(* end was dated after every start of it that may still be written, unless *)
(* a start was taken up after the agent gave up on it.                     *)
(* ListInv is about the agent: a job that is in hand or was executed has   *)
(* left no earlier one behind that may still be executed, but those whose  *)
(* start request failed.                                                   *)
(***************************************************************************)
EXTENDS Queue, FiniteSetTheorems, TLAPS

\* The jobs in what is left of the listing.
Rest == {agent.rest[i] : i \in DOMAIN agent.rest}

Starting(j) == agent.call.step = "start" /\ agent.call.update.job = j

\* The job may still be executed.
Open(j) == job[j].status \in Waiting \/ j \in Rest \/ Starting(j)

\* The update u is under way.
Awaits(u) ==
  \/ \E l \in late : l.update = u
  \/ Asks /\ agent.call.update = u
  \/ \E v \in Users : user[v].step = "cancel" /\ user[v].update = u

Ends == {"success", "failed"}

\* Rows and their creation.
Rows ==
  /\ IsFiniteSet({j \in Jobs : Exists(j)})
  /\ \A j \in Jobs : Exists(j) => job[j].created # Never /\ job[j].created <= now

Creations ==
  \A u \in Users : user[u].step = "create" =>
    /\ ~Exists(user[u].job) /\ user[u].row.created <= now
    /\ \A v \in Users \ {u} : user[v].step = "create" => user[v].job # user[u].job
    /\ \A b \in after[user[u].job] : job[b].created < user[u].row.created

Before ==
  \A a \in Jobs : \A b \in after[a] :
    Exists(b) /\ (Exists(a) => job[b].created < job[a].created)

UserInv == Rows /\ Creations /\ Before

\* The times of rows and of the updates under way.
Sent ==
  \A u \in Update : Awaits(u) =>
    Exists(u.job) /\ u.stamp <= now /\ (u.stamp # Never => job[u.job].created <= u.stamp)

Starts ==
  \A j \in Executed :
    /\ job[j].status \notin Waiting \cup {"none"} /\ job[j].started # Never
    /\ job[j].created <= job[j].started /\ job[j].started <= now

EndsLast ==
  \A u \in Update : Awaits(u) /\ u.status \in Ends =>
    /\ u.job \in Executed
    /\ u.stamp # Never /\ u.job \notin overdue =>
         /\ job[u.job].started <= u.stamp
         /\ \A v \in Update :
              Awaits(v) /\ v.job = u.job /\ v.status = "running" => v.stamp <= u.stamp

Ended ==
  \A j \in Executed \ overdue : job[j].status \in Ends => job[j].started <= job[j].finished

InHand ==
  /\ agent.call.step = "start" => agent.call.update.status = "running"
  /\ agent.call.step = "report" => agent.call.update.status \in Ends
  /\ agent.call.step = "execute" => agent.call.job \in Executed
  /\ agent.call.step = "report" => agent.call.update.job \in Executed
  /\ \A v \in Users : user[v].step = "cancel" =>
       user[v].update.status = "canceled" /\ user[v].update.stamp # Never

UpdateInv == Sent /\ Starts /\ EndsLast /\ Ended /\ InHand

\* The order of the listing, and of what is executed.
Listed ==
  /\ \A i \in DOMAIN agent.rest : Exists(agent.rest[i]) /\ ~Starting(agent.rest[i])
  /\ \A i, k \in DOMAIN agent.rest : i < k =>
       agent.rest[i] # agent.rest[k] /\ job[agent.rest[i]].created <= job[agent.rest[k]].created

RanClosed == \A j \in Executed : ~Open(j)

Turn ==
  \A a \in Jobs : a \in Executed \/ Starting(a) =>
    \A b \in after[a] : Open(b) => b \in skipped

NextTurn ==
  \A a \in Rest : \A b \in after[a] :
    Open(b) => b \in skipped \/ b \in Rest \/ Starting(b)

ListInv == Listed /\ RanClosed /\ Turn /\ NextTurn /\ InOrder

QueueInv == TypeOK /\ UserInv /\ UpdateInv /\ ListInv

-----------------------------------------------------------------------------
(* Forms.                                                                  *)

LEMMA AgentForms ==
  ASSUME TypeOK
  PROVE  /\ agent.rest \in Seq(Jobs)
         /\ Asks => agent.call.update \in Update
         /\ agent.call.step = "execute" => agent.call.job \in Jobs
         /\ agent.call.step \in {"none", "start", "report", "execute"}
         /\ Rest \subseteq Jobs
  BY DEF TypeOK, Asks, Rest, Idle

LEMMA UserForms ==
  ASSUME TypeOK, NEW u \in Users
  PROVE  /\ user[u].step = "create" => user[u].job \in Jobs /\ user[u].row \in NewRow
         /\ user[u].step = "create" => user[u].row.created \in Nat
         /\ user[u].step = "cancel" => user[u].update \in Update
         /\ user[u].step \in {"none", "create", "cancel"}
  BY DEF TypeOK, Idle, NewRow

LEMMA RanTyped ==
  ASSUME TypeOK
  PROVE  Executed \subseteq Jobs
  BY DEF TypeOK, Executed

LEMMA RowForms ==
  ASSUME TypeOK, NEW j \in Jobs
  PROVE  /\ job[j] \in Row /\ job[j].status \in Statuses \cup {"none"}
         /\ Exists(j) => job[j] \in NewRow
         /\ job[j].created \in Int /\ job[j].started \in Int /\ job[j].finished \in Int
         /\ job[j].created # Never => job[j].created \in Nat
  BY DEF TypeOK, Row, NewRow, NoRow, Time, Never, Exists

(* What the statement of an update does.                                   *)
LEMMA ExecuteMoves ==
  ASSUME TypeOK, NEW u \in Update, Execute(u), Exists(u.job), u.stamp # Never
  PROVE  /\ job' \in [Jobs -> Row]
         /\ \A j \in Jobs \ {u.job} : job'[j] = job[j]
         /\ job'[u.job].status = u.status
         /\ job'[u.job].created = job[u.job].created
         /\ job'[u.job].started = IF u.status = "running" THEN u.stamp ELSE job[u.job].started
         /\ job'[u.job].finished = IF u.status \in Finished THEN u.stamp ELSE job[u.job].finished
<1>. DEFINE row == job[u.job]
            a == [row EXCEPT !.status = u.status]
            b == [a EXCEPT !.started = IF u.status = "running" THEN u.stamp ELSE @]
            c == [b EXCEPT !.finished = IF u.status \in Finished THEN u.stamp ELSE @]
<1>1. u.job \in Jobs /\ row \in NewRow /\ u.status \in Statuses /\ u.stamp \in Nat
  BY RowForms DEF Update, Statuses, Finished, Time
<1>2. a \in NewRow /\ a.status = u.status /\ a.created = row.created /\ a.started = row.started
      /\ a.finished = row.finished
  BY <1>1 DEF NewRow
<1>3. b \in NewRow /\ b.status = u.status /\ b.created = row.created /\ b.finished = row.finished
      /\ b.started = IF u.status = "running" THEN u.stamp ELSE row.started
  <2>. HIDE DEF a
  <2>. QED BY <1>1, <1>2 DEF NewRow, Time
<1>4. c \in NewRow /\ c.status = u.status /\ c.created = row.created /\ c.started = b.started
      /\ c.finished = IF u.status \in Finished THEN u.stamp ELSE row.finished
  <2>. HIDE DEF b
  <2>. QED BY <1>1, <1>3 DEF NewRow, Time
<1>5. job' = [job EXCEPT ![u.job] = c]
  BY DEF Execute, Dated
<1>. HIDE DEF c
<1>. QED BY <1>1, <1>3, <1>4, <1>5 DEF TypeOK, Row

-----------------------------------------------------------------------------
(* What keeps each part of the invariant.                                  *)

\* A row that is there keeps its created_at and is not pending again.
RowKept(j) ==
  /\ (Exists(j))' /\ job'[j].created = job[j].created
  /\ job'[j].status \in Waiting => job[j].status \in Waiting

RowsKept == \A j \in Jobs : Exists(j) => RowKept(j)

NoNewRow == \A j \in Jobs : (Exists(j))' => Exists(j)

LEMMA UserStays ==
  ASSUME TypeOK, TypeOK', UserInv, now <= now', RowsKept, NoNewRow, UNCHANGED after,
         \A u \in Users : user'[u].step = "create" => user'[u] = user[u]
  PROVE  UserInv'
<1>1. Rows'
  <2>1. {j \in Jobs : (Exists(j))'} = {j \in Jobs : Exists(j)}
    BY DEF RowsKept, NoNewRow, RowKept
  <2>2. ASSUME NEW j \in Jobs, (Exists(j))' PROVE job'[j].created # Never /\ job'[j].created <= now'
    <3>1. job[j].created # Never /\ job[j].created <= now /\ job'[j].created = job[j].created
      BY <2>2 DEF UserInv, Rows, RowsKept, NoNewRow, RowKept
    <3>2. job[j].created \in Int /\ now \in Int /\ now' \in Int
      BY RowForms DEF TypeOK
    <3>. QED BY <3>1, <3>2
  <2>. QED BY <2>1, <2>2 DEF UserInv, Rows
<1>2. Before'
  <2> SUFFICES ASSUME NEW a \in Jobs, NEW b \in after[a]
               PROVE  (Exists(b))' /\ ((Exists(a))' => job'[b].created < job'[a].created)
    BY DEF Before
  <2>1. b \in Jobs /\ Exists(b) /\ (Exists(a) => job[b].created < job[a].created)
    BY DEF TypeOK, UserInv, Before
  <2>. QED BY <2>1 DEF RowsKept, NoNewRow, RowKept
<1>3. Creations'
  <2> SUFFICES ASSUME NEW u \in Users, user'[u].step = "create"
               PROVE  /\ ~(Exists(user[u].job))' /\ user[u].row.created <= now'
                      /\ \A v \in Users \ {u} : user'[v].step = "create" => user'[v].job # user[u].job
                      /\ \A b \in after[user[u].job] : job'[b].created < user[u].row.created
    BY DEF Creations
  <2>1. user'[u] = user[u] /\ user[u].step = "create" /\ user[u].job \in Jobs /\ user[u].row.created \in Nat
    BY UserForms
  <2>2. user[u].row.created <= now'
    BY <2>1 DEF UserInv, Creations, TypeOK
  <2>3. \A v \in Users \ {u} : user'[v].step = "create" => user'[v].job # user[u].job
    BY <2>1 DEF UserInv, Creations
  <2>4. ASSUME NEW b \in after[user[u].job] PROVE job'[b].created < user[u].row.created
    <3>1. b \in Jobs /\ Exists(b)
      BY <2>1 DEF TypeOK, UserInv, Before
    <3>. QED BY <2>1, <3>1 DEF UserInv, Creations, RowsKept, RowKept
  <2>. QED BY <2>1, <2>2, <2>3, <2>4 DEF UserInv, Creations, NoNewRow
<1>. QED BY <1>1, <1>2, <1>3 DEF UserInv

(* No statement is executed and no update is begun.                        *)
LEMMA UpdateStays ==
  ASSUME TypeOK, TypeOK', UpdateInv, UNCHANGED <<job, order, overdue>>, now <= now', InHand',
         \A u \in Update : Awaits(u)' => Awaits(u)
  PROVE  UpdateInv'
<1>1. Executed' = Executed /\ Executed \subseteq Jobs /\ now \in Nat /\ now' \in Nat
  BY RanTyped DEF Executed, TypeOK
<1>2. Sent'
  <2> SUFFICES ASSUME NEW u \in Update, Awaits(u)'
               PROVE  /\ (Exists(u.job))' /\ u.stamp <= now'
                      /\ u.stamp # Never => job'[u.job].created <= u.stamp
    BY DEF Sent
  <2>1. u.stamp \in Int
    BY DEF Update, Time, Never
  <2>. QED BY <1>1, <2>1 DEF UpdateInv, Sent, Exists
<1>3. Starts'
  <2> SUFFICES ASSUME NEW j \in Executed PROVE job[j].started <= now'
    BY <1>1 DEF Starts, UpdateInv
  <2>. QED BY <1>1, RowForms DEF UpdateInv, Starts
<1>4. EndsLast'
  BY <1>1 DEF UpdateInv, EndsLast
<1>5. Ended'
  BY <1>1 DEF UpdateInv, Ended
<1>. QED BY <1>2, <1>3, <1>4, <1>5 DEF UpdateInv

(* An update is begun, or dated.                                           *)
LEMMA UpdateSent ==
  ASSUME TypeOK, TypeOK', Rows, UpdateInv, UNCHANGED <<job, order, now>>, InHand',
         overdue \subseteq overdue',
         NEW new \in Update, new.stamp \in {now, Never}, Exists(new.job),
         new.status \in Ends => new.job \in Executed,
         new.status = "running" =>
           new.stamp = Never \/ new.job \in overdue' \/ new.job \notin Executed,
         \A u \in Update : Awaits(u)' => Awaits(u) \/ u = new
  PROVE  UpdateInv'
<1>1. /\ Executed' = Executed /\ now \in Nat /\ new.job \in Jobs
      /\ job[new.job].created <= now /\ Never < 0
  BY DEF Executed, TypeOK, Rows, Update, Never
<1>2. Sent'
  <2> SUFFICES ASSUME NEW u \in Update, Awaits(u)'
               PROVE  /\ Exists(u.job) /\ u.stamp <= now
                      /\ u.stamp # Never => job[u.job].created <= u.stamp
    BY DEF Sent, Exists
  <2>. QED BY <1>1 DEF UpdateInv, Sent, Never
<1>3. Starts' /\ Ended'
  BY <1>1 DEF UpdateInv, Starts, Ended
<1>4. EndsLast'
  <2> SUFFICES ASSUME NEW u \in Update, Awaits(u)', u.status \in Ends
               PROVE  /\ u.job \in Executed
                      /\ u.stamp # Never /\ u.job \notin overdue' =>
                           /\ job[u.job].started <= u.stamp
                           /\ \A v \in Update :
                                Awaits(v)' /\ v.job = u.job /\ v.status = "running"
                                  => v.stamp <= u.stamp
    BY <1>1 DEF EndsLast
  <2>1. u.job \in Executed
    BY DEF UpdateInv, EndsLast
  <2> SUFFICES ASSUME u.stamp # Never, u.job \notin overdue'
               PROVE  /\ job[u.job].started <= u.stamp
                      /\ \A v \in Update :
                           Awaits(v)' /\ v.job = u.job /\ v.status = "running"
                             => v.stamp <= u.stamp
    BY <2>1
  <2>2. u.stamp \in Nat
    BY DEF Update, Time
  <2>3. CASE u = new
    <3>1. u.stamp = now
      BY <2>3
    <3>2. \A v \in Update : Awaits(v) => v.stamp <= now
      BY DEF UpdateInv, Sent
    <3>3. job[u.job].started <= now
      BY <2>1 DEF UpdateInv, Starts
    <3>. QED BY <1>1, <2>3, <3>1, <3>2, <3>3
  <2>4. CASE Awaits(u)
    <3>1. /\ job[u.job].started <= u.stamp
          /\ \A v \in Update :
               Awaits(v) /\ v.job = u.job /\ v.status = "running" => v.stamp <= u.stamp
      BY <2>4 DEF UpdateInv, EndsLast
    <3>2. new.job = u.job /\ new.status = "running" => new.stamp = Never
      BY <2>1
    <3>. QED BY <1>1, <2>2, <3>1, <3>2 DEF Never
  <2>. QED BY <2>3, <2>4
<1>. QED BY <1>2, <1>3, <1>4 DEF UpdateInv

(* An update is executed.                                                  *)
LEMMA UpdateExecuted ==
  ASSUME TypeOK, TypeOK', UpdateInv, UNCHANGED <<now, overdue>>, InHand',
         NEW u \in Update, Awaits(u), u.stamp # Never, Execute(u),
         Executed \subseteq Executed',
         \A j \in Executed' \ Executed : j = u.job /\ u.status = "running",
         \A v \in Update : Awaits(v)' => Awaits(v)
  PROVE  UpdateInv' /\ RowsKept /\ NoNewRow
<1>1. /\ u.job \in Jobs /\ u.status \in {"running", "success", "failed", "canceled"}
      /\ u.stamp \in Nat /\ u.stamp <= now
      /\ Exists(u.job) /\ job[u.job].created <= u.stamp
  BY DEF UpdateInv, Sent, Update, Finished, Time
<1>2. /\ \A j \in Jobs \ {u.job} : job'[j] = job[j]
      /\ job'[u.job].status = u.status
      /\ job'[u.job].created = job[u.job].created
      /\ job'[u.job].started = IF u.status = "running" THEN u.stamp ELSE job[u.job].started
      /\ job'[u.job].finished = IF u.status \in Finished THEN u.stamp ELSE job[u.job].finished
  BY <1>1, ExecuteMoves
<1>3. \A j \in Jobs : job'[j].created = job[j].created /\ ((Exists(j))' <=> Exists(j))
  BY <1>1, <1>2 DEF Exists
<1>4. RowsKept /\ NoNewRow
  BY <1>1, <1>2, <1>3 DEF RowsKept, NoNewRow, RowKept, Waiting
<1>5. Sent'
  BY <1>3 DEF UpdateInv, Sent, Update
<1>6. Starts'
  <2> SUFFICES ASSUME NEW j \in Executed'
               PROVE  /\ job'[j].status \notin Waiting \cup {"none"} /\ job'[j].started # Never
                      /\ job'[j].created <= job'[j].started /\ job'[j].started <= now
    BY DEF Starts
  <2>1. j \in Jobs /\ (j # u.job \/ u.status # "running" => j \in Executed)
    BY RanTyped, <1>1
  <2>2. CASE j = u.job /\ u.status = "running"
    BY <1>1, <1>2, <2>2 DEF Waiting
  <2>3. CASE j = u.job /\ u.status # "running"
    BY <1>1, <1>2, <2>1, <2>3 DEF Waiting, UpdateInv, Starts
  <2>4. CASE j # u.job
    BY <1>2, <2>1, <2>4 DEF UpdateInv, Starts
  <2>. QED BY <2>2, <2>3, <2>4
<1>7. EndsLast'
  <2> SUFFICES ASSUME NEW w \in Update, Awaits(w)', w.status \in Ends
               PROVE  /\ w.job \in Executed'
                      /\ w.stamp # Never /\ w.job \notin overdue =>
                           /\ job'[w.job].started <= w.stamp
                           /\ \A v \in Update :
                                Awaits(v)' /\ v.job = w.job /\ v.status = "running"
                                  => v.stamp <= w.stamp
    BY DEF EndsLast
  <2>1. /\ Awaits(w) /\ w.job \in Executed /\ w.job \in Jobs
        /\ w.stamp # Never /\ w.job \notin overdue =>
             /\ job[w.job].started <= w.stamp
             /\ \A v \in Update :
                  Awaits(v) /\ v.job = w.job /\ v.status = "running" => v.stamp <= w.stamp
    BY DEF UpdateInv, EndsLast, Update
  <2>2. w.stamp # Never /\ w.job \notin overdue => job'[w.job].started <= w.stamp
    BY <1>2, <2>1
  <2>. QED BY <2>1, <2>2
<1>8. Ended'
  <2> SUFFICES ASSUME NEW j \in Executed' \ overdue, job'[j].status \in Ends
               PROVE  job'[j].started <= job'[j].finished
    BY DEF Ended
  <2>1. CASE j = u.job
    <3>1. u.status \in Ends
      BY <1>2, <2>1
    <3>2. job[u.job].started <= u.stamp
      BY <2>1, <3>1 DEF UpdateInv, EndsLast
    <3>. QED BY <1>2, <2>1, <3>1, <3>2 DEF Ends, Finished
  <2>2. CASE j # u.job
    <3>1. j \in Executed /\ j \in Jobs
      BY <2>2, RanTyped
    <3>. QED BY <1>2, <2>2, <3>1 DEF UpdateInv, Ended
  <2>. QED BY <2>1, <2>2
<1>. QED BY <1>4, <1>5, <1>6, <1>7, <1>8 DEF UpdateInv

(* What is in the agent's hands exists.                                    *)
LEMMA HandsExist ==
  ASSUME TypeOK, UpdateInv, Listed, NEW j \in Jobs, j \in Executed \cup Rest \/ Starting(j)
  PROVE  Exists(j)
<1>1. CASE j \in Executed
  BY <1>1 DEF UpdateInv, Starts, Exists
<1>2. CASE j \in Rest
  BY <1>2 DEF Rest, Listed
<1>3. CASE Starting(j)
  BY <1>3, AgentForms DEF Starting, UpdateInv, Sent, Awaits, Asks
<1>. QED BY <1>1, <1>2, <1>3

(* The agent goes on with the same listing, no job is executed.            *)
LEMMA ListStays ==
  ASSUME QueueInv, TypeOK', RowsKept, UNCHANGED order, agent'.rest = agent.rest,
         \A j \in Jobs : Starting(j)' <=> Starting(j),
         skipped \subseteq skipped',
         \A a \in Jobs : Exists(a) => after'[a] = after[a]
  PROVE  ListInv'
<1>1. Executed' = Executed /\ Rest' = Rest /\ Executed \subseteq Jobs /\ Rest \subseteq Jobs
  BY RanTyped, AgentForms DEF QueueInv, Executed, Rest
<1>2. \A a \in Jobs : a \in Executed \cup Rest \/ Starting(a) => Exists(a)
  BY HandsExist DEF QueueInv, ListInv
<1>3. \A a \in Jobs : \A b \in after[a] : b \in Jobs /\ Exists(b)
  BY DEF QueueInv, TypeOK, UserInv, Before
<1>4. \A b \in Jobs : Exists(b) /\ Open(b)' => Open(b)
  BY <1>1 DEF Open, RowsKept, RowKept
<1>5. Listed'
  <2>1. \A i \in DOMAIN agent.rest : agent.rest[i] \in Jobs
    BY AgentForms DEF QueueInv
  <2>. QED BY <2>1 DEF QueueInv, ListInv, Listed, RowsKept, RowKept
<1>6. RanClosed'
  BY <1>1, <1>2, <1>4 DEF QueueInv, ListInv, RanClosed
<1>7. Turn'
  BY <1>1, <1>2, <1>3, <1>4 DEF QueueInv, ListInv, Turn
<1>8. NextTurn'
  BY <1>1, <1>2, <1>3, <1>4 DEF QueueInv, ListInv, NextTurn
<1>9. InOrder'
  <2>1. \A i \in DOMAIN order : order[i] \in Executed
    BY DEF Executed
  <2>. QED BY <1>1, <1>2, <2>1 DEF QueueInv, ListInv, InOrder
<1>. QED BY <1>5, <1>6, <1>7, <1>8, <1>9 DEF ListInv

-----------------------------------------------------------------------------
(* Users.                                                                  *)

(* What was answered before is dated before.                               *)
LEMMA BeginCreateKeeps ==
  ASSUME QueueInv, NEW u \in Users, NEW j \in Jobs, BeginCreate(u, j)
  PROVE  QueueInv'
<1>. DEFINE posted(p) == [status |-> p.status, created |-> now,
                          started |-> p.started, finished |-> p.finished]
            earlier == {i \in Jobs : Exists(i) /\ job[i].created < now}
<1>0. PICK p \in Posts : user' = [user EXCEPT ![u] =
                              [step |-> "create", job |-> j, row |-> posted(p)]]
  BY DEF BeginCreate
<1>. DEFINE row == posted(p)
            new == [step |-> "create", job |-> j, row |-> row]
<1>1. /\ user' = [user EXCEPT ![u] = new] /\ after' = [after EXCEPT ![j] = earlier]
      /\ user[u] = Idle /\ ~Exists(j)
      /\ \A v \in Users : user[v].step = "create" => user[v].job # j
      /\ UNCHANGED <<job, agent, late, now, faults, order, skipped, overdue>>
      /\ TypeOK
  BY <1>0 DEF BeginCreate, QueueInv
<1>a. row \in NewRow /\ row.created = now
  BY <1>1, QueueAssumption DEF TypeOK, NewRow
<1>. HIDE DEF row
<1>2. TypeOK'
  BY <1>1, <1>a DEF TypeOK
<1>3. /\ user'[u] = new /\ \A v \in Users \ {u} : user'[v] = user[v]
      /\ after'[j] = earlier /\ \A a \in Jobs \ {j} : after'[a] = after[a]
      /\ now \in Nat
  BY <1>1 DEF TypeOK
<1>4. Rows' /\ Before'
  BY <1>1, <1>3 DEF QueueInv, UserInv, Rows, Before, Exists
<1>5. Creations'
  <2> SUFFICES ASSUME NEW v \in Users, user'[v].step = "create"
               PROVE  /\ ~Exists(user'[v].job) /\ user'[v].row.created <= now
                      /\ \A w \in Users \ {v} : user'[w].step = "create" => user'[w].job # user'[v].job
                      /\ \A b \in after'[user'[v].job] : job[b].created < user'[v].row.created
    BY <1>1 DEF Creations, Exists
  <2>1. CASE v = u
    BY <1>1, <1>a, <1>3, <2>1
  <2>2. CASE v # u
    <3>1. user'[v] = user[v] /\ user[v].step = "create" /\ user[v].job # j /\ user[v].job \in Jobs
      BY <1>1, <1>3, <2>2, UserForms
    <3>. QED BY <1>1, <1>3, <2>2, <3>1 DEF QueueInv, UserInv, Creations
  <2>. QED BY <2>1, <2>2
<1>6. UpdateInv'
  <2>1. \A x \in Update : Awaits(x)' => Awaits(x)
    BY <1>1, <1>3 DEF Awaits, Asks
  <2>2. InHand'
    BY <1>1, <1>3 DEF QueueInv, UpdateInv, InHand, Executed
  <2>. QED BY <1>1, <1>2, <1>3, <2>1, <2>2, UpdateStays DEF QueueInv
<1>7. ListInv'
  BY <1>1, <1>2, <1>3, ListStays DEF Starting, RowsKept, RowKept, Exists
<1>. QED BY <1>2, <1>4, <1>5, <1>6, <1>7 DEF QueueInv, UserInv

(* The new row is in nobody's way.                                         *)
LEMMA CreateKeeps ==
  ASSUME QueueInv, NEW u \in Users, CreateDeploymentJob(u)
  PROVE  QueueInv'
<1>. DEFINE j == user[u].job
            b == user[u].row
<1>1. /\ user[u].step = "create" /\ user' = [user EXCEPT ![u] = Idle]
      /\ UNCHANGED <<agent, late, now, faults, after, order, skipped, overdue>>
      /\ TypeOK /\ j \in Jobs /\ b \in NewRow /\ b \in Row /\ b.created \in Nat
      /\ now \in Nat
  BY UserForms DEF CreateDeploymentJob, QueueInv, TypeOK, Row
<1>2. job' = [job EXCEPT ![j] = b]
  BY DEF CreateDeploymentJob
<1>. HIDE DEF b
<1>3. b.status # "none"
  BY <1>1 DEF NewRow, Statuses
<1>6. /\ job'[j] = b /\ \A i \in Jobs \ {j} : job'[i] = job[i]
      /\ user'[u] = Idle /\ \A v \in Users \ {u} : user'[v] = user[v]
  BY <1>1, <1>2 DEF TypeOK
<1>7. TypeOK'
  BY <1>1, <1>2 DEF TypeOK
<1>8. /\ ~Exists(j) /\ user[u].row.created <= now
      /\ \A v \in Users \ {u} : user[v].step = "create" => user[v].job # j
      /\ \A i \in after[j] : job[i].created < user[u].row.created
  BY <1>1 DEF QueueInv, UserInv, Creations
<1>9. RowsKept
  BY <1>6, <1>8 DEF RowsKept, RowKept, Exists
<1>10. /\ job'[j].status # "none" /\ \A i \in Jobs : (Exists(i))' <=> Exists(i) \/ i = j
       /\ job'[j].created = user[u].row.created
  BY <1>3, <1>6 DEF Exists, b
<1>11. Rows'
  <2>1. {i \in Jobs : (Exists(i))'} = {i \in Jobs : Exists(i)} \cup {j}
    BY <1>1, <1>10
  <2>2. IsFiniteSet({i \in Jobs : Exists(i)} \cup {j})
    BY FS_AddElement DEF QueueInv, UserInv, Rows
  <2>3. \A i \in Jobs : (Exists(i))' => job'[i].created # Never /\ job'[i].created <= now
    BY <1>1, <1>6, <1>8, <1>10 DEF QueueInv, UserInv, Rows, Never
  <2>. QED BY <1>1, <2>1, <2>2, <2>3 DEF Rows
<1>12. Before'
  <2> SUFFICES ASSUME NEW x \in Jobs, NEW y \in after[x]
               PROVE  (Exists(y))' /\ ((Exists(x))' => job'[y].created < job'[x].created)
    BY <1>1 DEF Before
  <2>1. y \in Jobs /\ Exists(y) /\ (Exists(x) => job[y].created < job[x].created)
    BY <1>1 DEF TypeOK, QueueInv, UserInv, Before
  <2>. QED BY <1>6, <1>8, <1>10, <2>1
<1>13. Creations'
  <2> SUFFICES ASSUME NEW v \in Users, user'[v].step = "create"
               PROVE  /\ job'[user'[v].job].status = "none" /\ user'[v].row.created <= now
                      /\ \A w \in Users \ {v} : user'[w].step = "create" => user'[w].job # user'[v].job
                      /\ \A y \in after[user'[v].job] : job'[y].created < user'[v].row.created
    BY <1>1 DEF Creations, Exists
  <2>1. v # u /\ user'[v] = user[v] /\ user[v].step = "create" /\ user[v].job \in Jobs /\ user[v].job # j
    BY <1>1, <1>6, <1>8, UserForms DEF Idle
  <2>2. job'[user[v].job].status = "none"
    BY <1>6, <2>1 DEF QueueInv, UserInv, Creations, Exists
  <2>3. \A w \in Users \ {v} : user'[w].step = "create" => user'[w].job # user[v].job
    BY <1>6, <2>1 DEF QueueInv, UserInv, Creations, Idle
  <2>4. ASSUME NEW y \in after[user[v].job] PROVE job'[y].created < user[v].row.created
    <3>1. y \in Jobs /\ Exists(y)
      BY <1>1, <2>1 DEF TypeOK, QueueInv, UserInv, Before
    <3>2. y # j /\ job'[y] = job[y]
      BY <1>6, <1>8, <3>1
    <3>. QED BY <2>1, <3>2 DEF QueueInv, UserInv, Creations
  <2>. QED BY <2>1, <2>2, <2>3, <2>4 DEF QueueInv, UserInv, Creations
<1>14. UpdateInv'
  <2>1. \A x \in Update : Awaits(x)' => Awaits(x)
    BY <1>1, <1>6 DEF Awaits, Asks, Idle
  <2>2. \A x \in Update : Awaits(x) => x.job # j /\ x.job \in Jobs
    BY <1>8 DEF QueueInv, UpdateInv, Sent, Update
  <2>3. Executed' = Executed /\ j \notin Executed /\ Executed \subseteq Jobs
    BY <1>1, <1>8, RanTyped DEF QueueInv, UpdateInv, Starts, Executed, Exists
  <2>5. Sent'
    BY <1>1, <1>6, <1>10, <2>1, <2>2 DEF QueueInv, UpdateInv, Sent
  <2>6. Starts'
    BY <1>1, <1>6, <2>3 DEF QueueInv, UpdateInv, Starts
  <2>7. EndsLast'
    BY <1>1, <1>6, <2>1, <2>2, <2>3 DEF QueueInv, UpdateInv, EndsLast
  <2>8. Ended'
    BY <1>1, <1>6, <2>3 DEF QueueInv, UpdateInv, Ended
  <2>9. InHand'
    BY <1>1, <1>6, <2>3 DEF QueueInv, UpdateInv, InHand, Idle
  <2>. QED BY <2>5, <2>6, <2>7, <2>8, <2>9 DEF UpdateInv
<1>15. ListInv'
  BY <1>1, <1>7, <1>9, ListStays DEF Starting
<1>. QED BY <1>7, <1>11, <1>12, <1>13, <1>14, <1>15 DEF QueueInv, UserInv

(* A cancellation waits for the connection.                                *)
LEMMA BeginCancelKeeps ==
  ASSUME QueueInv, NEW u \in Users, NEW j \in Jobs, BeginCancel(u, j)
  PROVE  QueueInv'
<1>. DEFINE new == [job |-> j, status |-> "canceled", stamp |-> now]
<1>1. /\ user' = [user EXCEPT ![u] = [step |-> "cancel", update |-> new]]
      /\ Exists(j) /\ TypeOK /\ now \in Nat
      /\ UNCHANGED <<job, agent, late, now, faults, after, order, skipped, overdue>>
  BY DEF BeginCancel, QueueInv, TypeOK
<1>2. new \in Update
  BY <1>1 DEF Update, Finished, Time
<1>3. /\ user'[u] = [step |-> "cancel", update |-> new] /\ \A v \in Users \ {u} : user'[v] = user[v]
  BY <1>1 DEF TypeOK
<1>4. TypeOK'
  BY <1>1, <1>2 DEF TypeOK
<1>5. RowsKept /\ NoNewRow
  BY <1>1 DEF RowsKept, NoNewRow, RowKept, Exists
<1>6. UserInv'
  <2>1. \A v \in Users : user'[v].step = "create" => user'[v] = user[v]
    BY <1>3
  <2>. QED BY <1>1, <1>4, <1>5, <2>1, UserStays DEF QueueInv
<1>7. UpdateInv'
  <2>1. \A x \in Update : Awaits(x)' => Awaits(x) \/ x = new
    BY <1>1, <1>3 DEF Awaits, Asks
  <2>2. InHand'
    BY <1>1, <1>3 DEF QueueInv, UpdateInv, InHand, Executed, Never
  <2>3. new.stamp = now /\ new.job = j /\ new.status = "canceled"
    OBVIOUS
  <2>. HIDE DEF new
  <2>. QED BY <1>1, <1>2, <1>4, <2>1, <2>2, <2>3, UpdateSent DEF QueueInv, UserInv, Ends
<1>8. ListInv'
  BY <1>1, <1>4, <1>5, ListStays DEF Starting
<1>. QED BY <1>4, <1>6, <1>7, <1>8 DEF QueueInv

(* What an executed update leaves to show, if the listing stays.           *)
LEMMA WriteKeeps ==
  ASSUME QueueInv, NEW u \in Update, Awaits(u), u.stamp # Never, Execute(u),
         TypeOK', InHand', UNCHANGED <<now, after, order, overdue>>, agent'.rest = agent.rest,
         \A x \in Users : user'[x].step = "create" => user'[x] = user[x],
         \A v \in Update : Awaits(v)' => Awaits(v),
         \A j \in Jobs : Starting(j)' <=> Starting(j), skipped \subseteq skipped'
  PROVE  QueueInv'
<1>1. Executed' = Executed
  BY DEF Executed
<1>2. UpdateInv' /\ RowsKept /\ NoNewRow
  BY <1>1, UpdateExecuted DEF QueueInv
<1>3. UserInv'
  BY <1>2, UserStays DEF QueueInv, TypeOK
<1>4. ListInv'
  BY <1>2, ListStays
<1>. QED BY <1>2, <1>3, <1>4 DEF QueueInv

(* The cancellation is written.                                            *)
LEMMA CancelKeeps ==
  ASSUME QueueInv, NEW u \in Users, CancelDeploymentJob(u)
  PROVE  QueueInv'
<1>. DEFINE x == user[u].update
<1>1. /\ user[u].step = "cancel" /\ Execute(x) /\ user' = [user EXCEPT ![u] = Idle]
      /\ UNCHANGED <<agent, late, now, faults, after, order, skipped, overdue>>
      /\ TypeOK /\ x \in Update /\ Awaits(x) /\ x.stamp # Never
  BY UserForms DEF CancelDeploymentJob, QueueInv, Awaits, UpdateInv, InHand
<1>2. job' \in [Jobs -> Row]
  BY <1>1, ExecuteMoves DEF QueueInv, UpdateInv, Sent
<1>3. TypeOK'
  BY <1>1, <1>2 DEF TypeOK
<1>4. user'[u] = Idle /\ \A v \in Users \ {u} : user'[v] = user[v]
  BY <1>1 DEF TypeOK
<1>5. \A v \in Update : Awaits(v)' => Awaits(v)
  BY <1>1, <1>4 DEF Awaits, Asks, Idle
<1>6. InHand'
  BY <1>1, <1>4 DEF QueueInv, UpdateInv, InHand, Executed, Idle
<1>7. \A v \in Users : user'[v].step = "create" => user'[v] = user[v]
  BY <1>4 DEF Idle
<1>. QED BY <1>1, <1>3, <1>5, <1>6, <1>7, WriteKeeps DEF Starting

-----------------------------------------------------------------------------
(* The agent.                                                              *)

(* The step that takes a listing: it holds every job that is pending, each *)
(* once (it has as many places as there are jobs).                         *)
LEMMA PendingJobsKeeps ==
  ASSUME QueueInv, PendingJobs
  PROVE  QueueInv'
<1>1. PICK s \in Listings : agent' = [agent EXCEPT !.rest = s]
  BY DEF PendingJobs
<1>2. /\ agent = [rest |-> <<>>, call |-> Idle] /\ TypeOK
      /\ UNCHANGED <<job, user, late, now, faults, after, order, skipped, overdue>>
      /\ agent' = [rest |-> s, call |-> Idle]
  BY <1>1 DEF PendingJobs, QueueInv
<1>. DEFINE n == Cardinality(Pending)
<1>3. IsFiniteSet(Pending) /\ n \in Nat /\ Pending \subseteq Jobs
  <2>1. Pending \subseteq {j \in Jobs : Exists(j)}
    BY DEF Pending, Waiting, Exists
  <2>. QED BY <2>1, FS_Subset, FS_CardinalityType DEF QueueInv, UserInv, Rows, Pending
<1>4. /\ s \in [1 .. n -> Pending] /\ Pending = {s[i] : i \in 1 .. n}
      /\ \A i, k \in 1 .. n : i < k => job[s[i]].created <= job[s[k]].created
  <2>1. s \in [1 .. n -> Pending] /\ Pending = {s[i] : i \in DOMAIN s} /\ Ordered(s)
    BY DEF Listings
  <2>2. DOMAIN s = 1 .. n
    BY <2>1
  <2>. QED BY <2>1, <2>2 DEF Ordered
<1>5. s \in Seq(Jobs) /\ Len(s) = n /\ DOMAIN s = 1 .. n
  BY <1>3, <1>4
<1>6. \A i, k \in 1 .. n : i # k => s[i] # s[k]
  <2>1. s \in Surjection(1 .. n, Pending)
    BY <1>4 DEF Surjection
  <2>2. IsFiniteSet(1 .. n) /\ Cardinality(1 .. n) = n
    BY <1>3, FS_Interval
  <2>3. s \in Injection(1 .. n, Pending)
    BY <2>1, <2>2, FS_Surjection
  <2>. QED BY <1>5, <2>3 DEF Injection, IsInjective
<1>7. TypeOK'
  BY <1>2, <1>5 DEF TypeOK
<1>8. Rest' = Pending /\ Rest = {} /\ Executed' = Executed
  BY <1>2, <1>4, <1>5 DEF Rest, Executed
<1>9. RowsKept /\ NoNewRow
  BY <1>2 DEF RowsKept, NoNewRow, RowKept, Exists
<1>10. UserInv'
  BY <1>2, <1>7, <1>9, UserStays DEF QueueInv, TypeOK
<1>11. UpdateInv'
  <2>1. \A u \in Update : Awaits(u)' => Awaits(u)
    BY <1>2 DEF Awaits, Asks
  <2>2. InHand'
    BY <1>2, <1>8 DEF QueueInv, UpdateInv, InHand, Idle
  <2>. QED BY <1>2, <1>7, <2>1, <2>2, UpdateStays DEF QueueInv, TypeOK
<1>12. \A j \in Jobs : ~Starting(j) /\ ~Starting(j)'
  BY <1>2 DEF Starting, Idle
<1>13. \A j \in Jobs : (Open(j)' <=> j \in Pending) /\ (j \in Pending => Open(j))
  BY <1>2, <1>8, <1>12 DEF Open, Pending
<1>14. Listed'
  <2>1. \A i \in 1 .. n : s[i] \in Jobs /\ Exists(s[i])
    BY <1>4 DEF Pending, Waiting, Exists
  <2>2. DOMAIN agent'.rest = 1 .. n /\ \A i \in 1 .. n : agent'.rest[i] = s[i]
    BY <1>2, <1>5
  <2>3. \A i \in 1 .. n : (Exists(s[i]))' /\ ~Starting(s[i])'
    BY <1>2, <1>12, <2>1 DEF Exists
  <2>4. \A i, k \in 1 .. n : i < k => s[i] # s[k] /\ job'[s[i]].created <= job'[s[k]].created
    BY <1>2, <1>4, <1>6
  <2>. HIDE DEF n
  <2>. QED BY <2>2, <2>3, <2>4 DEF Listed
<1>15. Executed \subseteq Jobs /\ \A a \in Jobs : after[a] \subseteq Jobs
  BY <1>2, RanTyped DEF TypeOK
<1>16. RanClosed' /\ Turn'
  BY <1>2, <1>8, <1>12, <1>13, <1>15 DEF QueueInv, ListInv, RanClosed, Turn
<1>17. NextTurn'
  BY <1>2, <1>3, <1>8, <1>13, <1>15 DEF NextTurn
<1>18. InOrder'
  BY <1>2 DEF QueueInv, ListInv, InOrder
<1>. QED BY <1>7, <1>10, <1>11, <1>14, <1>16, <1>17, <1>18 DEF QueueInv, ListInv

(* The first job of the listing is the next one: what is behind it in the  *)
(* listing was not created before it.                                      *)
LEMMA StartKeeps ==
  ASSUME QueueInv, Start
  PROVE  QueueInv'
<1>. DEFINE a == Head(agent.rest)
            new == [job |-> a, status |-> "running", stamp |-> Never]
<1>1. /\ agent.call = Idle /\ agent.rest # <<>> /\ TypeOK /\ now \in Nat /\ agent.rest \in Seq(Jobs)
      /\ UNCHANGED <<job, user, late, now, faults, after, order, skipped, overdue>>
      /\ agent' = [rest |-> Tail(agent.rest), call |-> [step |-> "start", update |-> new]]
  BY AgentForms DEF Start, Call, QueueInv, TypeOK
<1>2. /\ a \in Jobs /\ a = agent.rest[1] /\ 1 \in DOMAIN agent.rest
      /\ Tail(agent.rest) \in Seq(Jobs) /\ Len(agent.rest) \in Nat \ {0}
      /\ Len(Tail(agent.rest)) = Len(agent.rest) - 1
      /\ \A i \in 1 .. Len(agent.rest) - 1 : Tail(agent.rest)[i] = agent.rest[i + 1]
  BY <1>1
<1>3. new \in Update
  BY <1>1, <1>2 DEF Update, Time
<1>4. TypeOK'
  BY <1>1, <1>2, <1>3 DEF TypeOK
<1>5. /\ Exists(a) /\ a \in Rest /\ Executed' = Executed
      /\ \A j \in Jobs : ~Starting(j) /\ (Starting(j)' <=> j = a)
  BY <1>1, <1>2 DEF QueueInv, ListInv, Listed, Rest, Executed, Starting, Idle
<1>6. Rest' \subseteq Rest /\ a \notin Rest' /\ Rest \subseteq Rest' \cup {a} /\ Rest \subseteq Jobs
  <2>1. DOMAIN agent.rest = 1 .. Len(agent.rest) /\ DOMAIN agent'.rest = 1 .. Len(agent.rest) - 1
    BY <1>1, <1>2
  <2>2. \A i \in DOMAIN agent'.rest : i + 1 \in DOMAIN agent.rest /\ 1 < i + 1 /\ agent'.rest[i] = agent.rest[i + 1]
    BY <1>1, <1>2, <2>1
  <2>3. Rest' \subseteq Rest
    BY <2>2 DEF Rest
  <2>4. a \notin Rest'
    BY <1>2, <2>2 DEF Rest, QueueInv, ListInv, Listed
  <2>5. ASSUME NEW i \in DOMAIN agent.rest, i # 1 PROVE agent.rest[i] \in Rest'
    <3>1. i - 1 \in DOMAIN agent'.rest
      BY <1>2, <2>1, <2>5
    <3>2. agent'.rest[i - 1] = agent.rest[i]
      BY <2>1, <2>2, <3>1
    <3>. QED BY <3>1, <3>2 DEF Rest
  <2>6. ASSUME NEW j \in Rest PROVE j \in Rest' \cup {a} /\ j \in Jobs
    <3>1. PICK i \in DOMAIN agent.rest : j = agent.rest[i]
      BY DEF Rest
    <3>2. agent.rest[i] \in Jobs
      BY <1>1, <2>1
    <3>. QED BY <1>2, <2>5, <3>1, <3>2
  <2>. QED BY <2>3, <2>4, <2>6
<1>7. RowsKept /\ NoNewRow
  BY <1>1 DEF RowsKept, NoNewRow, RowKept, Exists
<1>8. UserInv'
  BY <1>1, <1>4, <1>7, UserStays DEF QueueInv
<1>9. a \notin Executed
  BY <1>5 DEF QueueInv, ListInv, RanClosed, Open
<1>10. UpdateInv'
  <2>1. \A u \in Update : Awaits(u)' => Awaits(u) \/ u = new
    BY <1>1 DEF Awaits, Asks
  <2>2. InHand'
    BY <1>1, <1>5 DEF QueueInv, UpdateInv, InHand
  <2>3. new.stamp = Never /\ new.job = a /\ new.status = "running"
    OBVIOUS
  <2>. HIDE DEF new
  <2>. QED BY <1>1, <1>3, <1>4, <1>5, <2>1, <2>2, <2>3, UpdateSent
              DEF QueueInv, UserInv, Ends
<1>11. \A j \in Jobs : Open(j)' => Open(j)
  BY <1>1, <1>5, <1>6 DEF Open
<1>12. Listed'
  <2>1. /\ DOMAIN agent'.rest = 1 .. Len(agent.rest) - 1
        /\ \A i \in DOMAIN agent'.rest :
             /\ i + 1 \in DOMAIN agent.rest /\ agent'.rest[i] = agent.rest[i + 1]
             /\ agent.rest[i + 1] \in Jobs /\ agent.rest[i + 1] # a
    <3>1. /\ DOMAIN agent'.rest = 1 .. Len(agent.rest) - 1
          /\ \A i \in DOMAIN agent'.rest : agent'.rest[i] = agent.rest[i + 1]
      BY <1>1, <1>2
    <3>2. \A i \in DOMAIN agent'.rest : agent'.rest[i] \in Rest'
      BY DEF Rest
    <3>. QED BY <1>1, <1>2, <1>6, <3>1, <3>2
  <2>2. ASSUME NEW i \in DOMAIN agent'.rest
        PROVE  /\ job'[agent'.rest[i]].status # "none"
               /\ ~(agent'.call.step = "start" /\ agent'.call.update.job = agent'.rest[i])
    BY <1>1, <2>1 DEF QueueInv, ListInv, Listed, Exists
  <2>3. ASSUME NEW i \in DOMAIN agent'.rest, NEW k \in DOMAIN agent'.rest, i < k
        PROVE  /\ agent'.rest[i] # agent'.rest[k]
               /\ job'[agent'.rest[i]].created <= job'[agent'.rest[k]].created
    <3>1. i + 1 < k + 1 /\ i + 1 \in DOMAIN agent.rest /\ k + 1 \in DOMAIN agent.rest
      BY <1>2, <2>1, <2>3
    <3>. QED BY <1>1, <2>1, <3>1 DEF QueueInv, ListInv, Listed
  <2>. QED BY <2>2, <2>3 DEF Listed, Exists, Starting
<1>13. RanClosed'
  BY <1>5, <1>9, <1>11, RanTyped, <1>1 DEF QueueInv, ListInv, RanClosed
<1>14. \A x \in Jobs : \A b \in after[x] : b \in Jobs /\ (Exists(x) => job[b].created < job[x].created)
  BY <1>1 DEF TypeOK, QueueInv, UserInv, Before
<1>15. ASSUME NEW b \in after[a], Open(b)' PROVE b \in skipped
  <2>1. b \in Jobs /\ job[b].created < job[a].created /\ Open(b)
    BY <1>2, <1>5, <1>11, <1>14, <1>15
  <2>2. b \notin Rest
    <3>1. SUFFICES ASSUME NEW k \in DOMAIN agent.rest, b = agent.rest[k] PROVE FALSE
      BY DEF Rest
    <3>2. job[a].created <= job[b].created
      BY <1>1, <1>2, <3>1, RowForms DEF QueueInv, ListInv, Listed
    <3>. QED BY <1>1, <1>2, <2>1, <3>2, RowForms
  <2>. QED BY <1>5, <2>1, <2>2 DEF QueueInv, ListInv, NextTurn
<1>16. Turn'
  BY <1>1, <1>5, <1>11, <1>14, <1>15 DEF QueueInv, ListInv, Turn
<1>17. NextTurn'
  <2> SUFFICES ASSUME NEW x \in Rest', NEW b \in after[x], Open(b)'
               PROVE  b \in skipped \/ b \in Rest' \/ Starting(b)'
    BY <1>1 DEF NextTurn
  <2>1. x \in Rest /\ b \in Jobs /\ Open(b)
    BY <1>6, <1>11, <1>14
  <2>2. b \in skipped \/ b \in Rest
    BY <1>5, <2>1 DEF QueueInv, ListInv, NextTurn
  <2>. QED BY <1>5, <1>6, <2>1, <2>2
<1>18. InOrder'
  BY <1>1 DEF QueueInv, ListInv, InOrder
<1>. QED BY <1>4, <1>8, <1>10, <1>12, <1>13, <1>16, <1>17, <1>18 DEF QueueInv, ListInv

(* The server takes up the agent's request, and dates it.                  *)
LEMMA BeginUpdateKeeps ==
  ASSUME QueueInv, BeginUpdate
  PROVE  QueueInv'
<1>. DEFINE old == agent.call.update
            new == [old EXCEPT !.stamp = now]
<1>1. /\ Asks /\ TypeOK /\ now \in Nat /\ old \in Update /\ Awaits(old)
      /\ agent' = [agent EXCEPT !.call = [agent.call EXCEPT !.update.stamp = now]]
      /\ UNCHANGED <<job, user, late, now, faults, after, order, skipped, overdue>>
  BY AgentForms DEF BeginUpdate, Calling, QueueInv, TypeOK, Awaits
<1>2. /\ new \in Update /\ new.stamp = now /\ new.job = old.job /\ new.status = old.status
  BY <1>1 DEF Update, Time
<1>3. agent.call \in [step : {"start", "report"}, update : Update]
  BY <1>1 DEF TypeOK, Asks, Idle
<1>4. agent' = [rest |-> agent.rest, call |-> [step |-> agent.call.step, update |-> new]]
  <2>1. agent = [rest |-> agent.rest, call |-> agent.call]
    BY <1>1 DEF TypeOK
  <2>2. [agent.call EXCEPT !.update.stamp = now] = [step |-> agent.call.step, update |-> new]
    BY <1>3
  <2>. HIDE DEF new
  <2>. QED BY <1>1, <2>1, <2>2
<1>. HIDE DEF new
<1>5. TypeOK'
  <2>1. agent.rest \in Seq(Jobs) /\ agent.call.step \in {"start", "report"}
    BY <1>1, AgentForms DEF Asks
  <2>. QED BY <1>1, <1>2, <1>4, <2>1 DEF TypeOK
<1>6. RowsKept /\ NoNewRow
  BY <1>1 DEF RowsKept, NoNewRow, RowKept, Exists
<1>7. UserInv'
  BY <1>1, <1>5, <1>6, UserStays DEF QueueInv
<1>8. UpdateInv'
  <2>1. \A u \in Update : Awaits(u)' => Awaits(u) \/ u = new
    BY <1>1, <1>4 DEF Awaits, Asks
  <2>2. InHand'
    <3>1. Executed' = Executed /\ agent'.call.step = agent.call.step /\ agent'.call.update = new
      BY <1>1, <1>4 DEF Executed
    <3>2. agent.call.step # "execute"
      BY <1>1 DEF Asks
    <3>. QED BY <1>1, <1>2, <3>1, <3>2 DEF QueueInv, UpdateInv, InHand
  <2>3. Exists(new.job) /\ (new.status \in Ends => new.job \in Executed)
    BY <1>1, <1>2 DEF QueueInv, UpdateInv, Sent, EndsLast
  <2>4. new.status = "running" => new.job \notin Executed
    <3>1. new.status = "running" => Starting(new.job)
      BY <1>1, <1>2 DEF QueueInv, UpdateInv, InHand, Asks, Starting, Ends
    <3>. QED BY <3>1 DEF QueueInv, ListInv, RanClosed, Open
  <2>. QED BY <1>1, <1>2, <1>5, <2>1, <2>2, <2>3, <2>4, UpdateSent DEF QueueInv, UserInv
<1>9. ListInv'
  <2>1. \A j \in Jobs : Starting(j)' <=> Starting(j)
    BY <1>2, <1>4 DEF Starting
  <2>. QED BY <1>1, <1>4, <1>5, <1>6, <2>1, ListStays
<1>. QED BY <1>5, <1>7, <1>8, <1>9 DEF QueueInv

(* The job is executed: whatever it has left behind, its start request     *)
(* failed.                                                                 *)
LEMMA StartedKeeps ==
  ASSUME QueueInv, Started
  PROVE  QueueInv'
<1>. DEFINE u == agent.call.update
            a == u.job
<1>1. /\ agent.call.step = "start" /\ Execute(u) /\ TypeOK /\ u \in Update /\ a \in Jobs
      /\ agent' = [rest |-> agent.rest, call |-> [step |-> "execute", job |-> a]]
      /\ order' = Append(order, a) /\ order \in Seq(Jobs)
      /\ UNCHANGED <<user, late, now, faults, after, skipped, overdue>>
      /\ u.status = "running" /\ Awaits(u) /\ u.stamp # Never /\ Starting(a)
  BY AgentForms
     DEF Started, Served, Calling, QueueInv, UpdateInv, InHand, TypeOK, Asks, Update, Awaits,
     Starting
<1>2. job' \in [Jobs -> Row] /\ job'[a].status = "running"
  BY <1>1, ExecuteMoves DEF QueueInv, UpdateInv, Sent
<1>3. TypeOK'
  BY <1>1, <1>2, AgentForms DEF TypeOK
<1>4. Executed' = Executed \cup {a} /\ Executed \subseteq Jobs /\ Rest' = Rest /\ Rest \subseteq Jobs
  <2>1. DOMAIN order' = 1 .. Len(order) + 1 /\ DOMAIN order = 1 .. Len(order) /\ Len(order) \in Nat
    BY <1>1
  <2>2. order'[Len(order) + 1] = a /\ \A i \in 1 .. Len(order) : order'[i] = order[i]
    BY <1>1
  <2>. HIDE DEF a
  <2>. QED BY <1>1, <2>1, <2>2, RanTyped, AgentForms DEF Executed, Rest
<1>5. a \notin Executed /\ a \notin Rest /\ \A j \in Jobs : Starting(j) => j = a
  BY <1>1 DEF QueueInv, ListInv, RanClosed, Open, Listed, Rest, Starting
<1>6. \A v \in Update : Awaits(v)' => Awaits(v)
  BY <1>1 DEF Awaits, Asks
<1>7. InHand'
  BY <1>1, <1>4 DEF QueueInv, UpdateInv, InHand
<1>8. UpdateInv' /\ RowsKept /\ NoNewRow
  BY <1>1, <1>3, <1>4, <1>6, <1>7, UpdateExecuted DEF QueueInv
<1>9. UserInv'
  BY <1>1, <1>3, <1>8, UserStays DEF QueueInv, TypeOK
<1>10. \A j \in Jobs : ~Starting(j)'
  BY <1>1 DEF Starting
<1>11. /\ \A j \in Jobs : Exists(j) /\ Open(j)' => Open(j) /\ j # a
       /\ \A j \in Jobs : Open(j)' => Exists(j)
  <2>1. \A j \in Rest : Exists(j)
    BY <1>4, HandsExist DEF QueueInv, ListInv
  <2>. QED BY <1>2, <1>4, <1>5, <1>8, <1>10, <2>1
              DEF Open, RowsKept, RowKept, NoNewRow, Exists, Waiting
<1>12. \A x \in Jobs : after[x] \subseteq Jobs
  BY <1>1 DEF TypeOK
<1>13. Listed'
  <2>1. \A i \in DOMAIN agent.rest : agent.rest[i] \in Jobs
    BY <1>1, AgentForms
  <2>. QED BY <1>1, <1>8, <1>10, <2>1 DEF QueueInv, ListInv, Listed, RowsKept, RowKept
<1>14. RanClosed'
  BY <1>1, <1>4, <1>11 DEF QueueInv, ListInv, RanClosed
<1>15. Turn'
  BY <1>1, <1>4, <1>10, <1>11, <1>12 DEF QueueInv, ListInv, Turn
<1>16. NextTurn'
  BY <1>1, <1>4, <1>5, <1>11, <1>12 DEF QueueInv, ListInv, NextTurn
<1>17. InOrder'
  <2>1. DOMAIN order' = 1 .. Len(order) + 1 /\ DOMAIN order = 1 .. Len(order) /\ Len(order) \in Nat
    BY <1>1
  <2>2. order'[Len(order) + 1] = a /\ \A i \in 1 .. Len(order) : order'[i] = order[i]
    BY <1>1
  <2>. HIDE DEF a
  <2> SUFFICES ASSUME NEW i \in 1 .. Len(order) + 1, NEW k \in 1 .. Len(order) + 1, i < k,
                      order'[k] \in after[order'[i]]
               PROVE  order'[k] \in skipped
    BY <1>1, <2>1 DEF InOrder
  <2>3. CASE k \in 1 .. Len(order)
    BY <2>1, <2>2, <2>3 DEF QueueInv, ListInv, InOrder
  <2>4. CASE k = Len(order) + 1
    <3>1. i \in DOMAIN order /\ order'[i] = order[i] /\ order'[k] = a
      BY <2>1, <2>2, <2>4
    <3>2. order[i] \in Executed
      BY <3>1 DEF Executed
    <3>3. a \in after[order[i]] /\ Open(a)
      BY <1>1, <3>1 DEF Open
    <3>. QED BY <1>4, <3>1, <3>2, <3>3 DEF QueueInv, ListInv, Turn
  <2>. QED BY <2>1, <2>3, <2>4
<1>. QED BY <1>3, <1>8, <1>9, <1>13, <1>14, <1>15, <1>16, <1>17 DEF QueueInv, ListInv

(* The job is executed: its end is on its way.                             *)
LEMMA ReportKeeps ==
  ASSUME QueueInv, Report
  PROVE  QueueInv'
<1>. DEFINE a == agent.call.job
<1>1. PICK status \in Ends : Calling(Call("report", a, status))
  BY DEF Report, Ends
<1>. DEFINE new == [job |-> a, status |-> status, stamp |-> Never]
<1>2. /\ agent.call.step = "execute" /\ TypeOK /\ a \in Jobs /\ a \in Executed /\ now \in Nat
      /\ agent' = [rest |-> agent.rest, call |-> [step |-> "report", update |-> new]]
      /\ UNCHANGED <<job, user, late, now, faults, after, order, skipped, overdue>>
  BY <1>1, AgentForms DEF Report, Calling, Call, QueueInv, UpdateInv, InHand, TypeOK
<1>3. new \in Update /\ Exists(a)
  BY <1>2 DEF Update, Finished, Ends, Time, QueueInv, UpdateInv, Starts, Exists
<1>4. TypeOK'
  BY <1>2, <1>3, AgentForms DEF TypeOK
<1>5. RowsKept /\ NoNewRow
  BY <1>2 DEF RowsKept, NoNewRow, RowKept, Exists
<1>6. UserInv'
  BY <1>2, <1>4, <1>5, UserStays DEF QueueInv
<1>7. UpdateInv'
  <2>1. \A u \in Update : Awaits(u)' => Awaits(u) \/ u = new
    BY <1>2 DEF Awaits, Asks
  <2>2. InHand'
    BY <1>2 DEF QueueInv, UpdateInv, InHand, Executed
  <2>3. new.stamp = Never /\ new.job = a /\ new.status \in Ends
    OBVIOUS
  <2>. HIDE DEF new
  <2>. QED BY <1>2, <1>3, <1>4, <2>1, <2>2, <2>3, UpdateSent DEF QueueInv, UserInv, Ends
<1>8. ListInv'
  BY <1>2, <1>4, <1>5, ListStays DEF Starting
<1>. QED BY <1>4, <1>6, <1>7, <1>8 DEF QueueInv

(* The end is written.                                                     *)
LEMMA ReportedKeeps ==
  ASSUME QueueInv, Reported
  PROVE  QueueInv'
<1>. DEFINE u == agent.call.update
<1>1. /\ agent.call.step = "report" /\ Execute(u) /\ TypeOK /\ u \in Update /\ Awaits(u)
      /\ u.stamp # Never
      /\ agent' = [rest |-> agent.rest, call |-> Idle]
      /\ UNCHANGED <<user, late, now, faults, after, order, skipped, overdue>>
  BY AgentForms DEF Reported, Served, Calling, QueueInv, TypeOK, Asks, Awaits
<1>2. job' \in [Jobs -> Row]
  BY <1>1, ExecuteMoves DEF QueueInv, UpdateInv, Sent
<1>3. TypeOK'
  BY <1>1, <1>2, AgentForms DEF TypeOK
<1>4. \A v \in Update : Awaits(v)' => Awaits(v)
  BY <1>1 DEF Awaits, Asks, Idle
<1>5. InHand'
  BY <1>1 DEF QueueInv, UpdateInv, InHand, Executed, Idle
<1>6. \A j \in Jobs : Starting(j)' <=> Starting(j)
  BY <1>1 DEF Starting, Idle
<1>. QED BY <1>1, <1>3, <1>4, <1>5, <1>6, WriteKeeps

(* A request the agent gave up on is taken up, and dated late.             *)
LEMMA BeginLateKeeps ==
  ASSUME QueueInv, NEW l \in late, BeginLate(l)
  PROVE  QueueInv'
<1>. DEFINE old == l.update
            new == [old EXCEPT !.stamp = now]
<1>1. /\ TypeOK /\ now \in Nat /\ old \in Update /\ Awaits(old) /\ l.no \in Nat
      /\ late' = (late \ {l}) \cup {[l EXCEPT !.update.stamp = now]}
      /\ overdue' = overdue \cup (IF old.status = "running" THEN {old.job} ELSE {})
      /\ UNCHANGED <<job, user, agent, now, faults, after, order, skipped>>
  BY DEF BeginLate, QueueInv, TypeOK, Awaits
<1>2. /\ new \in Update /\ new.stamp = now /\ new.job = old.job /\ new.status = old.status
      /\ old.job \in Jobs
  BY <1>1 DEF Update, Time
<1>3. [l EXCEPT !.update.stamp = now] = [no |-> l.no, update |-> new]
  BY <1>1 DEF TypeOK
<1>. HIDE DEF new
<1>4. late' = (late \ {l}) \cup {[no |-> l.no, update |-> new]}
  BY <1>1, <1>3
<1>5. TypeOK'
  <2>1. late' \subseteq [no : Nat, update : Update]
    <3>1. late \subseteq [no : Nat, update : Update]
      BY <1>1 DEF TypeOK
    <3>2. [no |-> l.no, update |-> new] \in [no : Nat, update : Update]
      BY <1>1, <1>2
    <3>. QED BY <1>4, <3>1, <3>2
  <2>2. overdue' \subseteq Jobs
    BY <1>1, <1>2 DEF TypeOK
  <2>. QED BY <1>1, <2>1, <2>2 DEF TypeOK
<1>6. RowsKept /\ NoNewRow
  BY <1>1 DEF RowsKept, NoNewRow, RowKept, Exists
<1>7. UserInv'
  BY <1>1, <1>5, <1>6, UserStays DEF QueueInv
<1>8. UpdateInv'
  <2>1. \A u \in Update : Awaits(u)' => Awaits(u) \/ u = new
    BY <1>1, <1>4 DEF Awaits, Asks
  <2>2. InHand'
    BY <1>1 DEF QueueInv, UpdateInv, InHand, Executed
  <2>3. Exists(new.job) /\ (new.status \in Ends => new.job \in Executed)
    BY <1>1, <1>2 DEF QueueInv, UpdateInv, Sent, EndsLast
  <2>4. new.status = "running" => new.job \in overdue'
    BY <1>1, <1>2
  <2>. QED BY <1>1, <1>2, <1>5, <2>1, <2>2, <2>3, <2>4, UpdateSent DEF QueueInv, UserInv
<1>9. ListInv'
  BY <1>1, <1>5, <1>6, ListStays DEF Starting
<1>. QED BY <1>5, <1>7, <1>8, <1>9 DEF QueueInv

(* A late update is written.                                               *)
LEMMA LateKeeps ==
  ASSUME QueueInv, NEW l \in late, Late(l)
  PROVE  QueueInv'
<1>. DEFINE u == l.update
<1>1. /\ Execute(u) /\ late' = late \ {l} /\ TypeOK /\ u \in Update /\ Awaits(u)
      /\ u.stamp # Never
      /\ UNCHANGED <<user, agent, now, faults, after, order, skipped, overdue>>
  BY DEF Late, QueueInv, TypeOK, Awaits
<1>2. job' \in [Jobs -> Row]
  BY <1>1, ExecuteMoves DEF QueueInv, UpdateInv, Sent
<1>3. TypeOK'
  BY <1>1, <1>2 DEF TypeOK
<1>4. \A v \in Update : Awaits(v)' => Awaits(v)
  BY <1>1 DEF Awaits, Asks
<1>5. InHand'
  BY <1>1 DEF QueueInv, UpdateInv, InHand, Executed
<1>. QED BY <1>1, <1>3, <1>4, <1>5, WriteKeeps DEF Starting

-----------------------------------------------------------------------------
(* Faults and time.                                                        *)

(* The agent gives up on its request, and perhaps on its listing.          *)
LEMMA ListGivenUp ==
  ASSUME QueueInv, TypeOK', RowsKept, UNCHANGED <<order, after>>, skipped \subseteq skipped',
         \A j \in Jobs : ~Starting(j)',
         \/ agent'.rest = <<>>
         \/ agent'.rest = agent.rest /\ \A j \in Jobs : Starting(j) => j \in skipped'
  PROVE  ListInv'
<1>1. Executed' = Executed /\ Executed \subseteq Jobs /\ Rest \subseteq Jobs /\ (Rest' = {} \/ Rest' = Rest)
  BY RanTyped, AgentForms DEF QueueInv, Executed, Rest
<1>2. \A a \in Jobs : a \in Executed \cup Rest => Exists(a)
  BY HandsExist DEF QueueInv, ListInv
<1>3. \A a \in Jobs : \A b \in after[a] : b \in Jobs /\ Exists(b)
  BY DEF QueueInv, TypeOK, UserInv, Before
<1>4. \A b \in Jobs : Exists(b) /\ Open(b)' => Open(b)
  BY <1>1 DEF Open, RowsKept, RowKept
<1>5. Listed'
  <2>1. CASE agent'.rest = <<>>
    BY <2>1 DEF Listed
  <2>2. CASE agent'.rest = agent.rest
    <3>1. \A i \in DOMAIN agent.rest : agent.rest[i] \in Jobs
      BY AgentForms DEF QueueInv
    <3>. QED BY <2>2, <3>1 DEF QueueInv, ListInv, Listed, RowsKept, RowKept
  <2>. QED BY <2>1, <2>2
<1>6. RanClosed' /\ Turn'
  BY <1>1, <1>2, <1>3, <1>4 DEF QueueInv, ListInv, RanClosed, Turn
<1>7. NextTurn'
  <2>1. CASE Rest' = {}
    BY <2>1 DEF NextTurn
  <2>2. CASE agent'.rest = agent.rest /\ \A j \in Jobs : Starting(j) => j \in skipped'
    <3>1. Rest' = Rest
      BY <2>2 DEF Rest
    <3>. QED BY <1>1, <1>3, <1>4, <2>2, <3>1 DEF QueueInv, ListInv, NextTurn
  <2>. QED BY <2>1, <2>2 DEF Rest
<1>8. InOrder'
  BY DEF QueueInv, ListInv, InOrder
<1>. QED BY <1>5, <1>6, <1>7, <1>8 DEF ListInv

(* A request fails: its update was lost, was written, or is late.          *)
LEMMA CallFailsKeeps ==
  ASSUME QueueInv, CallFails
  PROVE  QueueInv'
<1>. DEFINE u == agent.call.update
<1>1. /\ Asks /\ TypeOK /\ u \in Update /\ Awaits(u) /\ u.job \in Jobs
      /\ agent' = [rest |-> agent.rest, call |-> Idle]
      /\ faults' = faults + 1
      /\ UNCHANGED <<user, now, after, order, overdue>>
      /\ skipped' = skipped \cup (IF agent.call.step = "start" THEN {u.job} ELSE {})
      /\ \/ UNCHANGED <<job, late>>
         \/ u.stamp # Never /\ Execute(u) /\ UNCHANGED late
         \/ late' = late \cup {[no |-> faults, update |-> u]} /\ UNCHANGED job
  BY AgentForms DEF CallFails, Fault, Served, LeftBehind, Calling, QueueInv, TypeOK, Asks, Awaits, Update
<1>2. job' \in [Jobs -> Row]
  BY <1>1, ExecuteMoves DEF TypeOK, QueueInv, UpdateInv, Sent
<1>3. late' \subseteq [no : Nat, update : Update] /\ skipped' \subseteq Jobs
  BY <1>1 DEF TypeOK
<1>4. TypeOK'
  BY <1>1, <1>2, <1>3, AgentForms DEF TypeOK
<1>5. \A v \in Update : Awaits(v)' => Awaits(v)
  BY <1>1 DEF Awaits, Asks, Idle
<1>6. InHand'
  BY <1>1 DEF QueueInv, UpdateInv, InHand, Idle
<1>7. UpdateInv' /\ RowsKept /\ NoNewRow
  <2>1. CASE UNCHANGED job
    <3>1. RowsKept /\ NoNewRow
      BY <2>1 DEF RowsKept, NoNewRow, RowKept, Exists
    <3>. QED BY <1>1, <1>4, <1>5, <1>6, <2>1, <3>1, UpdateStays DEF QueueInv, TypeOK
  <2>2. CASE u.stamp # Never /\ Execute(u)
    <3>1. Executed' = Executed
      BY <1>1 DEF Executed
    <3>. QED BY <1>1, <1>4, <1>5, <1>6, <2>2, <3>1, UpdateExecuted DEF QueueInv
  <2>. QED BY <1>1, <2>1, <2>2
<1>8. UserInv'
  BY <1>1, <1>4, <1>7, UserStays DEF QueueInv, TypeOK
<1>9. ListInv'
  <2>1. \A j \in Jobs : ~Starting(j)'
    BY <1>1 DEF Starting, Idle
  <2>2. \A j \in Jobs : Starting(j) => j \in skipped'
    BY <1>1 DEF Starting
  <2>. QED BY <1>1, <1>4, <1>7, <2>1, <2>2, ListGivenUp
<1>. QED BY <1>4, <1>7, <1>8, <1>9 DEF QueueInv

(* The agent dies: its listing is gone, its update may be late.            *)
LEMMA DieKeeps ==
  ASSUME QueueInv, Die
  PROVE  QueueInv'
<1>1. /\ TypeOK /\ agent' = [rest |-> <<>>, call |-> Idle]
      /\ faults' = faults + 1
      /\ late' = late \cup (IF Asks THEN {[no |-> faults, update |-> agent.call.update]} ELSE {})
      /\ UNCHANGED <<job, user, now, after, order, skipped, overdue>>
  BY DEF Die, Fault, LeftBehind, QueueInv, Asks
<1>2. late' \subseteq [no : Nat, update : Update]
  BY <1>1, AgentForms DEF TypeOK
<1>3. TypeOK'
  BY <1>1, <1>2 DEF TypeOK
<1>4. RowsKept /\ NoNewRow
  BY <1>1 DEF RowsKept, NoNewRow, RowKept, Exists
<1>5. UserInv'
  BY <1>1, <1>3, <1>4, UserStays DEF QueueInv, TypeOK
<1>6. UpdateInv'
  <2>1. \A u \in Update : Awaits(u)' => Awaits(u)
    BY <1>1 DEF Awaits, Asks, Idle
  <2>2. InHand'
    BY <1>1 DEF QueueInv, UpdateInv, InHand, Idle
  <2>. QED BY <1>1, <1>3, <2>1, <2>2, UpdateStays DEF QueueInv, TypeOK
<1>7. ListInv'
  <2>1. \A j \in Jobs : ~Starting(j)'
    BY <1>1 DEF Starting, Idle
  <2>. QED BY <1>1, <1>3, <1>4, <2>1, ListGivenUp
<1>. QED BY <1>3, <1>5, <1>6, <1>7 DEF QueueInv

(* Time, and steps of nobody.                                              *)
LEMMA RestKeeps ==
  ASSUME QueueInv, Tick \/ UNCHANGED vars
  PROVE  QueueInv'
<1>1. /\ TypeOK /\ now \in Nat /\ now' \in Nat /\ now <= now'
      /\ UNCHANGED <<job, user, agent, late, faults, after, order, skipped, overdue>>
  BY DEF Tick, vars, QueueInv, TypeOK
<1>2. TypeOK'
  BY <1>1 DEF TypeOK
<1>3. RowsKept /\ NoNewRow
  BY <1>1 DEF RowsKept, NoNewRow, RowKept, Exists
<1>4. UserInv'
  BY <1>1, <1>2, <1>3, UserStays DEF QueueInv
<1>5. UpdateInv'
  <2>1. InHand' /\ \A u \in Update : Awaits(u)' => Awaits(u)
    BY <1>1 DEF Awaits, Asks, QueueInv, UpdateInv, InHand, Executed
  <2>. QED BY <1>1, <1>2, <2>1, UpdateStays DEF QueueInv
<1>6. ListInv'
  BY <1>1, <1>2, <1>3, ListStays DEF Starting
<1>. QED BY <1>2, <1>4, <1>5, <1>6 DEF QueueInv

-----------------------------------------------------------------------------
(* The invariant and what follows from it.                                 *)

LEMMA QueueInvInit == Init => QueueInv
<1> SUFFICES ASSUME Init PROVE QueueInv
  OBVIOUS
<1>1. TypeOK
  BY DEF Init, TypeOK, NoRow, Row, Never
<1>2. Rest = {} /\ Executed = {} /\ \A u \in Update : ~Awaits(u)
  BY DEF Init, Rest, Executed, Awaits, Asks, Idle
<1>3. \A j \in Jobs : ~Exists(j)
  BY DEF Init, Exists, NoRow
<1>4. UserInv
  <2>1. {j \in Jobs : Exists(j)} = {}
    BY <1>3
  <2>. QED BY <1>3, <2>1, FS_EmptySet DEF UserInv, Rows, Creations, Before, Init, Idle
<1>5. UpdateInv
  BY <1>2, <1>3
     DEF UpdateInv, Sent, Starts, EndsLast, Ended, InHand, Init, Idle
<1>6. ListInv
  BY <1>2 DEF ListInv, Listed, RanClosed, Turn, NextTurn, InOrder, Init, Starting, Idle
<1>. QED BY <1>1, <1>4, <1>5, <1>6 DEF QueueInv

LEMMA QueueInvNext == QueueInv /\ [Next]_vars => QueueInv'
  BY BeginCreateKeeps, CreateKeeps, BeginCancelKeeps, CancelKeeps, PendingJobsKeeps,
     StartKeeps, BeginUpdateKeeps, StartedKeeps, ReportKeeps, ReportedKeeps, CallFailsKeeps,
     DieKeeps, BeginLateKeeps, LateKeeps, RestKeeps
  DEF Next, UserStep

(* The order of rows, updates and executions.                              *)
THEOREM QueueInvariant == Spec => []QueueInv
  BY QueueInvInit, QueueInvNext, PTL DEF Spec

(* First come, first served: PendingDeploymentJobs lists by created_at and *)
(* handleJob goes through the listing; only a job whose start request      *)
(* failed can be overtaken by one that was requested after its answer.     *)
THEOREM FirstComeFirstServed == Spec => []InOrder
<1>1. QueueInv => InOrder
  BY DEF QueueInv, ListInv
<1>. QED BY <1>1, QueueInvariant, PTL

(* A job that was executed and ended was started, not before it was        *)
(* created and not after it ended, although the clock is read before the   *)
(* statement's turn (UpdateDeploymentJobStatus) and the client posts times *)
(* of its own; a start request that the server takes up only after the     *)
(* agent gave up on it is the one exception.                               *)
THEOREM EndedAfterStart == Spec => []TimesInOrder
<1>1. QueueInv => TimesInOrder
  BY DEF QueueInv, UpdateInv, Ended, Starts, Ends, TimesInOrder
<1>. QED BY <1>1, QueueInvariant, PTL

=============================================================================
