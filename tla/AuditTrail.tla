----------------------------- MODULE AuditTrail -----------------------------
(***************************************************************************)
(* The life of a request at the control plane.  A handler reads its input, *)
(* executes one or two statements, records one audit event and answers     *)
(* (src/internal/api/server.go).  The statements and the event are no      *)
(* transaction; all run with the context of the request, which ends when   *)
(* the client goes away; recordAudit ignores its error.                    *)
(*                                                                         *)
(* The server ends on a signal: it stops listening and waits ten seconds   *)
(* for the handlers (src/cmd/cplane/main.go).                              *)
(*                                                                         *)
(* The rows are those of hosts and of deployment jobs.  The handlers that  *)
(* create and delete repositories and apps have the shape of those for     *)
(* hosts.  Reads that precede a statement only refuse.                     *)
(***************************************************************************)
EXTENDS Integers

CONSTANTS
  Requests,  \* every request of a behaviour
  Hosts,     \* identifiers of hosts
  Jobs,      \* identifiers of deployment jobs
  MaxTime,   \* bound on the clock
  MaxErrors, \* bound on the statements that fail
  MaxStops,  \* bound on the signals
  MaxKills   \* bound on the deaths

ASSUME AuditTrailAssumption ==
  /\ Hosts \cap Jobs = {}
  /\ {MaxTime, MaxErrors, MaxStops, MaxKills} \subseteq Nat

VARIABLES
  server,  \* the process of the control plane
  request, \* request[r]: where its handler is, with its data
  rows,    \* the identifiers of the rows there are
  spent,   \* the hosts whose install token was replaced
  trail,   \* audit_events
  now,     \* the clock
  count    \* errors, signals, expired shutdowns and deaths so far

vars == <<server, request, rows, spent, trail, now, count>>

\* The handlers, each by the action of its event.
OnHost == {"host.registered", "agent.registered", "host.deleted"}
OnJob == {"deployment.created", "deployment.canceled", "agent.job_completed"}

\* A row that did not exist and one that has to.
Inserts == {"host.registered", "deployment.created"}
Checked == {"agent.registered", "host.deleted"}

\* agent.job_completed inserts the release of a deploy and updates the job;
\* that of a setup_app, agent.job_started and agent.job_failed have one
\* statement, as deployment.canceled.
Statements(op) == IF op = "agent.job_completed" THEN 2 ELSE 1

\* good: whether a registration presents the install token of the host.
Op == [op : OnHost, on : Hosts, good : BOOLEAN] \cup [op : OnJob, on : Jobs, good : {FALSE}]

\* done: the statements that were executed; at: when the event was dated.
State ==
  [step : {"new"}] \cup
  [step : {"input", "change", "date", "record", "answer", "ok", "refused", "failed", "left", "cut"},
   of : Op, done : 0 .. 2, at : Nat]

Event == [by : Requests, action : OnHost \cup OnJob, on : Hosts \cup Jobs, at : Nat]

TypeOK ==
  /\ server \in {"up", "draining", "down"}
  /\ request \in [Requests -> State]
  /\ rows \subseteq Hosts \cup Jobs /\ spent \subseteq Hosts
  /\ trail \subseteq Event
  /\ now \in Nat
  /\ count \in [errors : Nat, stops : Nat, expired : Nat, kills : Nat]

Init ==
  /\ server = "up"
  /\ request = [r \in Requests |-> [step |-> "new"]]
  /\ rows = {} /\ spent = {} /\ trail = {} /\ now = 0
  /\ count = [errors |-> 0, stops |-> 0, expired |-> 0, kills |-> 0]

At(r, step) == request[r].step = step
InFlight(r) == request[r].step \in {"input", "change", "date", "record", "answer"}
GoOn(r, step) == request' = [request EXCEPT ![r].step = step]
Of(r) == request[r].of
Executed(r) == request' = [request EXCEPT
  ![r].done = @ + 1,
  ![r].step = IF request[r].done + 1 < Statements(Of(r).op) THEN "change" ELSE "date"]

-----------------------------------------------------------------------------
(* Requests.                                                               *)

\* The install token of a host is known from the answer that created it;
\* identifiers are known from listings.
Knows(of) ==
  of.good =>
    /\ of.op = "agent.registered"
    /\ \E q \in Requests : At(q, "ok") /\ Of(q).op = "host.registered" /\ Of(q).on = of.on

\* Identifiers are random: no two requests insert the same row.
IsNew(of) ==
  of.op \in Inserts =>
    \A q \in Requests : ~At(q, "new") => ~(Of(q).op = of.op /\ Of(q).on = of.on)

Arrive(r) ==
  /\ server = "up" /\ At(r, "new")
  /\ \E of \in Op :
       /\ Knows(of) /\ IsNew(of)
       /\ request' = [request EXCEPT ![r] = [step |-> "input", of |-> of, done |-> 0, at |-> 0]]
  /\ UNCHANGED <<server, rows, spent, trail, now, count>>

\* decodeJSON, ParseForm and the checks of required fields.
Input(r) ==
  /\ At(r, "input")
  /\ GoOn(r, "change") \/ GoOn(r, "refused")
  /\ UNCHANGED <<server, rows, spent, trail, now, count>>

Insert(r) ==
  /\ Of(r).op \in Inserts
  /\ rows' = rows \cup {Of(r).on}
  /\ Executed(r)
  /\ UNCHANGED spent

\* Mutant: an error of the store does not end the handler.
RefuseAndGoOn(r) ==
  /\ Of(r).op \in Checked
  /\ GoOn(r, "date")
  /\ UNCHANGED <<rows, spent>>

\* A host that is not there, a token that is not the current one, a host that
\* may not be deleted yet (see Registry).
Refuse(r) ==
  /\ Of(r).op \in Checked
  /\ Of(r).op = "host.deleted" \/ Of(r).on \notin rows \ spent \/ ~Of(r).good
  /\ GoOn(r, "refused")
  /\ UNCHANGED <<rows, spent>>

Register(r) ==
  /\ Of(r).op = "agent.registered"
  /\ Of(r).on \in rows \ spent /\ Of(r).good
  /\ spent' = spent \cup {Of(r).on}
  /\ Executed(r)
  /\ UNCHANGED rows

Delete(r) ==
  /\ Of(r).op = "host.deleted" /\ Of(r).on \in rows
  /\ rows' = rows \ {Of(r).on}
  /\ Executed(r)
  /\ UNCHANGED spent

\* An UPDATE that nobody asks how many rows it changed.
Update(r) ==
  /\ Of(r).op = "deployment.canceled"
  /\ Executed(r)
  /\ UNCHANGED <<rows, spent>>

\* The job has to be there for its release; then it is updated.
Complete(r) ==
  /\ Of(r).op = "agent.job_completed"
  /\ IF Of(r).on \in rows THEN Executed(r) ELSE GoOn(r, "refused")
  /\ UNCHANGED <<rows, spent>>

Change(r) ==
  /\ At(r, "change")
  /\ Insert(r) \/ Register(r) \/ Delete(r) \/ Update(r) \/ Complete(r) \/ Refuse(r)
  /\ UNCHANGED <<server, trail, now, count>>

ChangeFails(r) ==
  /\ At(r, "change")
  /\ count.errors < MaxErrors /\ count' = [count EXCEPT !.errors = @ + 1]
  /\ GoOn(r, "failed")
  /\ UNCHANGED <<server, rows, spent, trail, now>>

\* Mutant: the install command is answered before the event is recorded, and
\* the handler is over.
DateAfterAnswer(r) ==
  /\ At(r, "date")
  /\ IF Of(r).op = "host.registered" THEN GoOn(r, "answer")
     ELSE request' = [request EXCEPT ![r].at = now, ![r].step = "record"]
  /\ UNCHANGED <<server, rows, spent, trail, now, count>>

\* RecordAudit reads the clock and waits for the connection.
Date(r) ==
  /\ At(r, "date")
  /\ request' = [request EXCEPT ![r].at = now, ![r].step = "record"]
  /\ UNCHANGED <<server, rows, spent, trail, now, count>>

Record(r) ==
  /\ At(r, "record")
  /\ GoOn(r, "answer")
  /\ trail' = trail \cup
       {[by |-> r, action |-> Of(r).op, on |-> Of(r).on, at |-> request[r].at]}
  /\ UNCHANGED <<server, rows, spent, now, count>>

\* The error is ignored.
RecordFails(r) ==
  /\ At(r, "record")
  /\ count.errors < MaxErrors /\ count' = [count EXCEPT !.errors = @ + 1]
  /\ GoOn(r, "answer")
  /\ UNCHANGED <<server, rows, spent, trail, now>>

Answer(r) ==
  /\ At(r, "answer")
  /\ GoOn(r, "ok")
  /\ UNCHANGED <<server, rows, spent, trail, now, count>>

\* The client goes away: what waits for the connection is not executed.
Leave(r) ==
  /\ InFlight(r)
  /\ GoOn(r, "left")
  /\ UNCHANGED <<server, rows, spent, trail, now, count>>

-----------------------------------------------------------------------------
(* The process.                                                            *)

\* The end of the process is the end of its handlers.
Cut == request' = [r \in Requests |-> IF InFlight(r) THEN [request[r] EXCEPT !.step = "cut"]
                                      ELSE request[r]]

Signal ==
  /\ server = "up"
  /\ count.stops < MaxStops /\ count' = [count EXCEPT !.stops = @ + 1]
  /\ server' = "draining"
  /\ UNCHANGED <<request, rows, spent, trail, now>>

\* Mutant: the server is closed without waiting.
Close ==
  /\ server = "draining" /\ server' = "down" /\ Cut
  /\ UNCHANGED <<rows, spent, trail, now, count>>

\* Shutdown returns when no handler is under way.
Drained ==
  /\ server = "draining" /\ \A r \in Requests : ~InFlight(r)
  /\ server' = "down"
  /\ UNCHANGED <<request, rows, spent, trail, now, count>>

\* Mutant: Shutdown is given a context without a deadline.
NeverExpire == FALSE /\ UNCHANGED vars

\* Ten seconds are over, and main returns.
Expire ==
  /\ server = "draining" /\ \E r \in Requests : InFlight(r)
  /\ server' = "down" /\ Cut
  /\ count' = [count EXCEPT !.expired = @ + 1]
  /\ UNCHANGED <<rows, spent, trail, now>>

Kill ==
  /\ server # "down"
  /\ count.kills < MaxKills /\ count' = [count EXCEPT !.kills = @ + 1]
  /\ server' = "down" /\ Cut
  /\ UNCHANGED <<rows, spent, trail, now>>

Start ==
  /\ server = "down" /\ server' = "up"
  /\ UNCHANGED <<request, rows, spent, trail, now, count>>

Tick ==
  /\ now < MaxTime /\ now' = now + 1
  /\ UNCHANGED <<server, request, rows, spent, trail, count>>

Handle(r) == Input(r) \/ Change(r) \/ Date(r) \/ Record(r) \/ Answer(r)

Next ==
  \/ \E r \in Requests : Arrive(r) \/ Handle(r) \/ ChangeFails(r) \/ RecordFails(r) \/ Leave(r)
  \/ Signal \/ Drained \/ Expire \/ Kill \/ Start \/ Tick

\* A timer fires, and main returns when Shutdown does.  A client may send its
\* input for ever: the server has no read timeout.
Fairness == WF_vars(Drained) /\ WF_vars(Expire)

Spec == Init /\ [][Next]_vars /\ Fairness

-----------------------------------------------------------------------------
(* Properties.                                                             *)

Recorded(r) == \E e \in trail : e.by = r
Changed(r) == request[r].step # "new" /\ request[r].done > 0

\* The trail tells of nothing that did not happen: an event is of a handler
\* that executed all of its statements.
EventsHappened ==
  \A e \in trail : request[e.by].done = Statements(e.action)

\* A change without its event has a reason: the client left, a statement
\* failed, the shutdown took longer than ten seconds, or the server died.  A
\* signal alone leaves no gap, whatever it interrupts.
GapsHaveReason ==
  \A r \in Requests :
    Changed(r) /\ ~InFlight(r) /\ ~Recorded(r) =>
      \/ At(r, "left")
      \/ count.errors > 0
      \/ At(r, "cut") /\ count.expired + count.kills > 0

\* What the answer to one request makes possible is recorded after it: a host
\* whose registration is in the trail has its creation there, and not later.
CauseBeforeEffect ==
  \A e \in trail : e.action = "agent.registered" =>
    \/ count.errors > 0
    \/ \E c \in trail : c.action = "host.registered" /\ c.on = e.on /\ c.at <= e.at

\* A signal ends the server, also when a client never ends its request.
StopEnds == server = "draining" ~> server = "down"

=============================================================================
