-------------------------- MODULE AuditTrailProofs --------------------------
(***************************************************************************)
(* The audit trail tells of nothing that did not happen, has a reason for  *)
(* every gap and tells causes before effects, for every number of requests *)
(* and clock readings.                                                     *)
(*                                                                         *)
(* The invariant has three parts.  Life says what the place of a handler   *)
(* implies for its statements and its event, Caused that an install token  *)
(* is presented only after the event of the host that was given it, Told   *)
(* that an event is of a handler past its statements.  All that one        *)
(* handler knows of the others only grows: jobs stay, and so do events,    *)
(* errors and instants.                                                    *)
(***************************************************************************)
EXTENDS AuditTrail, TLAPS

Steps == {"input", "change", "date", "record", "answer", "ok", "refused", "failed",
          "left", "cut"}

\* A request that has arrived.
Full == [step : Steps, of : Op, done : 0 .. 2, at : Nat]

\* Its event has a date.
Dated == {"record", "answer", "ok"}

Life(r) ==
  LET q == request[r] IN
  q.step # "new" =>
    /\ q.step = "input" => q.done = 0
    /\ q.step = "change" =>
         /\ q.done < Statements(q.of.op)
         /\ q.done > 0 => q.of.op = "agent.job_completed" /\ q.of.on \in rows
    /\ q.step \in {"date", "record", "answer", "ok"} => q.done = Statements(q.of.op)
    /\ q.step = "refused" => q.done = 0
    /\ q.step = "failed" => count.errors > 0
    /\ q.step \in {"answer", "ok"} => Recorded(r) \/ count.errors > 0
    /\ q.step = "cut" => count.expired + count.kills > 0
    /\ q.at <= now

\* The creation of host is in the trail, with a date up to time.
CreationTold(host, time) ==
  \E c \in trail : c.action = "host.registered" /\ c.on = host /\ c.at <= time

Caused(r) ==
  LET q == request[r] IN
  q.step # "new" =>
    /\ q.of.op = "agent.registered" /\ q.done > 0 => q.of.good
    /\ q.of.good =>
         \/ count.errors > 0
         \/ CreationTold(q.of.on, now) /\ (q.step \in Dated => CreationTold(q.of.on, q.at))

Told(e) ==
  LET q == request[e.by] IN
    /\ q.step \in {"answer", "ok", "left", "cut"}
    /\ e.action = q.of.op /\ e.on = q.of.on
    /\ q.done = Statements(q.of.op)
    /\ e.at <= now

TrailInv ==
  /\ TypeOK
  /\ \A r \in Requests : Life(r) /\ Caused(r)
  /\ \A e \in trail : Told(e)
  /\ CauseBeforeEffect

-----------------------------------------------------------------------------
(* What stays true.                                                        *)

\* No job goes away, no event, no error and no death, and the clock runs on.
Grows ==
  /\ rows \cap Jobs \subseteq rows' /\ trail \subseteq trail' /\ now <= now'
  /\ count.errors <= count'.errors
  /\ count.expired + count.kills <= count'.expired + count'.kills

(* The states of a request.                                                *)
LEMMA StateForms ==
  ASSUME TypeOK, NEW r \in Requests
  PROVE  /\ request[r].step # "new" => request[r] \in Full
         /\ request[r].step = "new" => request[r] = [step |-> "new"]
  BY DEF TypeOK, State, Full, Steps

(* A handler goes on.                                                      *)
LEMMA GoOnMoves ==
  ASSUME TypeOK, NEW r \in Requests, request[r].step # "new", NEW s \in Steps, GoOn(r, s)
  PROVE  /\ request' \in [Requests -> State]
         /\ request'[r].step = s /\ request'[r].of = request[r].of
         /\ request'[r].done = request[r].done /\ request'[r].at = request[r].at
         /\ \A q \in Requests \ {r} : request'[q] = request[q]
<1>1. request[r] \in Full /\ request \in [Requests -> State]
  BY StateForms DEF TypeOK
<1>2. [request[r] EXCEPT !.step = s] \in Full
  BY <1>1 DEF Full
<1>3. Full \subseteq State
  BY DEF Full, State, Steps
<1>. QED BY <1>1, <1>2, <1>3 DEF GoOn, Full

(* A statement of a handler is executed.                                   *)
LEMMA ExecutedMoves ==
  ASSUME TypeOK, NEW r \in Requests, request[r].step # "new",
         request[r].done < Statements(Of(r).op), Executed(r)
  PROVE  /\ request' \in [Requests -> State]
         /\ request'[r].of = request[r].of /\ request'[r].at = request[r].at
         /\ request'[r].done = request[r].done + 1
         /\ request'[r].step = IF request[r].done + 1 < Statements(Of(r).op)
                               THEN "change" ELSE "date"
         /\ \A q \in Requests \ {r} : request'[q] = request[q]
<1>1. request[r] \in Full /\ request \in [Requests -> State]
  BY StateForms DEF TypeOK
<1>. DEFINE s == IF request[r].done + 1 < Statements(Of(r).op) THEN "change" ELSE "date"
            y == [request[r] EXCEPT !.done = @ + 1]
            x == [y EXCEPT !.step = s]
<1>2. request' = [request EXCEPT ![r] = x]
  BY <1>1 DEF Executed
<1>3. request[r].done \in 0 .. 1
  BY <1>1 DEF Full, Statements
<1>4. x \in Full
  <2>1. s \in Steps
    BY DEF Steps
  <2>2. y \in Full
    BY <1>1, <1>3 DEF Full
  <2>. HIDE DEF s, y
  <2>. QED BY <2>1, <2>2 DEF Full
<1>5. Full \subseteq State
  BY DEF Full, State, Steps
<1>. QED BY <1>1, <1>2, <1>4, <1>5 DEF Full

(* A request that does not move keeps its part of the invariant.           *)
LEMMA OthersKeep ==
  ASSUME TypeOK, TypeOK', Grows, NEW q \in Requests, request'[q] = request[q],
         Life(q), Caused(q)
  PROVE  Life(q)' /\ Caused(q)'
<1>1. CASE request[q].step = "new"
  BY <1>1 DEF Life, Caused
<1>2. CASE request[q].step # "new"
  <2>1. /\ request[q] \in Full
        /\ request[q].of.op = "agent.job_completed" => request[q].of.on \in Jobs
    BY <1>2, StateForms DEF Full, Op, OnHost, OnJob
  <2>2. /\ count.errors \in Nat /\ count'.errors \in Nat
        /\ count.expired + count.kills \in Nat /\ count'.expired + count'.kills \in Nat
    BY DEF TypeOK
  <2>3. Recorded(q) => Recorded(q)'
    BY DEF Recorded, Grows
  <2>4. Life(q)'
    <3>1. request[q].at <= now => request[q].at <= now'
      BY <2>1 DEF TypeOK, Full, Grows
    <3>. QED BY <1>2, <2>1, <2>2, <2>3, <3>1 DEF Life, Grows
  <2>5. ASSUME NEW time \in Nat, NEW later \in Nat, time <= later, NEW host,
               CreationTold(host, time)
        PROVE  \E c \in trail' : c.action = "host.registered" /\ c.on = host /\ c.at <= later
    BY <2>5 DEF CreationTold, Grows, TypeOK, Event
  <2>6. now \in Nat /\ now' \in Nat /\ now <= now' /\ request[q].at \in Nat
    BY <2>1 DEF TypeOK, Grows, Full
  <2>7. CreationTold(request[q].of.on, now) => CreationTold(request[q].of.on, now)'
    BY <2>5, <2>6 DEF CreationTold
  <2>8. CreationTold(request[q].of.on, request[q].at)
          => CreationTold(request[q].of.on, request[q].at)'
    <3>1. CreationTold(request[q].of.on, request[q].at) =>
            \E c \in trail' : /\ c.action = "host.registered" /\ c.on = request[q].of.on
                             /\ c.at <= request[q].at
      BY <2>5, <2>6
    <3>. QED BY <3>1 DEF CreationTold
  <2>9. Caused(q)'
    <3>1. count.errors > 0 => count'.errors > 0
      BY <2>2 DEF Grows
    <3>. QED BY <2>7, <2>8, <3>1 DEF Caused
  <2>. QED BY <2>4, <2>9
<1>. QED BY <1>1, <1>2

\* The places of a handler whose event may be in the trail.
Past == {"answer", "ok", "left", "cut"}

\* No way leads back from there.
Stays(r) ==
  request[r].step \in Past =>
    /\ request'[r].step \in Past
    /\ request'[r].of = request[r].of /\ request'[r].done = request[r].done

\* Only r moves.
Moves(r) == Stays(r) /\ \A q \in Requests \ {r} : request'[q] = request[q]

(* The events that were there keep what is told of them.                   *)
LEMMA ToldKeeps ==
  ASSUME TrailInv, TypeOK', Grows, NEW e \in trail, Stays(e.by)
  PROVE  Told(e)'
<1>1. /\ Told(e) /\ e.at \in Nat /\ now \in Nat /\ now' \in Nat
  BY DEF TrailInv, TypeOK, Event
<1>2. e.at <= now'
  BY <1>1 DEF Told, Grows
<1>. QED BY <1>1, <1>2 DEF Told, Stays, Past

(* What is left to show when one handler moves and records nothing.        *)
LEMMA OneMoves ==
  ASSUME TrailInv, TypeOK', Grows, UNCHANGED trail,
         NEW r \in Requests, Moves(r), Life(r)', Caused(r)'
  PROVE  TrailInv'
<1>1. ASSUME NEW q \in Requests PROVE Life(q)' /\ Caused(q)'
  BY OthersKeep DEF TrailInv, Moves
<1>2. ASSUME NEW e \in trail PROVE Told(e)'
  <2>1. e.by \in Requests
    BY DEF TrailInv, TypeOK, Event
  <2>. QED BY <2>1, ToldKeeps DEF Moves, Stays
<1>3. CauseBeforeEffect'
  <2>1. count.errors \in Nat /\ count'.errors \in Nat
    BY DEF TrailInv, TypeOK
  <2>. QED BY <2>1 DEF TrailInv, CauseBeforeEffect, Grows
<1>. QED BY <1>1, <1>2, <1>3 DEF TrailInv

(* The same when only the server, the clock or the counters move.          *)
LEMMA NoneMoves ==
  ASSUME TrailInv, TypeOK', Grows, UNCHANGED trail, UNCHANGED request
  PROVE  TrailInv'
<1>1. ASSUME NEW q \in Requests PROVE Life(q)' /\ Caused(q)'
  BY OthersKeep DEF TrailInv
<1>2. ASSUME NEW e \in trail PROVE Told(e)'
  BY ToldKeeps DEF Stays
<1>3. CauseBeforeEffect'
  <2>1. count.errors \in Nat /\ count'.errors \in Nat
    BY DEF TrailInv, TypeOK
  <2>. QED BY <2>1 DEF TrailInv, CauseBeforeEffect, Grows
<1>. QED BY <1>1, <1>2, <1>3 DEF TrailInv

(* What an event in the trail tells stays told.                            *)
LEMMA CreationStays ==
  ASSUME TypeOK, NEW host, NEW time \in Nat, NEW later \in Nat, time <= later,
         CreationTold(host, time), UNCHANGED trail
  PROVE  CreationTold(host, later)
  BY DEF CreationTold, TypeOK, Event

-----------------------------------------------------------------------------
(* The handlers.                                                           *)

(* A token is known from an answer, and the event was recorded before it.  *)
LEMMA ArriveKeeps ==
  ASSUME TrailInv, NEW r \in Requests, Arrive(r)
  PROVE  TrailInv'
<1>1. PICK of \in Op : /\ Knows(of) /\ IsNew(of)
                       /\ request' = [request EXCEPT ![r] = [step |-> "input", of |-> of, done |-> 0, at |-> 0]]
  BY DEF Arrive
<1>2. UNCHANGED <<server, rows, spent, trail, now, count>> /\ TypeOK /\ request[r].step = "new"
  BY DEF Arrive, TrailInv, At
<1>3. /\ request'[r] = [step |-> "input", of |-> of, done |-> 0, at |-> 0]
      /\ \A q \in Requests \ {r} : request'[q] = request[q]
  BY <1>1, <1>2 DEF TypeOK
<1>4. TypeOK'
  <2>1. [step |-> "input", of |-> of, done |-> 0, at |-> 0] \in State
    BY DEF State
  <2>. QED BY <1>1, <1>2, <2>1 DEF TypeOK
<1>5. Grows
  BY <1>2 DEF Grows, TypeOK
<1>6. Moves(r)
  BY <1>2, <1>3 DEF Moves, Stays, Past
<1>7. Life(r)'
  BY <1>2, <1>3 DEF Life, TypeOK
<1>8. Caused(r)'
  <2>1. SUFFICES ASSUME of.good, count.errors = 0
                 PROVE  of.op = "agent.registered" /\ CreationTold(of.on, now)
    BY <1>2, <1>3 DEF Caused, Dated, TypeOK, CreationTold
  <2>2. PICK q \in Requests : At(q, "ok") /\ Of(q).op = "host.registered" /\ Of(q).on = of.on
    BY <1>1, <2>1 DEF Knows
  <2>3. Recorded(q)
    BY <2>1, <2>2 DEF TrailInv, Life, At
  <2>4. PICK c \in trail : c.by = q
    BY <2>3 DEF Recorded
  <2>5. Told(c)
    BY DEF TrailInv
  <2>6. CreationTold(of.on, now)
    BY <2>2, <2>4, <2>5 DEF Told, CreationTold, Of
  <2>. QED BY <1>1, <2>1, <2>6 DEF Knows
<1>. QED BY <1>2, <1>4, <1>5, <1>6, <1>7, <1>8, OneMoves

(* The input is read, or refused.                                          *)
LEMMA InputKeeps ==
  ASSUME TrailInv, NEW r \in Requests, Input(r)
  PROVE  TrailInv'
<1>1. TypeOK /\ Life(r) /\ Caused(r) /\ request[r] \in Full /\ request[r].step # "new"
  BY StateForms DEF TrailInv, Input, At
<1>2. PICK s \in {"change", "refused"} : GoOn(r, s)
  BY DEF Input
<1>3. /\ request' \in [Requests -> State]
      /\ request'[r].step = s /\ request'[r].of = request[r].of
      /\ request'[r].done = request[r].done /\ request'[r].at = request[r].at
      /\ \A q \in Requests \ {r} : request'[q] = request[q]
  BY <1>1, <1>2, GoOnMoves DEF Steps
<1>4. TypeOK'
  BY <1>1, <1>3 DEF Input, TypeOK
<1>5. Grows
  BY <1>1 DEF Input, Grows, TypeOK
<1>6. Moves(r)
  BY <1>1, <1>3 DEF Input, Moves, Stays, Past, At, InFlight
<1>7. Life(r)'
  BY <1>1, <1>3 DEF Input, Life, At, Statements
<1>8. Caused(r)'
  BY <1>1, <1>3 DEF Input, Caused, CreationTold, At, InFlight, Dated, TypeOK
<1>. QED BY <1>4, <1>5, <1>6, <1>7, <1>8, OneMoves DEF Input

(* A statement fails.                                                      *)
LEMMA ChangeFailsKeeps ==
  ASSUME TrailInv, NEW r \in Requests, ChangeFails(r)
  PROVE  TrailInv'
<1>1. TypeOK /\ Life(r) /\ Caused(r) /\ request[r] \in Full /\ request[r].step # "new"
  BY StateForms DEF TrailInv, ChangeFails, At
<1>2. PICK s \in {"failed"} : GoOn(r, s)
  BY DEF ChangeFails
<1>3. /\ request' \in [Requests -> State]
      /\ request'[r].step = s /\ request'[r].of = request[r].of
      /\ request'[r].done = request[r].done /\ request'[r].at = request[r].at
      /\ \A q \in Requests \ {r} : request'[q] = request[q]
  BY <1>1, <1>2, GoOnMoves DEF Steps
<1>4. TypeOK'
  BY <1>1, <1>3 DEF ChangeFails, TypeOK
<1>5. Grows
  BY <1>1 DEF ChangeFails, Grows, TypeOK
<1>6. Moves(r)
  BY <1>1, <1>3 DEF ChangeFails, Moves, Stays, Past, At, InFlight
<1>7. Life(r)'
  BY <1>1, <1>3 DEF ChangeFails, Life, At, InFlight, TypeOK, Full, Recorded
<1>8. Caused(r)'
  BY <1>1, <1>3 DEF ChangeFails, Caused, CreationTold, At, InFlight, Dated, TypeOK
<1>. QED BY <1>4, <1>5, <1>6, <1>7, <1>8, OneMoves DEF ChangeFails

(* The event is lost, which an error explains.                             *)
LEMMA RecordFailsKeeps ==
  ASSUME TrailInv, NEW r \in Requests, RecordFails(r)
  PROVE  TrailInv'
<1>1. TypeOK /\ Life(r) /\ Caused(r) /\ request[r] \in Full /\ request[r].step # "new"
  BY StateForms DEF TrailInv, RecordFails, At
<1>2. PICK s \in {"answer"} : GoOn(r, s)
  BY DEF RecordFails
<1>3. /\ request' \in [Requests -> State]
      /\ request'[r].step = s /\ request'[r].of = request[r].of
      /\ request'[r].done = request[r].done /\ request'[r].at = request[r].at
      /\ \A q \in Requests \ {r} : request'[q] = request[q]
  BY <1>1, <1>2, GoOnMoves DEF Steps
<1>4. TypeOK'
  BY <1>1, <1>3 DEF RecordFails, TypeOK
<1>5. Grows
  BY <1>1 DEF RecordFails, Grows, TypeOK
<1>6. Moves(r)
  BY <1>1, <1>3 DEF RecordFails, Moves, Stays, Past, At, InFlight
<1>7. Life(r)'
  BY <1>1, <1>3 DEF RecordFails, Life, At, InFlight, TypeOK, Full, Recorded
<1>8. Caused(r)'
  BY <1>1, <1>3 DEF RecordFails, Caused, CreationTold, At, InFlight, Dated, TypeOK
<1>. QED BY <1>4, <1>5, <1>6, <1>7, <1>8, OneMoves DEF RecordFails

(* The answer.                                                             *)
LEMMA AnswerKeeps ==
  ASSUME TrailInv, NEW r \in Requests, Answer(r)
  PROVE  TrailInv'
<1>1. TypeOK /\ Life(r) /\ Caused(r) /\ request[r] \in Full /\ request[r].step # "new"
  BY StateForms DEF TrailInv, Answer, At
<1>2. PICK s \in {"ok"} : GoOn(r, s)
  BY DEF Answer
<1>3. /\ request' \in [Requests -> State]
      /\ request'[r].step = s /\ request'[r].of = request[r].of
      /\ request'[r].done = request[r].done /\ request'[r].at = request[r].at
      /\ \A q \in Requests \ {r} : request'[q] = request[q]
  BY <1>1, <1>2, GoOnMoves DEF Steps
<1>4. TypeOK'
  BY <1>1, <1>3 DEF Answer, TypeOK
<1>5. Grows
  BY <1>1 DEF Answer, Grows, TypeOK
<1>6. Moves(r)
  BY <1>1, <1>3 DEF Answer, Moves, Stays, Past, At, InFlight
<1>7. Life(r)'
  BY <1>1, <1>3 DEF Answer, Life, At, InFlight, TypeOK, Full, Recorded
<1>8. Caused(r)'
  BY <1>1, <1>3 DEF Answer, Caused, CreationTold, At, InFlight, Dated, TypeOK
<1>. QED BY <1>4, <1>5, <1>6, <1>7, <1>8, OneMoves DEF Answer

(* The client leaves.                                                      *)
LEMMA LeaveKeeps ==
  ASSUME TrailInv, NEW r \in Requests, Leave(r)
  PROVE  TrailInv'
<1>1. TypeOK /\ Life(r) /\ Caused(r) /\ request[r] \in Full /\ request[r].step # "new"
  BY StateForms DEF TrailInv, Leave, InFlight
<1>2. PICK s \in {"left"} : GoOn(r, s)
  BY DEF Leave
<1>3. /\ request' \in [Requests -> State]
      /\ request'[r].step = s /\ request'[r].of = request[r].of
      /\ request'[r].done = request[r].done /\ request'[r].at = request[r].at
      /\ \A q \in Requests \ {r} : request'[q] = request[q]
  BY <1>1, <1>2, GoOnMoves DEF Steps
<1>4. TypeOK'
  BY <1>1, <1>3 DEF Leave, TypeOK
<1>5. Grows
  BY <1>1 DEF Leave, Grows, TypeOK
<1>6. Moves(r)
  BY <1>1, <1>3 DEF Leave, Moves, Stays, Past, At, InFlight
<1>7. Life(r)'
  BY <1>1, <1>3 DEF Leave, Life, At, InFlight, TypeOK, Full, Recorded
<1>8. Caused(r)'
  BY <1>1, <1>3 DEF Leave, Caused, CreationTold, At, InFlight, Dated, TypeOK
<1>. QED BY <1>4, <1>5, <1>6, <1>7, <1>8, OneMoves DEF Leave

(* A statement: all of them are executed before the event is dated, and a  *)
(* job that got its release is still there for its update.                 *)
LEMMA ChangeKeeps ==
  ASSUME TrailInv, NEW r \in Requests, Change(r)
  PROVE  TrailInv'
<1> DEFINE q == request[r]
<1>1. /\ TypeOK /\ Life(r) /\ Caused(r) /\ q \in Full /\ q.step = "change"
      /\ UNCHANGED <<server, trail, now, count>>
  BY StateForms DEF TrailInv, Change, At
<1>2. /\ q.done < Statements(q.of.op) /\ q.done \in 0 .. 2
      /\ q.done > 0 => q.of.op = "agent.job_completed" /\ q.of.on \in rows
      /\ q.of.op \in OnHost => q.of.on \in Hosts
      /\ q.of.op \in OnJob => q.of.on \in Jobs
      /\ q.of.op \in OnHost \cup OnJob
  BY <1>1 DEF Life, Full, Op, OnHost, OnJob
<1>3. CASE Executed(r)
  <2>1. /\ request' \in [Requests -> State]
        /\ request'[r].of = q.of /\ request'[r].at = q.at
        /\ request'[r].done = q.done + 1
        /\ request'[r].step = IF q.done + 1 < Statements(q.of.op) THEN "change" ELSE "date"
        /\ \A x \in Requests \ {r} : request'[x] = request[x]
    BY <1>1, <1>2, <1>3, ExecutedMoves DEF Of
  <2>2. /\ rows' \subseteq Hosts \cup Jobs /\ rows \cap Jobs \subseteq rows'
        /\ spent' \subseteq Hosts
        /\ q.of.op = "agent.job_completed" => q.of.on \in rows'
        /\ q.of.op = "agent.registered" => q.of.good
    <3>1. q.of.op # "host.deleted" => rows \subseteq rows'
      BY DEF Change, Insert, Register, Delete, Update, Complete, Refuse, Of
    <3>2. rows' \subseteq Hosts \cup Jobs /\ spent' \subseteq Hosts
      BY <1>1, <1>2
         DEF Change, Insert, Register, Delete, Update, Complete, Refuse, Of, TypeOK,
         OnHost, OnJob
    <3>3. CASE q.of.op = "host.deleted"
      BY <1>1, <1>2, <3>2, <3>3, AuditTrailAssumption
      DEF Change, Insert, Register, Delete, Update, Complete, Refuse, Of, Inserts, OnHost
    <3>4. ASSUME q.of.op = "agent.job_completed" PROVE q.of.on \in rows
      <4>1. Complete(r)
        BY <3>4
           DEF Change, Insert, Register, Delete, Update, Complete, Refuse, Of, Inserts,
           Checked
      <4>2. ASSUME q.of.on \notin rows PROVE FALSE
        BY <1>1, <1>3, <2>1, <4>1, <4>2, GoOnMoves DEF Complete, Of, Steps
      <4>. QED BY <4>2
    <3>5. ASSUME q.of.op = "agent.registered" PROVE q.of.good
      <4>1. CASE Register(r)
        BY <4>1 DEF Register, Of
      <4>2. CASE Refuse(r)
        BY <1>1, <2>1, <4>2, GoOnMoves DEF Refuse, Steps
      <4>. QED BY <3>5, <4>1, <4>2 DEF Change, Insert, Delete, Update, Complete, Of, Inserts
    <3>. QED BY <3>1, <3>2, <3>3, <3>4, <3>5
  <2>3. TypeOK'
    BY <1>1, <2>1, <2>2 DEF TypeOK
  <2>4. Grows
    BY <1>1, <2>2 DEF Grows, TypeOK
  <2>5. Moves(r)
    BY <1>1, <2>1 DEF Moves, Stays, Past
  <2>6. Life(r)'
    BY <1>1, <1>2, <2>1, <2>2 DEF Life, Statements
  <2>7. Caused(r)'
    BY <1>1, <2>1, <2>2 DEF Caused, CreationTold, Dated
  <2>. QED BY <1>1, <2>3, <2>4, <2>5, <2>6, <2>7, OneMoves
<1>4. CASE GoOn(r, "refused") /\ UNCHANGED <<rows, spent>> /\ q.done = 0
  <2>1. /\ request' \in [Requests -> State]
        /\ request'[r].step = "refused" /\ request'[r].of = q.of
        /\ request'[r].done = q.done /\ request'[r].at = q.at
        /\ \A x \in Requests \ {r} : request'[x] = request[x]
    BY <1>1, <1>4, GoOnMoves DEF Steps
  <2>2. TypeOK' /\ Grows /\ Moves(r)
    BY <1>1, <1>4, <2>1 DEF TypeOK, Grows, Moves, Stays, Past
  <2>3. Life(r)' /\ Caused(r)'
    BY <1>1, <1>4, <2>1 DEF Life, Caused, CreationTold, Dated
  <2>. QED BY <1>1, <2>2, <2>3, OneMoves
<1>5. Executed(r) \/ (GoOn(r, "refused") /\ UNCHANGED <<rows, spent>> /\ q.done = 0)
  <2>1. CASE Complete(r)
    BY <1>2, <2>1 DEF Complete, Of
  <2>2. CASE Refuse(r)
    BY <1>2, <2>2 DEF Refuse, Of, Checked
  <2>. QED BY <2>1, <2>2 DEF Change, Insert, Register, Delete, Update
<1>. QED BY <1>3, <1>4, <1>5

(* The date of the event: it is not before what caused it.                 *)
LEMMA DateKeeps ==
  ASSUME TrailInv, NEW r \in Requests, Date(r)
  PROVE  TrailInv'
<1> DEFINE x == [request[r] EXCEPT !.at = now]
           y == [x EXCEPT !.step = "record"]
<1>1. /\ TypeOK /\ Life(r) /\ Caused(r) /\ request[r] \in Full /\ request[r].step = "date"
      /\ UNCHANGED <<server, rows, spent, trail, now, count>> /\ now \in Nat
  BY StateForms DEF TrailInv, Date, At, TypeOK
<1>2. request' = [request EXCEPT ![r] = y]
  BY <1>1 DEF Date, TypeOK
<1>3. x \in Full
  BY <1>1 DEF Full
<1>4. y \in Full
  <2>. HIDE DEF x
  <2>. QED BY <1>3 DEF Full, Steps
<1>5. y \in State
  BY <1>4 DEF Full, State, Steps
<1>6. /\ y.step = "record" /\ y.of = request[r].of /\ y.done = request[r].done /\ y.at = now
  BY <1>1 DEF Full
<1> HIDE DEF y
<1>7. /\ request'[r] = y /\ request' \in [Requests -> State]
      /\ \A q \in Requests \ {r} : request'[q] = request[q]
  BY <1>1, <1>2, <1>5 DEF TypeOK
<1>8. TypeOK' /\ Grows /\ Moves(r)
  BY <1>1, <1>7 DEF TypeOK, Grows, Moves, Stays, Past
<1>9. Life(r)'
  BY <1>1, <1>6, <1>7 DEF Life
<1>10. Caused(r)'
  BY <1>1, <1>6, <1>7 DEF Caused, CreationTold, Dated
<1>. QED BY <1>1, <1>8, <1>9, <1>10, OneMoves

(* The event: its handler has executed its statements, and what caused it  *)
(* is in the trail.                                                        *)
LEMMA RecordKeeps ==
  ASSUME TrailInv, NEW r \in Requests, Record(r)
  PROVE  TrailInv'
<1> DEFINE q == request[r]
           event == [by |-> r, action |-> Of(r).op, on |-> Of(r).on, at |-> q.at]
<1>1. /\ TypeOK /\ Life(r) /\ Caused(r) /\ q \in Full /\ q.step = "record"
      /\ UNCHANGED <<server, rows, spent, now, count>> /\ trail' = trail \cup {event}
  BY StateForms DEF TrailInv, Record, At
<1>2. /\ request' \in [Requests -> State]
      /\ request'[r].step = "answer" /\ request'[r].of = q.of
      /\ request'[r].done = q.done /\ request'[r].at = q.at
      /\ \A x \in Requests \ {r} : request'[x] = request[x]
  BY <1>1, GoOnMoves DEF Record, Steps
<1>3. event \in Event
  BY <1>1 DEF Event, Full, Op, Of
<1>4. TypeOK' /\ Grows /\ Moves(r)
  BY <1>1, <1>2, <1>3 DEF TypeOK, Grows, Moves, Stays, Past
<1>5. Recorded(r)'
  <2>1. event \in trail' /\ event.by = r
    BY <1>1
  <2>. HIDE DEF event
  <2>. QED BY <2>1 DEF Recorded
<1>6. Life(r)'
  BY <1>1, <1>2, <1>5 DEF Life
<1>7. Caused(r)'
  BY <1>1, <1>2 DEF Caused, CreationTold, Dated
<1>8. ASSUME NEW p \in Requests PROVE Life(p)' /\ Caused(p)'
  BY <1>1, <1>2, <1>4, <1>6, <1>7, OthersKeep DEF TrailInv
<1>9. ASSUME NEW e \in trail' PROVE Told(e)'
  <2>1. CASE e \in trail
    <3>1. e.by \in Requests
      BY <2>1 DEF TrailInv, TypeOK, Event
    <3>. QED BY <1>4, <2>1, <3>1, ToldKeeps DEF Moves, Stays
  <2>2. CASE e = event
    BY <1>1, <1>2, <2>2 DEF Told, Life, Of
  <2>. QED BY <1>1, <2>1, <2>2
<1>10. CauseBeforeEffect'
  <2>1. ASSUME event.action = "agent.registered", count.errors = 0
        PROVE  CreationTold(event.on, event.at)
    BY <1>1, <2>1 DEF Life, Caused, Dated, Of, Statements
  <2>2. count.errors \in Nat
    BY <1>1 DEF TypeOK
  <2>3. CASE count.errors > 0
    BY <1>1, <2>3 DEF CauseBeforeEffect
  <2>4. CASE count.errors = 0
    BY <1>1, <2>1, <2>2, <2>4 DEF TrailInv, CauseBeforeEffect, CreationTold
  <2>. QED BY <2>2, <2>3, <2>4
<1>. QED BY <1>4, <1>8, <1>9, <1>10 DEF TrailInv

-----------------------------------------------------------------------------
(* The process.                                                            *)

(* A process that ends cuts its handlers off, and is the reason.           *)
LEMMA CutKeeps ==
  ASSUME TrailInv, Cut, TypeOK', Grows, count'.expired + count'.kills > 0, UNCHANGED trail
  PROVE  TrailInv'
<1>1. ASSUME NEW r \in Requests, ~InFlight(r) PROVE request'[r] = request[r]
  BY <1>1 DEF Cut
<1>2. ASSUME NEW r \in Requests, InFlight(r)
      PROVE  /\ request[r] \in Full /\ request'[r].step = "cut" /\ request'[r].of = request[r].of
             /\ request'[r].done = request[r].done /\ request'[r].at = request[r].at
  <2>1. request[r] \in Full
    BY <1>2, StateForms DEF InFlight, TrailInv
  <2>2. request'[r] = [request[r] EXCEPT !.step = "cut"]
    BY <1>2 DEF Cut
  <2>. QED BY <2>1, <2>2 DEF Full
<1>3. ASSUME NEW r \in Requests PROVE Life(r)' /\ Caused(r)'
  <2>1. CASE ~InFlight(r)
    BY <1>1, <2>1, OthersKeep DEF TrailInv
  <2>2. CASE InFlight(r)
    <3>1. /\ Life(r) /\ Caused(r) /\ request[r].at \in Nat /\ request[r].step # "new"
          /\ now \in Nat /\ now' \in Nat /\ count.errors \in Nat /\ count'.errors \in Nat
      BY <1>2, <2>2 DEF TrailInv, TypeOK, Full, InFlight
    <3>2. Life(r)'
      BY <1>2, <2>2, <3>1 DEF Life, Grows
    <3>3. ASSUME NEW host, CreationTold(host, now)
          PROVE  \E c \in trail' : c.action = "host.registered" /\ c.on = host /\ c.at <= now'
      BY <3>1, <3>3, CreationStays DEF TrailInv, Grows, CreationTold
    <3>4. Caused(r)'
      BY <1>2, <2>2, <3>1, <3>3 DEF Caused, CreationTold, Dated, Grows
    <3>. QED BY <3>2, <3>4
  <2>. QED BY <2>1, <2>2
<1>4. ASSUME NEW e \in trail PROVE Told(e)'
  <2>1. e.by \in Requests
    BY DEF TrailInv, TypeOK, Event
  <2>2. Stays(e.by)
    BY <1>1, <1>2, <2>1 DEF Stays, Past
  <2>. QED BY <2>2, ToldKeeps
<1>5. CauseBeforeEffect'
  <2>1. count.errors \in Nat /\ count'.errors \in Nat
    BY DEF TrailInv, TypeOK
  <2>. QED BY <2>1 DEF TrailInv, CauseBeforeEffect, Grows
<1>. QED BY <1>3, <1>4, <1>5 DEF TrailInv

LEMMA CutTyped ==
  ASSUME TypeOK, Cut
  PROVE  request' \in [Requests -> State]
<1>1. ASSUME NEW r \in Requests, InFlight(r) PROVE [request[r] EXCEPT !.step = "cut"] \in State
  <2>1. request[r] \in Full
    BY <1>1, StateForms DEF InFlight
  <2>2. [request[r] EXCEPT !.step = "cut"] \in Full
    BY <2>1 DEF Full, Steps
  <2>. QED BY <2>2 DEF Full, State, Steps
<1>2. request \in [Requests -> State]
  BY DEF TypeOK
<1>. QED BY <1>1, <1>2 DEF Cut

(* The shutdown took too long, or the process was killed.                  *)
LEMMA EndKeeps ==
  ASSUME TrailInv, Expire \/ Kill
  PROVE  TrailInv'
<1>1. TypeOK /\ Cut /\ UNCHANGED <<rows, spent, trail, now>> /\ server' = "down"
  BY DEF TrailInv, Expire, Kill
<1>2. /\ count' \in [errors : Nat, stops : Nat, expired : Nat, kills : Nat]
      /\ count'.errors = count.errors
      /\ count'.expired + count'.kills = count.expired + count.kills + 1
      /\ count.expired + count.kills \in Nat /\ count.errors \in Nat
  BY <1>1 DEF Expire, Kill, TypeOK
<1>3. TypeOK'
  BY <1>1, <1>2, CutTyped DEF TypeOK
<1>4. Grows /\ count'.expired + count'.kills > 0
  BY <1>1, <1>2 DEF Grows, TypeOK
<1>. QED BY <1>1, <1>3, <1>4, CutKeeps

(* Signals, starts, a drained server and the clock touch no handler.       *)
LEMMA ServerKeeps ==
  ASSUME TrailInv, Signal \/ Drained \/ Start \/ Tick \/ UNCHANGED vars
  PROVE  TrailInv'
<1>1. TypeOK /\ UNCHANGED <<request, rows, spent, trail>>
  BY DEF TrailInv, Signal, Drained, Start, Tick, vars
<1>2. TypeOK' /\ Grows
  BY <1>1 DEF TypeOK, Grows, Signal, Drained, Start, Tick, vars
<1>. QED BY <1>1, <1>2, NoneMoves

-----------------------------------------------------------------------------
(* The invariant and what follows from it.                                 *)

LEMMA TrailInvInit == Init => TrailInv
<1> SUFFICES ASSUME Init PROVE TrailInv
  OBVIOUS
<1>1. TypeOK
  BY DEF Init, TypeOK, State
<1>2. \A r \in Requests : Life(r) /\ Caused(r)
  BY DEF Init, Life, Caused
<1>. QED BY <1>1, <1>2 DEF Init, TrailInv, CauseBeforeEffect

LEMMA TrailInvNext == TrailInv /\ [Next]_vars => TrailInv'
  BY ArriveKeeps, InputKeeps, ChangeKeeps, DateKeeps, RecordKeeps, AnswerKeeps,
     ChangeFailsKeeps,
     RecordFailsKeeps, LeaveKeeps, EndKeeps, ServerKeeps DEF Next, Handle

(* What the place of a handler says of its statements and its event.       *)
THEOREM TrailInvariant == Spec => []TrailInv
  BY TrailInvInit, TrailInvNext, PTL DEF Spec

(* The trail tells of nothing that did not happen: every event is of a     *)
(* handler all of whose statements were executed (recordAudit is the last  *)
(* call of each handler).                                                  *)
THEOREM TrailIsTrue == Spec => []EventsHappened
<1>1. TrailInv => EventsHappened
  BY DEF TrailInv, Told, EventsHappened
<1>. QED BY <1>1, TrailInvariant, PTL

(* A change that left no event has a reason: a client that left, an error, *)
(* an expired shutdown or a death.  The statements of one handler need the *)
(* step between them: a release of a job that is gone would be refused     *)
(* after a change, and no job goes away.                                   *)
THEOREM GapsAreExplained == Spec => []GapsHaveReason
<1>1. TrailInv => GapsHaveReason
  <2> SUFFICES ASSUME TrailInv, NEW r \in Requests, Changed(r), ~InFlight(r), ~Recorded(r)
               PROVE  \/ At(r, "left") \/ count.errors > 0
                      \/ At(r, "cut") /\ count.expired + count.kills > 0
    BY DEF GapsHaveReason
  <2>1. Life(r) /\ request[r] \in Full
    BY StateForms DEF TrailInv, Changed
  <2>. QED BY <2>1 DEF Life, Full, Steps, InFlight, Changed, At
<1>. QED BY <1>1, TrailInvariant, PTL

(* Causes come before effects: the token of a registration was known from  *)
(* an answer, and the answer was given after the event.                    *)
THEOREM TrailInOrder == Spec => []CauseBeforeEffect
<1>1. TrailInv => CauseBeforeEffect
  BY DEF TrailInv
<1>. QED BY <1>1, TrailInvariant, PTL

=============================================================================
