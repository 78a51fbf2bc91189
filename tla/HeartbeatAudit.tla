--------------------------- MODULE HeartbeatAudit ---------------------------
(***************************************************************************)
(* The audit rows of one host's heartbeats.  RecordAudit reads the clock,  *)
(* waits for the database's one connection, inserts the row and, in a      *)
(* second statement, deletes all but the newest rows (src/internal/store/  *)
(* sqlitestore/sqlite.go).  A request that ends between the two leaves its *)
(* row unpruned, and recordAudit ignores the error.  Heartbeats of other   *)
(* hosts and other events have rows of their own.                          *)
(***************************************************************************)
EXTENDS Integers, FiniteSets

CONSTANTS
  Requests, \* requests the server handles at the same time
  Ids,      \* identifiers of rows, numbered in their order as text
  Keep,     \* rows to keep, 5 in RecordAudit
  MaxTime,  \* bound on the clock
  MaxLost   \* bound on the requests that end before they have pruned

ASSUME HeartbeatAuditAssumption ==
  Ids \subseteq Nat /\ Keep \in Nat /\ MaxTime \in Nat /\ MaxLost \in Nat

VARIABLES
  rows,     \* audit_events of the host's heartbeats
  recorded, \* every row that was ever inserted
  request,  \* request[r]: the next statement of a request
  lost,     \* requests that ended between their two statements
  now       \* the server's clock

vars == <<rows, recorded, request, lost, now>>

Row == [id : Ids, at : Nat]

Idle == [step |-> "none"]

Request == {Idle} \cup [step : {"insert"}, at : Nat] \cup [step : {"prune"}]

TypeOK ==
  /\ rows \subseteq Row /\ recorded \subseteq Row
  /\ request \in [Requests -> Request]
  /\ lost \in Nat /\ now \in Nat

Init ==
  /\ rows = {} /\ recorded = {}
  /\ request = [r \in Requests |-> Idle]
  /\ lost = 0 /\ now = 0

Take(r, step, next) ==
  /\ request[r].step = step
  /\ request' = [request EXCEPT ![r] = next]

\* ORDER BY created_at DESC, id DESC: x comes before y.
Newer(x, y) == x.at > y.at \/ (x.at = y.at /\ x.id > y.id)

\* Mutant: the identifiers are random, and they alone decide.
KeptById(S) == {y \in S : Cardinality({x \in S : x.id > y.id}) < Keep}

\* Mutant: of rows of one instant all are kept or none.
KeptWithTies(S) == {y \in S : Cardinality({x \in S : x.at > y.at}) < Keep}

\* What OFFSET keep leaves.
Kept(S) == {y \in S : Cardinality({x \in S : Newer(x, y)}) < Keep}

Begin(r) ==
  /\ Take(r, "none", [step |-> "insert", at |-> now])
  /\ UNCHANGED <<rows, recorded, lost, now>>

\* Identifiers are random, so a later row may have the smaller one.
Insert(r) ==
  /\ Take(r, "insert", [step |-> "prune"])
  /\ \E id \in Ids \ {row.id : row \in recorded} :
       LET row == [id |-> id, at |-> request[r].at] IN
         rows' = rows \cup {row} /\ recorded' = recorded \cup {row}
  /\ UNCHANGED <<lost, now>>

Prune(r) ==
  /\ Take(r, "prune", Idle)
  /\ rows' = Kept(rows)
  /\ UNCHANGED <<recorded, lost, now>>

\* The agent goes away or the server dies before the next statement.
Leave(r) ==
  \/ Take(r, "insert", Idle) /\ UNCHANGED <<rows, recorded, lost, now>>
  \/ /\ Take(r, "prune", Idle)
     /\ lost < MaxLost /\ lost' = lost + 1
     /\ UNCHANGED <<rows, recorded, now>>

Tick ==
  /\ now < MaxTime
  /\ now' = now + 1
  /\ UNCHANGED <<rows, recorded, request, lost>>

Next == Tick \/ \E r \in Requests : Begin(r) \/ Insert(r) \/ Prune(r) \/ Leave(r)

Spec == Init /\ [][Next]_vars

-----------------------------------------------------------------------------
(* Properties.                                                             *)

\* The newest heartbeats are kept: a row that is gone left Keep newer ones
\* behind that are still there, whatever the order in which inserts and prunes
\* of several requests got the connection.
NewestKept ==
  \A y \in recorded \ rows : Cardinality({x \in rows : Newer(x, y)}) >= Keep

\* The rows stay bounded: beyond Keep there is one for each request that has
\* still to prune and one for each that never will.
Bounded ==
  Cardinality(rows) <=
    Keep + lost + Cardinality({r \in Requests : request[r].step = "prune"})

=============================================================================
