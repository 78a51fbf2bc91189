------------------------ MODULE HeartbeatAuditProofs ------------------------
(***************************************************************************)
(* The newest heartbeats are kept and their rows stay bounded, for every   *)
(* number of requests, rows to keep and lost requests.                     *)
(*                                                                         *)
(* Identifiers differ, so Newer is a total order of the rows, and a row's  *)
(* rank, the number of rows before it, tells it from the others.  The      *)
(* ranks of n rows are 0 .. n - 1; a prune leaves those below Keep.        *)
(***************************************************************************)
EXTENDS HeartbeatAudit, FiniteSetTheorems, TLAPS

\* The rows of S that come before y, and how many they are.
Above(S, y) == {x \in S : Newer(x, y)}
Rank(S, y) == Cardinality(Above(S, y))

\* A finite set of rows no two of which have the same identifier.
Table(S) ==
  /\ S \subseteq Row /\ IsFiniteSet(S)
  /\ \A x, y \in S : x.id = y.id => x = y

Pruning == {r \in Requests : request[r].step = "prune"}

AuditInv ==
  /\ TypeOK
  /\ Table(recorded) /\ rows \subseteq recorded
  /\ IsFiniteSet(Pruning)
  /\ NewestKept /\ Bounded

-----------------------------------------------------------------------------
(* The order of rows.                                                      *)

(* ORDER BY created_at DESC, id DESC is a strict total order.              *)
LEMMA NewerOrders ==
  ASSUME NEW S, Table(S)
  PROVE  /\ \A x \in S : ~Newer(x, x)
         /\ \A x, y, z \in S : Newer(x, y) /\ Newer(y, z) => Newer(x, z)
         /\ \A x, y \in S : x = y \/ Newer(x, y) \/ Newer(y, x)
<1>1. \A x \in S : x.id \in Nat /\ x.at \in Nat
  BY HeartbeatAuditAssumption DEF Table, Row
<1>. QED BY <1>1 DEF Newer, Table

LEMMA RankTyped ==
  ASSUME NEW S, Table(S), NEW y
  PROVE  IsFiniteSet(Above(S, y)) /\ Rank(S, y) \in Nat /\ Rank(S, y) <= Cardinality(S)
         /\ Cardinality(S) \in Nat
  BY FS_Subset, FS_CardinalityType DEF Table, Above, Rank

LEMMA PartIsTable ==
  ASSUME NEW S, Table(S), NEW T \in SUBSET S
  PROVE  Table(T) /\ Cardinality(T) <= Cardinality(S) /\ Cardinality(T) \in Nat
  BY FS_Subset, FS_CardinalityType DEF Table

(* What comes before x comes before all that x comes before.               *)
LEMMA RankGrows ==
  ASSUME NEW S, Table(S), NEW x \in S, NEW y \in S, Newer(x, y)
  PROVE  Rank(S, x) < Rank(S, y)
<1>1. Above(S, x) \subseteq Above(S, y) /\ x \in Above(S, y) /\ x \notin Above(S, x)
  BY NewerOrders DEF Above
<1>2. /\ Cardinality(Above(S, x)) <= Cardinality(Above(S, y))
      /\ Cardinality(Above(S, x)) # Cardinality(Above(S, y))
  BY <1>1, RankTyped, FS_Subset
<1>. QED BY <1>2, RankTyped DEF Rank

LEMMA RanksDiffer ==
  ASSUME NEW S, Table(S), NEW x \in S, NEW y \in S, Rank(S, x) = Rank(S, y)
  PROVE  x = y
<1>1. ~Newer(x, y) /\ ~Newer(y, x)
  BY RankGrows, RankTyped
<1>. QED BY <1>1, NewerOrders

LEMMA KeptByRank ==
  ASSUME NEW S
  PROVE  Kept(S) = {y \in S : Rank(S, y) < Keep} /\ Kept(S) \subseteq S
  BY DEF Kept, Rank, Above

(* A prune leaves at most Keep rows.                                       *)
LEMMA KeptIsBounded ==
  ASSUME NEW S, Table(S)
  PROVE  Cardinality(Kept(S)) <= Keep
<1>. DEFINE K == Kept(S)
            rank == [y \in K |-> Rank(S, y)]
<1>1. K \subseteq S /\ \A y \in K : Rank(S, y) \in 0 .. Keep - 1
  BY KeptByRank, RankTyped, HeartbeatAuditAssumption
<1>2. rank \in Injection(K, 0 .. Keep - 1)
  <2>1. rank \in [K -> 0 .. Keep - 1]
    BY <1>1
  <2>2. \A x, y \in K : rank[x] = rank[y] => x = y
    BY <1>1, RanksDiffer
  <2>. HIDE DEF rank, K
  <2>. QED BY <2>1, <2>2 DEF Injection, IsInjective
<1>3. IsFiniteSet(0 .. Keep - 1) /\ Cardinality(0 .. Keep - 1) = Keep
  BY FS_Interval, HeartbeatAuditAssumption
<1>. QED BY <1>2, <1>3, FS_Injection

(* And no fewer, when there are enough: the ranks of n rows are all of     *)
(* 0 .. n - 1.                                                             *)
LEMMA KeptIsFull ==
  ASSUME NEW S, Table(S), Cardinality(S) >= Keep
  PROVE  Cardinality(Kept(S)) = Keep
<1>. DEFINE n == Cardinality(S)
            rank == [y \in S |-> Rank(S, y)]
            K == Kept(S)
            low == [y \in K |-> Rank(S, y)]
<1>1. n \in Nat /\ IsFiniteSet(S) /\ Keep \in Nat /\ Keep <= n
  BY FS_CardinalityType, HeartbeatAuditAssumption DEF Table
<1>2. \A y \in S : Rank(S, y) \in 0 .. n - 1
  <2> SUFFICES ASSUME NEW y \in S PROVE Rank(S, y) \in 0 .. n - 1
    OBVIOUS
  <2>1. Above(S, y) \subseteq S /\ y \notin Above(S, y)
    BY NewerOrders DEF Above
  <2>2. Rank(S, y) # n
    BY <1>1, <2>1, FS_Subset DEF Rank
  <2>. QED BY <1>1, <2>2, RankTyped
<1>3. rank \in Injection(S, 0 .. n - 1)
  <2>1. rank \in [S -> 0 .. n - 1]
    BY <1>2
  <2>2. \A x, y \in S : rank[x] = rank[y] => x = y
    BY RanksDiffer
  <2>. HIDE DEF rank, n
  <2>. QED BY <2>1, <2>2 DEF Injection, IsInjective
<1>4. rank \in Surjection(S, 0 .. n - 1)
  <2>1. IsFiniteSet(0 .. n - 1) /\ Cardinality(0 .. n - 1) = n
    <3>. HIDE DEF n
    <3>1. 0 \in Int /\ n - 1 \in Int
      BY <1>1
    <3>. QED BY <1>1, <3>1, FS_Interval
  <2>2. Cardinality(S) = Cardinality(0 .. n - 1)
    BY <2>1
  <2>. HIDE DEF rank, n
  <2>. QED BY <1>3, <2>1, <2>2, FS_Injection
<1>5. K = {y \in S : Rank(S, y) < Keep}
  BY KeptByRank
<1>6. low \in Surjection(K, 0 .. Keep - 1)
  <2>1. low \in [K -> 0 .. Keep - 1]
    BY <1>1, <1>2, <1>5
  <2>2. ASSUME NEW k \in 0 .. Keep - 1 PROVE \E y \in K : low[y] = k
    <3>1. k \in 0 .. n - 1
      BY <1>1
    <3>2. PICK y \in S : rank[y] = k
      BY <1>4, <3>1 DEF Surjection
    <3>. QED BY <1>1, <1>5, <3>2
  <2>. HIDE DEF low, K
  <2>. QED BY <2>1, <2>2 DEF Surjection
<1>7. IsFiniteSet(K) /\ Cardinality(K) \in Nat
  BY <1>1, <1>5, FS_Subset, FS_CardinalityType
<1>8. Cardinality(0 .. Keep - 1) <= Cardinality(K)
  BY <1>6, <1>7, FS_Surjection
<1>9. Cardinality(0 .. Keep - 1) = Keep
  BY <1>1, FS_Interval
<1>. QED BY <1>1, <1>7, <1>8, <1>9, KeptIsBounded

(* What a prune leaves are Keep rows newer than y, if there were as many.  *)
LEMMA KeptAreNewer ==
  ASSUME NEW All, Table(All), NEW S \in SUBSET All, NEW y \in All,
         Rank(S, y) >= Keep
  PROVE  Rank(Kept(S), y) >= Keep
<1>1. Table(S) /\ Rank(S, y) <= Cardinality(S) /\ Cardinality(S) \in Nat /\ Rank(S, y) \in Nat
      /\ Keep \in Nat
  BY PartIsTable, RankTyped, HeartbeatAuditAssumption
<1>2. Cardinality(Kept(S)) = Keep
  BY <1>1, KeptIsFull
<1>3. ASSUME NEW x \in Kept(S) PROVE Newer(x, y)
  <2>1. x \in S /\ Rank(S, x) < Keep
    BY KeptByRank
  <2>2. SUFFICES ASSUME ~Newer(x, y) PROVE FALSE
    OBVIOUS
  <2>3. x = y \/ Newer(y, x)
    BY <2>1, <2>2, NewerOrders
  <2>4. Above(S, y) \subseteq Above(S, x)
    BY <2>1, <2>3, NewerOrders DEF Above
  <2>5. Rank(S, y) <= Rank(S, x)
    BY <1>1, <2>4, RankTyped, FS_Subset DEF Rank
  <2>. QED BY <1>1, <2>1, <2>5, RankTyped
<1>4. Above(Kept(S), y) = Kept(S)
  BY <1>3 DEF Above
<1>. QED BY <1>1, <1>2, <1>4 DEF Rank

-----------------------------------------------------------------------------
(* The steps.                                                              *)

(* A statement of a request is its next one, and the others stay where     *)
(* they are: what the set of requests that have still to prune becomes.    *)
LEMMA PruningMoves ==
  ASSUME TypeOK, NEW r \in Requests, NEW step, NEW next, Take(r, step, next)
  PROVE  Pruning' = IF next.step = "prune" THEN Pruning \cup {r} ELSE Pruning \ {r}
<1>1. \A q \in Requests : request'[q] = IF q = r THEN next ELSE request[q]
  BY DEF Take, TypeOK
<1>. QED BY <1>1 DEF Pruning

(* A request that reads the clock, or goes away before it has inserted.    *)
LEMMA WaitingStep ==
  ASSUME AuditInv, NEW r \in Requests, NEW step, NEW next \in Request,
         Take(r, step, next), step # "prune", next.step # "prune",
         UNCHANGED <<rows, recorded, lost, now>>
  PROVE  AuditInv'
<1>1. TypeOK'
  BY DEF AuditInv, TypeOK, Take
<1>2. Pruning' = Pruning
  BY PruningMoves DEF AuditInv, Pruning, Take
<1>3. NewestKept' /\ Table(recorded)'
  BY DEF AuditInv, NewestKept, Newer, Table
<1>4. Bounded'
  BY <1>2 DEF AuditInv, Bounded, Pruning
<1>. QED BY <1>1, <1>2, <1>3, <1>4 DEF AuditInv

(* A row with a new identifier, and one more request that has to prune.    *)
LEMMA InsertStep ==
  ASSUME AuditInv, NEW r \in Requests, Insert(r)
  PROVE  AuditInv'
<1>. DEFINE next == [step |-> "prune"]
<1>1. PICK id \in Ids \ {row.id : row \in recorded} :
        /\ rows' = rows \cup {[id |-> id, at |-> request[r].at]}
        /\ recorded' = recorded \cup {[id |-> id, at |-> request[r].at]}
  BY DEF Insert
<1>. DEFINE new == [id |-> id, at |-> request[r].at]
<1>2. Take(r, "insert", next) /\ UNCHANGED <<lost, now>> /\ next.step = "prune"
  BY DEF Insert
<1>3. request[r].step = "insert" /\ request[r].at \in Nat
  BY <1>2 DEF AuditInv, TypeOK, Request, Idle, Take
<1>4. new \in Row /\ \A x \in recorded : x.id # new.id
  BY <1>1, <1>3 DEF Row
<1>5. rows' = rows \cup {new} /\ recorded' = recorded \cup {new}
  BY <1>1
<1>. HIDE DEF new, next
<1>6. TypeOK'
  <2>1. next \in Request
    BY DEF next, Request
  <2>. QED BY <1>2, <1>4, <1>5, <2>1 DEF AuditInv, TypeOK, Take
<1>7. Table(recorded') /\ rows' \subseteq recorded'
  <2>1. IsFiniteSet(recorded')
    BY <1>5, FS_AddElement DEF AuditInv, Table
  <2>. QED BY <1>4, <1>5, <2>1 DEF AuditInv, Table
<1>8. Pruning' = Pruning \cup {r} /\ r \notin Pruning
  BY <1>2, <1>3, PruningMoves DEF AuditInv, Pruning
<1>9. /\ IsFiniteSet(Pruning') /\ Cardinality(Pruning') = Cardinality(Pruning) + 1
      /\ Cardinality(Pruning) \in Nat
  BY <1>8, FS_AddElement, FS_CardinalityType DEF AuditInv
<1>10. NewestKept'
  <2> SUFFICES ASSUME NEW y \in recorded' \ rows' PROVE Rank(rows', y) >= Keep
    BY DEF NewestKept, Rank, Above, Newer
  <2>1. y \in recorded \ rows
    BY <1>5
  <2>2. Rank(rows, y) >= Keep
    BY <2>1 DEF AuditInv, NewestKept, Rank, Above
  <2>3. Table(rows') /\ Table(rows)
    BY <1>7, PartIsTable DEF AuditInv
  <2>4. Above(rows, y) \subseteq Above(rows', y)
    BY <1>5 DEF Above
  <2>5. Rank(rows, y) <= Rank(rows', y)
    BY <2>3, <2>4, RankTyped, FS_Subset DEF Rank
  <2>. QED BY <2>2, <2>3, <2>5, RankTyped, HeartbeatAuditAssumption
<1>11. Bounded'
  <2>1. Table(rows)
    BY PartIsTable DEF AuditInv
  <2>2. Cardinality(rows') <= Cardinality(rows) + 1 /\ Cardinality(rows) \in Nat
        /\ Cardinality(rows') \in Nat
    <3>1. IsFiniteSet(rows) /\ Cardinality(rows) \in Nat
      BY <2>1, FS_CardinalityType DEF Table
    <3>2. Cardinality(rows \cup {new}) = Cardinality(rows)
          \/ Cardinality(rows \cup {new}) = Cardinality(rows) + 1
      BY <3>1, FS_AddElement
    <3>. QED BY <1>5, <3>1, <3>2
  <2>3. Cardinality(rows) <= Keep + lost + Cardinality(Pruning)
    BY DEF AuditInv, Bounded, Pruning
  <2>4. Cardinality(rows') <= Keep + lost' + Cardinality(Pruning')
    BY <1>2, <1>9, <2>2, <2>3, HeartbeatAuditAssumption DEF AuditInv, TypeOK
  <2>. QED BY <2>4 DEF Bounded, Pruning
<1>. QED BY <1>6, <1>7, <1>9, <1>10, <1>11 DEF AuditInv, Table

(* The rows that are newer than a pruned one survive with it gone.         *)
LEMMA PruneStep ==
  ASSUME AuditInv, NEW r \in Requests, Prune(r)
  PROVE  AuditInv'
<1>1. /\ Take(r, "prune", Idle) /\ rows' = Kept(rows)
      /\ UNCHANGED <<recorded, lost, now>> /\ Idle \in Request /\ Idle.step # "prune"
  BY DEF Prune, Idle, Request
<1>2. Kept(rows) \subseteq rows
  BY KeptByRank
<1>3. TypeOK'
  BY <1>1, <1>2 DEF AuditInv, TypeOK, Take
<1>4. Table(recorded') /\ rows' \subseteq recorded'
  BY <1>1, <1>2 DEF AuditInv
<1>5. IsFiniteSet(Pruning')
  BY <1>1, PruningMoves, FS_Subset DEF AuditInv
<1>6. NewestKept'
  <2> SUFFICES ASSUME NEW y \in recorded \ Kept(rows)
               PROVE  Rank(Kept(rows), y) >= Keep
    BY <1>1 DEF NewestKept, Rank, Above, Newer
  <2>1. Rank(rows, y) >= Keep
    <3>1. CASE y \in rows
      BY <3>1, KeptByRank, PartIsTable, RankTyped, HeartbeatAuditAssumption DEF AuditInv
    <3>2. CASE y \notin rows
      BY <3>2 DEF AuditInv, NewestKept, Rank, Above
    <3>. QED BY <3>1, <3>2
  <2>. QED BY <2>1, KeptAreNewer DEF AuditInv
<1>7. Bounded'
  <2>1. Cardinality(rows') <= Keep /\ Cardinality(rows') \in Nat
    BY <1>1, <1>2, <1>4, KeptIsBounded, PartIsTable DEF AuditInv
  <2>2. Cardinality(Pruning') \in Nat /\ lost' \in Nat
    BY <1>1, <1>5, FS_CardinalityType DEF AuditInv, TypeOK
  <2>3. Cardinality(rows') <= Keep + lost' + Cardinality(Pruning')
    BY <2>1, <2>2, HeartbeatAuditAssumption
  <2>. QED BY <2>3 DEF Bounded, Pruning
<1>. QED BY <1>3, <1>4, <1>5, <1>6, <1>7 DEF AuditInv, Table

(* A request that ends before it has pruned is counted among the lost.     *)
LEMMA LeaveStep ==
  ASSUME AuditInv, NEW r \in Requests, Leave(r)
  PROVE  AuditInv'
<1>0. Idle \in Request /\ Idle.step # "prune"
  BY DEF Idle, Request
<1>1. CASE Take(r, "insert", Idle) /\ UNCHANGED <<rows, recorded, lost, now>>
  BY <1>0, <1>1, WaitingStep
<1>2. CASE /\ Take(r, "prune", Idle) /\ lost' = lost + 1
           /\ UNCHANGED <<rows, recorded, now>>
  <2>1. TypeOK'
    BY <1>0, <1>2 DEF AuditInv, TypeOK, Take
  <2>2. Pruning' = Pruning \ {r} /\ r \in Pruning
    BY <1>0, <1>2, PruningMoves DEF AuditInv, Pruning, Take
  <2>3. /\ IsFiniteSet(Pruning') /\ Cardinality(Pruning') = Cardinality(Pruning) - 1
        /\ Cardinality(Pruning) \in Nat /\ Cardinality(rows) \in Nat
    BY <2>2, FS_RemoveElement, FS_CardinalityType, PartIsTable DEF AuditInv
  <2>4. NewestKept' /\ Table(recorded)' /\ (rows \subseteq recorded)'
    BY <1>2 DEF AuditInv, NewestKept, Newer, Table
  <2>5. Bounded'
    <3>1. Cardinality(rows) <= Keep + lost + Cardinality(Pruning) /\ lost \in Nat
      BY DEF AuditInv, TypeOK, Bounded, Pruning
    <3>2. Cardinality(rows') <= Keep + lost' + Cardinality(Pruning')
      BY <1>2, <2>3, <3>1, HeartbeatAuditAssumption
    <3>. QED BY <3>2 DEF Bounded, Pruning
  <2>. QED BY <2>1, <2>3, <2>4, <2>5 DEF AuditInv
<1>. QED BY <1>1, <1>2 DEF Leave

LEMMA InitAudit == Init => AuditInv
<1> SUFFICES ASSUME Init PROVE AuditInv
  OBVIOUS
<1>1. TypeOK
  BY DEF Init, TypeOK, Request
<1>2. Pruning = {}
  BY DEF Init, Pruning, Idle
<1>3. IsFiniteSet({}) /\ Cardinality({}) = 0
  BY FS_EmptySet
<1>4. Bounded
  <2>1. Cardinality(rows) = 0 /\ lost = 0 /\ Cardinality(Pruning) = 0
    BY <1>2, <1>3 DEF Init
  <2>2. Cardinality(rows) <= Keep + lost + Cardinality(Pruning)
    BY <2>1, HeartbeatAuditAssumption
  <2>. QED BY <2>2 DEF Bounded, Pruning
<1>. QED BY <1>1, <1>2, <1>3, <1>4 DEF Init, AuditInv, Table, NewestKept

LEMMA NextAudit == AuditInv /\ [Next]_vars => AuditInv'
<1> SUFFICES ASSUME AuditInv, [Next]_vars PROVE AuditInv'
  OBVIOUS
<1>1. CASE Tick \/ UNCHANGED vars
  <2>1. UNCHANGED <<rows, recorded, request, lost>> /\ now' \in Nat
    BY <1>1 DEF Tick, vars, AuditInv, TypeOK
  <2>2. TypeOK' /\ Pruning' = Pruning
    BY <2>1 DEF AuditInv, TypeOK, Pruning
  <2>. QED
    BY <2>1, <2>2 DEF AuditInv, Table, NewestKept, Newer, Bounded, Pruning
<1>2. ASSUME NEW r \in Requests, Begin(r) PROVE AuditInv'
  <2>1. Take(r, "none", [step |-> "insert", at |-> now])
        /\ [step |-> "insert", at |-> now] \in Request
    BY <1>2 DEF Begin, Request, AuditInv, TypeOK
  <2>. QED BY <1>2, <2>1, WaitingStep DEF Begin
<1>. QED BY <1>1, <1>2, InsertStep, PruneStep, LeaveStep DEF Next

-----------------------------------------------------------------------------
(* The theorems.                                                           *)

\* The order of the inserts and prunes of all requests keeps the invariant.
THEOREM AuditInvariant == Spec => []AuditInv
BY InitAudit, NextAudit, PTL DEF Spec

\* A row that RecordAudit deleted left Keep newer ones behind that are still
\* there, whatever the order in which requests got the connection.
THEOREM HeartbeatsKept == Spec => []NewestKept
<1>1. AuditInv => NewestKept
  BY DEF AuditInv
<1>. QED BY <1>1, AuditInvariant, PTL

\* The rows of a host's heartbeats are at most Keep, one for each request that
\* has still to delete and one for each that ended before it could.
THEOREM HeartbeatsBounded == Spec => []Bounded
<1>1. AuditInv => Bounded
  BY DEF AuditInv
<1>. QED BY <1>1, AuditInvariant, PTL

=============================================================================
