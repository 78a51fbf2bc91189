----------------------------- MODULE HostProofs -----------------------------
(***************************************************************************)
(* The executor keeps its roots in order, for every set of jobs, hosts and *)
(* roots.  HostInv is the inductive invariant: the properties of Host hold *)
(* because of what each step knows about the root it works on, because two *)
(* hosts never share a root, and because a directory is only ever made for *)
(* a job that was executed.                                                *)
(***************************************************************************)
EXTENDS Host, TLAPS

Busy(h) == work[h] # NoWork

\* What the step a host is at implies for its root.
StepKnows(h) ==
  LET j == work[h].job
      r == work[h].root
      s == work[h].step
  IN /\ RootHost[r] = h
     /\ s \in {"clone", "checkout"} => j \notin dirs[r]
     /\ s # "checkout" => j \notin temps[r]
     /\ s \in {"publish", "link", "swap"} => j \in dirs[r]
     /\ s \in {"link", "swap"} => current[r] # Plain
     /\ s = "swap" => next[r] = j
     /\ s # "ok" => current[r] # j
     /\ s = "ensure" => Initial \in dirs[r]

\* Directories are made only by executions.
MadeByExecution ==
  \A r \in Roots, j \in JobIds :
    j \in dirs[r] \cup temps[r] => execs[j] > 0

HostInv ==
  /\ HostTypeOK
  /\ \A h \in Hosts : Busy(h) => StepKnows(h)
  /\ \A h \in Hosts : Busy(h) => execs[work[h].job] > 0
  /\ LinksResolve
  /\ \A r \in Roots : temps[r] \cap dirs[r] = {}
  /\ MadeByExecution

HandOver(h, j, r, action) ==
  /\ work[h] = NoWork
  /\ execs[j] = 0
  /\ RootHost[r] = h
  /\ Begin(h, j, r, action)

-----------------------------------------------------------------------------
(* The initial states satisfy the invariant.                               *)
LEMMA HostInvInit == HostInit => HostInv
  BY HostAssumption DEF HostInit, HostInv, HostTypeOK, Busy, LinksResolve,
     MadeByExecution

(* Taking over a job at a root of the host preserves the invariant: a job  *)
(* that was never executed has no directory anywhere.                      *)
LEMMA HandOverKeepsInv ==
  ASSUME HostInv, NEW h \in Hosts, NEW j \in JobIds, NEW r \in Roots,
         NEW action \in {"deploy", "setup_app", "rollback"},
         HandOver(h, j, r, action)
  PROVE  HostInv'
<1> USE HostAssumption DEF HandOver, Begin, HostInv, HostTypeOK
<1>1. HostTypeOK'
  BY DEF Work, FirstStep, DeploySteps, SetupSteps, Done
<1>2. ASSUME NEW g \in Hosts, Busy(g)'
      PROVE  StepKnows(g)' /\ (execs[work[g].job] > 0)'
  <2>1. CASE g = h
    BY <2>1 DEF StepKnows, FirstStep, MadeByExecution, LinksResolve
  <2>2. CASE g # h
    BY <1>2, <2>2 DEF StepKnows, Busy, Work, NoWork
  <2>. QED BY <2>1, <2>2
<1>3. (LinksResolve /\ MadeByExecution)'
  BY DEF LinksResolve, MadeByExecution
<1>. QED BY <1>1, <1>2, <1>3

(* A step of one host that touches only the root it works on leaves what   *)
(* every other host knows as it was: no two hosts share a root.            *)
LEMMA OthersUndisturbed ==
  ASSUME HostInv, NEW h \in Hosts, Busy(h), HostTypeOK',
         \A g \in Hosts \ {h} : work'[g] = work[g],
         \A r \in Roots \ {work[h].root} :
           /\ dirs'[r] = dirs[r] /\ temps'[r] = temps[r]
           /\ current'[r] = current[r] /\ next'[r] = next[r],
         execs' = execs
  PROVE  \A g \in Hosts \ {h} :
           Busy(g)' => StepKnows(g)' /\ (execs[work[g].job] > 0)'
<1> SUFFICES ASSUME NEW g \in Hosts \ {h}, Busy(g)'
             PROVE  StepKnows(g)' /\ (execs[work[g].job] > 0)'
  OBVIOUS
<1>1. Busy(g) /\ work'[g] = work[g]
  BY DEF Busy
<1>2. work[g] \in Work /\ work[h] \in Work
  BY <1>1 DEF HostInv, HostTypeOK, Busy
<1>3. work[g].root \in Roots \ {work[h].root}
  BY <1>1, <1>2 DEF HostInv, StepKnows, Work
<1>. QED BY <1>1, <1>3 DEF HostInv, StepKnows

(* What remains of the invariant once the other hosts are seen to.         *)
LEMMA StepKeepsInv ==
  ASSUME HostInv, NEW h \in Hosts, Busy(h), HostTypeOK',
         \A g \in Hosts \ {h} : work'[g] = work[g],
         \A r \in Roots \ {work[h].root} :
           /\ dirs'[r] = dirs[r] /\ temps'[r] = temps[r]
           /\ current'[r] = current[r] /\ next'[r] = next[r],
         execs' = execs,
         Busy(h)' => work'[h].job = work[h].job /\ StepKnows(h)',
         LET r == work[h].root
         IN /\ current'[r] \in dirs'[r] \cup {Absent, Plain}
            /\ next'[r] \in dirs'[r] \cup {Absent}
            /\ temps'[r] \cap dirs'[r] = {}
            /\ dirs'[r] \cup temps'[r]
                 \subseteq dirs[r] \cup temps[r] \cup {work[h].job, Initial}
  PROVE  HostInv'
<1>1. work[h] \in Work
  BY DEF HostInv, HostTypeOK, Busy
<1>2. \A g \in Hosts : Busy(g)' => StepKnows(g)' /\ (execs[work[g].job] > 0)'
  BY OthersUndisturbed DEF HostInv
<1>3. LinksResolve'
  BY <1>1 DEF HostInv, LinksResolve, Work
<1>4. \A r \in Roots : (temps[r] \cap dirs[r] = {})'
  BY DEF HostInv
<1>5. MadeByExecution'
  BY <1>1, HostAssumption DEF HostInv, MadeByExecution, Work
<1>. QED BY <1>2, <1>3, <1>4, <1>5 DEF HostInv


(* Every step of the executor preserves the invariant.                     *)
LEMMA ExecuteKeepsInv ==
  ASSUME HostInv, NEW h \in Hosts, Execute(h)
  PROVE  HostInv'
<1> DEFINE w == work[h]
<1>1. Busy(h) /\ w \in Work
  BY DEF HostInv, HostTypeOK, Busy, NoWork, Work, Execute, At, Clone, Checkout,
     Publish, Link, Swap, DeployFails, MakeDirs, Ensure, Finish, SetupFails,
     DeploySteps, SetupSteps
<1>2. w.root \in Roots /\ w.job \in JobIds /\ StepKnows(h)
  BY <1>1 DEF HostInv, Work
<1>3. /\ current[w.root] \in dirs[w.root] \cup {Absent, Plain}
      /\ next[w.root] \in dirs[w.root] \cup {Absent}
      /\ temps[w.root] \cap dirs[w.root] = {}
  BY <1>2 DEF HostInv, LinksResolve
<1> USE HostAssumption DEF GoTo, At
<1>4. ASSUME Clone(h) PROVE HostInv'
  <2>1. HostTypeOK'
    BY <1>1, <1>2, <1>4 DEF Clone, HostInv, HostTypeOK, Work, DeploySteps, SetupSteps, Done
  <2>2. StepKnows(h)' /\ work'[h].job = w.job
    BY <1>1, <1>2, <1>3, <1>4
       DEF Clone, HostInv, HostTypeOK, Work, StepKnows, DeploySteps, SetupSteps
  <2>. QED BY <1>1, <1>2, <1>3, <1>4, <2>1, <2>2, StepKeepsInv
           DEF Clone, HostInv, HostTypeOK, StepKnows, LinksResolve
<1>5. ASSUME Checkout(h) PROVE HostInv'
  <2>1. HostTypeOK'
    BY <1>1, <1>2, <1>5
       DEF Checkout, RenameTemp, HostInv, HostTypeOK, Work, DeploySteps, SetupSteps, Done
  <2>2. StepKnows(h)' /\ work'[h].job = w.job
    BY <1>1, <1>2, <1>3, <1>5
       DEF Checkout, RenameTemp, HostInv, HostTypeOK, Work, StepKnows, DeploySteps,
       SetupSteps
  <2>. QED BY <1>1, <1>2, <1>3, <1>5, <2>1, <2>2, StepKeepsInv, SMTT(30)
           DEF Checkout, RenameTemp, HostInv, HostTypeOK, StepKnows, LinksResolve
<1>6. ASSUME Publish(h) PROVE HostInv'
  <2>1. HostTypeOK'
    BY <1>1, <1>2, <1>6
       DEF Publish, HostInv, HostTypeOK, Work, DeploySteps, SetupSteps, Done
  <2>2. StepKnows(h)' /\ work'[h].job = w.job
    BY <1>1, <1>2, <1>3, <1>6
       DEF Publish, HostInv, HostTypeOK, Work, StepKnows, DeploySteps, SetupSteps
  <2>. QED BY <1>1, <1>2, <1>3, <1>6, <2>1, <2>2, StepKeepsInv
           DEF Publish, HostInv, HostTypeOK, StepKnows, LinksResolve
<1>7. ASSUME Link(h) PROVE HostInv'
  <2>1. HostTypeOK'
    BY <1>1, <1>2, <1>7 DEF Link, HostInv, HostTypeOK, Work, DeploySteps, SetupSteps, Done
  <2>2. StepKnows(h)' /\ work'[h].job = w.job
    BY <1>1, <1>2, <1>3, <1>7
       DEF Link, HostInv, HostTypeOK, Work, StepKnows, DeploySteps, SetupSteps
  <2>. QED BY <1>1, <1>2, <1>3, <1>7, <2>1, <2>2, StepKeepsInv
           DEF Link, HostInv, HostTypeOK, StepKnows, LinksResolve
<1>8. ASSUME Swap(h) PROVE HostInv'
  <2>1. HostTypeOK'
    BY <1>1, <1>2, <1>8 DEF Swap, HostInv, HostTypeOK, Work, DeploySteps, SetupSteps, Done
  <2>2. StepKnows(h)' /\ work'[h].job = w.job
    BY <1>1, <1>2, <1>3, <1>8
       DEF Swap, HostInv, HostTypeOK, Work, StepKnows, DeploySteps, SetupSteps
  <2>. QED BY <1>1, <1>2, <1>3, <1>8, <2>1, <2>2, StepKeepsInv
           DEF Swap, HostInv, HostTypeOK, StepKnows, LinksResolve
<1>9. ASSUME DeployFails(h) PROVE HostInv'
  <2>1. HostTypeOK'
    BY <1>1, <1>2, <1>9
       DEF DeployFails, RemoveTemp, HostInv, HostTypeOK, Work, DeploySteps, SetupSteps, Done
  <2>2. StepKnows(h)' /\ work'[h].job = w.job
    BY <1>1, <1>2, <1>3, <1>9
       DEF DeployFails, RemoveTemp, HostInv, HostTypeOK, Work, StepKnows, DeploySteps,
       SetupSteps
  <2>. QED BY <1>1, <1>2, <1>3, <1>9, <2>1, <2>2, StepKeepsInv
           DEF DeployFails, RemoveTemp, HostInv, HostTypeOK, StepKnows, LinksResolve
<1>10. ASSUME MakeDirs(h) PROVE HostInv'
  <2>1. HostTypeOK'
    BY <1>1, <1>2, <1>10
       DEF MakeDirs, HostInv, HostTypeOK, Work, DeploySteps, SetupSteps, Done
  <2>2. StepKnows(h)' /\ work'[h].job = w.job
    BY <1>1, <1>2, <1>3, <1>10
       DEF MakeDirs, HostInv, HostTypeOK, Work, StepKnows, DeploySteps, SetupSteps
  <2>. QED BY <1>1, <1>2, <1>3, <1>10, <2>1, <2>2, StepKeepsInv
           DEF MakeDirs, HostInv, HostTypeOK, StepKnows, LinksResolve
<1>11. ASSUME Ensure(h) PROVE HostInv'
  <2>1. HostTypeOK'
    BY <1>1, <1>2, <1>11
       DEF Ensure, Linkable, HostInv, HostTypeOK, Work, DeploySteps, SetupSteps, Done
  <2>2. StepKnows(h)' /\ work'[h].job = w.job
    BY <1>1, <1>2, <1>3, <1>11
       DEF Ensure, Linkable, HostInv, HostTypeOK, Work, StepKnows, DeploySteps, SetupSteps
  <2>. QED BY <1>1, <1>2, <1>3, <1>11, <2>1, <2>2, StepKeepsInv
           DEF Ensure, Linkable, HostInv, HostTypeOK, StepKnows, LinksResolve
<1>12. ASSUME Finish(h) PROVE HostInv'
  <2>1. HostTypeOK'
    BY <1>1, <1>2, <1>12
       DEF Finish, HostInv, HostTypeOK, Work, DeploySteps, SetupSteps, Done
  <2>2. StepKnows(h)' /\ work'[h].job = w.job
    BY <1>1, <1>2, <1>3, <1>12
       DEF Finish, HostInv, HostTypeOK, Work, StepKnows, DeploySteps, SetupSteps
  <2>. QED BY <1>1, <1>2, <1>3, <1>12, <2>1, <2>2, StepKeepsInv
           DEF Finish, HostInv, HostTypeOK, StepKnows, LinksResolve
<1>13. ASSUME SetupFails(h) PROVE HostInv'
  <2>1. HostTypeOK'
    BY <1>1, <1>2, <1>13
       DEF SetupFails, HostInv, HostTypeOK, Work, DeploySteps, SetupSteps, Done
  <2>2. StepKnows(h)' /\ work'[h].job = w.job
    BY <1>1, <1>2, <1>3, <1>13
       DEF SetupFails, HostInv, HostTypeOK, Work, StepKnows, DeploySteps, SetupSteps
  <2>. QED BY <1>1, <1>2, <1>3, <1>13, <2>1, <2>2, StepKeepsInv
           DEF SetupFails, HostInv, HostTypeOK, StepKnows, LinksResolve
<1>. QED BY <1>4, <1>5, <1>6, <1>7, <1>8, <1>9, <1>10, <1>11, <1>12, <1>13 DEF Execute

(* So does leaving the executor with a result, ...                         *)
LEMMA LeaveKeepsInv ==
  ASSUME HostInv, NEW h \in Hosts, Leave(h)
  PROVE  HostInv'
  BY DEF HostInv, HostTypeOK, Leave, Busy, StepKnows, LinksResolve,
     MadeByExecution

(* ... and so does dying.                                                  *)
LEMMA KillKeepsInv ==
  ASSUME HostInv, NEW h \in Hosts, Kill(h)
  PROVE  HostInv'
<1>1. CASE UNCHANGED temps
  BY <1>1 DEF HostInv, HostTypeOK, Kill, Busy, StepKnows, LinksResolve,
     MadeByExecution
<1>2. CASE At(h, "checkout")
  <2>1. Busy(h) /\ work[h] \in Work /\ work'[h] = NoWork
    BY <1>2 DEF HostInv, HostTypeOK, At, Busy, NoWork, Kill
  <2>2. HostTypeOK'
    BY <2>1 DEF HostInv, HostTypeOK, Kill, RemoveTemp, Work
  <2>. QED BY <2>1, <2>2, StepKeepsInv
           DEF HostInv, HostTypeOK, Kill, RemoveTemp, Busy, Work, LinksResolve
<1>. QED BY <1>1, <1>2 DEF Kill

LEMMA HostInvStutters == HostInv /\ UNCHANGED hostVars => HostInv'
  BY DEF HostInv, HostTypeOK, hostVars, Busy, StepKnows, LinksResolve,
     MadeByExecution

LEMMA HostInvNext == HostInv /\ [HostNext]_hostVars => HostInv'
<1> SUFFICES ASSUME HostInv, [HostNext]_hostVars PROVE HostInv'
  OBVIOUS
<1>1. CASE UNCHANGED hostVars
  BY <1>1, HostInvStutters
<1>2. ASSUME NEW h \in Hosts, NEW j \in JobIds, NEW r \in Roots,
             NEW action \in {"deploy", "setup_app", "rollback"},
             HandOver(h, j, r, action)
      PROVE  HostInv'
  BY <1>2, HandOverKeepsInv
<1>3. ASSUME NEW h \in Hosts, Execute(h) PROVE HostInv'
  BY <1>3, ExecuteKeepsInv
<1>4. ASSUME NEW h \in Hosts, Leave(h) PROVE HostInv'
  BY <1>4, LeaveKeepsInv
<1>5. ASSUME NEW h \in Hosts, Kill(h) PROVE HostInv'
  BY <1>5, KillKeepsInv
<1>. QED BY <1>1, <1>2, <1>3, <1>4, <1>5 DEF HostNext, HandOver

(* The executor on its own never breaks the invariant.                     *)
THEOREM HostInvariant == HostSpec => []HostInv
  BY HostInvInit, HostInvNext, PTL DEF HostSpec

(* current and current.next never dangle, whatever fails or dies.          *)
THEOREM HostLinksResolve == HostSpec => [](HostTypeOK /\ LinksResolve)
<1>1. HostInv => HostTypeOK /\ LinksResolve
  BY DEF HostInv
<1>. QED BY <1>1, HostInvariant, PTL

(* A job whose execution failed is not live.                               *)
THEOREM HostFailureNotLive == HostSpec => []FailureNotLive
<1>1. HostInv => FailureNotLive
  BY DEF HostInv, FailureNotLive, StepKnows, Busy, NoWork, At
<1>. QED BY <1>1, HostInvariant, PTL

(* No release directory is half built, and nothing temporary stays behind  *)
(* an execution that came to its end.                                      *)
THEOREM HostNoHalfBuiltRelease == HostSpec => []NoHalfBuiltRelease
<1>1. HostInv => NoHalfBuiltRelease
  BY DEF HostInv, NoHalfBuiltRelease, StepKnows, Busy, NoWork, Finished, Done
<1>. QED BY <1>1, HostInvariant, PTL


(* A published site stays published: only Swap and Ensure write current,   *)
(* Swap the directory of a deploy that is in place, Ensure the initial     *)
(* page where there was nothing.                                           *)
THEOREM HostSiteKept == HostSpec => SiteKept
<1> DEFINE Kept(r) == current'[r] # current[r] =>
                        /\ current[r] # Plain
                        /\ current'[r] \in dirs[r]
                        /\ current[r] \in JobIds => current'[r] \in JobIds
<1>1. ASSUME HostInv, NEW h \in Hosts, NEW r \in Roots, Swap(h) \/ Ensure(h)
      PROVE  Kept(r)
  <2>1. Busy(h) /\ work[h] \in Work
    BY <1>1 DEF HostInv, HostTypeOK, Busy, NoWork, Swap, Ensure, At
  <2>2. StepKnows(h)
    BY <1>1, <2>1 DEF HostInv
  <2>3. CASE Swap(h)
    BY <1>1, <2>1, <2>2, <2>3 DEF Swap, At, StepKnows, HostInv, HostTypeOK, Work
  <2>4. CASE Ensure(h)
    BY <1>1, <2>1, <2>2, <2>4, HostAssumption
    DEF Ensure, Linkable, At, StepKnows, HostInv, HostTypeOK, Work
  <2>. QED BY <1>1, <2>3, <2>4
<1>2. ASSUME HostInv, [HostNext]_hostVars PROVE \A r \in Roots : Kept(r)
  <2>1. CASE UNCHANGED current
    BY <2>1
  <2>2. CASE \E h \in Hosts : Swap(h) \/ Ensure(h)
    BY <1>1, <1>2, <2>2
  <2>. QED
    BY <1>2, <2>1, <2>2
    DEF HostNext, hostVars, Begin, Execute, Clone, Checkout, Publish, Link,
        MakeDirs, Finish, DeployFails, SetupFails, Leave, Kill
<1>. QED BY <1>2, HostInvariant, PTL DEF HostSpec, SiteKept

=============================================================================
