------------------------------ MODULE Rollout ------------------------------
(***************************************************************************)
(* What the deployment pipeline promises, without agents, requests or job  *)
(* statuses: a job runs at most once; a directory is made only by a job    *)
(* that runs; what is live is a directory that is in place, and a job's    *)
(* release goes live before it is recorded, never after, so a recorded     *)
(* release is never made live a second time; it is recorded once.          *)
(***************************************************************************)
EXTENDS Naturals

CONSTANTS Jobs, Roots

VARIABLES
  runs,  \* runs[j]: how often job j was executed
  built, \* built[r]: the jobs with a release directory in root r
  live,  \* live[r]: the job whose release is live in root r, or none
  log    \* log[j]: how often the release of j was recorded

rolloutVars == <<runs, built, live, log>>

None == {}

RolloutInit ==
  /\ runs = [j \in Jobs |-> 0]
  /\ built = [r \in Roots |-> {}]
  /\ live = [r \in Roots |-> None]
  /\ log = [j \in Jobs |-> 0]

Run(j) ==
  /\ runs[j] = 0
  /\ runs' = [runs EXCEPT ![j] = 1]
  /\ UNCHANGED <<built, live, log>>

Build(r, j) ==
  /\ runs[j] = 1 /\ log[j] = 0
  /\ built' = [built EXCEPT ![r] = @ \cup {j}]
  /\ UNCHANGED <<runs, live, log>>

Activate(r, j) ==
  /\ j \in built[r] /\ log[j] = 0
  /\ live' = [live EXCEPT ![r] = {j}]
  /\ UNCHANGED <<runs, built, log>>

Record(j) ==
  /\ log[j] = 0
  /\ \E r \in Roots : j \in built[r]
  /\ log' = [log EXCEPT ![j] = 1]
  /\ UNCHANGED <<runs, built, live>>

RolloutNext ==
  \E j \in Jobs :
    \/ Run(j)
    \/ \E r \in Roots : Build(r, j) \/ Activate(r, j)
    \/ Record(j)

RolloutSpec == RolloutInit /\ [][RolloutNext]_rolloutVars

=============================================================================
