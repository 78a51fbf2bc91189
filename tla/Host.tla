-------------------------------- MODULE Host --------------------------------
(***************************************************************************)
(* The agent's executor on its hosts: what setup_app and deploy jobs do to *)
(* the directory of an app (src/cmd/cplane-agent/main.go, handleSetupApp,  *)
(* handleDeploy, ensureSymlink, replaceSymlink).                           *)
(*                                                                         *)
(* A root is one root_path on one host; two apps may name the same root.   *)
(* It holds releases/<key> directories, releases/.tmp-<key> directories    *)
(* while a clone is being filled, the symlink current that the web server  *)
(* follows, and the symlink current.next that replaceSymlink renames over  *)
(* it.  A release key ends in the job's identifier, so the job names its   *)
(* directories.                                                            *)
(*                                                                         *)
(* An agent executes one job at a time.  Each action below is one step the *)
(* agent can be killed after; the agent may fail at each of them.          *)
(***************************************************************************)
EXTENDS Naturals, Fleet

CONSTANTS
  Initial, \* the directory releases/initial
  Absent,  \* no such file
  Plain    \* a file or directory that is not a symlink

ASSUME HostAssumption ==
  /\ Initial \notin JobIds /\ Absent \notin JobIds /\ Plain \notin JobIds
  /\ Initial # Absent /\ Initial # Plain /\ Absent # Plain

VARIABLES
  work,    \* work[h]: the job host h executes and how far it is
  dirs,    \* dirs[r]: the directories of r/releases
  temps,   \* temps[r]: the jobs with a releases/.tmp- directory in r
  current, \* current[r]: what r/current is or points to
  next,    \* next[r]: what r/current.next points to
  execs    \* execs[j]: how often an agent began to execute j (history)

hostVars == <<work, dirs, temps, current, next, execs>>

DeploySteps == {"clone", "checkout", "publish", "link", "swap"}
SetupSteps == {"mkdirs", "ensure", "finish"}
Done == {"ok", "err"}

Work == [step : DeploySteps \cup SetupSteps \cup Done,
         job : JobIds, root : Roots]

NoWork == [step |-> "none"]

HostTypeOK ==
  /\ work \in [Hosts -> Work \cup {NoWork}]
  /\ dirs \in [Roots -> SUBSET (JobIds \cup {Initial})]
  /\ temps \in [Roots -> SUBSET JobIds]
  /\ current \in [Roots -> JobIds \cup {Initial, Absent, Plain}]
  /\ next \in [Roots -> JobIds \cup {Absent}]
  /\ execs \in [JobIds -> Nat]

\* A root nobody set up yet; the operator may have left a plain directory
\* where the symlink belongs.
HostInit ==
  /\ work = [h \in Hosts |-> NoWork]
  /\ dirs = [r \in Roots |-> {}]
  /\ temps = [r \in Roots |-> {}]
  /\ current \in [Roots -> {Absent, Plain}]
  /\ next = [r \in Roots |-> Absent]
  /\ execs = [j \in JobIds |-> 0]

At(h, step) == work[h].step = step
GoTo(h, step) == work' = [work EXCEPT ![h].step = step]

-----------------------------------------------------------------------------
\* handleJob's switch on the action, once the start call was answered.
FirstStep(action) ==
  IF action = "deploy" THEN "clone"
  ELSE IF action = "setup_app" THEN "mkdirs" ELSE "err"

Begin(h, j, r, action) ==
  /\ work' = [work EXCEPT ![h] = [step |-> FirstStep(action),
                                  job |-> j, root |-> r]]
  /\ execs' = [execs EXCEPT ![j] = @ + 1]
  /\ UNCHANGED <<dirs, temps, current, next>>

(* handleDeploy.                                                           *)

\* RemoveAll of a stale temporary directory, then git clone into it.
Clone(h) ==
  /\ At(h, "clone")
  /\ LET w == work[h] IN temps' = [temps EXCEPT ![w.root] = @ \cup {w.job}]
  /\ GoTo(h, "checkout")
  /\ UNCHANGED <<dirs, current, next, execs>>

\* Mutant: the temporary directory is not renamed.
RenameForgotten(r, j) == UNCHANGED <<temps, dirs>>

RenameTemp(r, j) ==
  /\ temps' = [temps EXCEPT ![r] = @ \ {j}]
  /\ dirs' = [dirs EXCEPT ![r] = @ \cup {j}]

\* git checkout and rev-parse, then Rename of the temporary directory to
\* the release directory.
Checkout(h) ==
  /\ At(h, "checkout")
  /\ RenameTemp(work[h].root, work[h].job)
  /\ GoTo(h, "publish")
  /\ UNCHANGED <<current, next, execs>>

\* replaceSymlink refuses a current that is not a symlink and removes a
\* current.next some earlier attempt left behind.
Publish(h) ==
  /\ At(h, "publish")
  /\ LET r == work[h].root
     IN IF current[r] = Plain
        THEN GoTo(h, "err") /\ UNCHANGED next
        ELSE GoTo(h, "link") /\ next' = [next EXCEPT ![r] = Absent]
  /\ UNCHANGED <<dirs, temps, current, execs>>

Link(h) ==
  /\ At(h, "link")
  /\ LET w == work[h] IN next' = [next EXCEPT ![w.root] = w.job]
  /\ GoTo(h, "swap")
  /\ UNCHANGED <<dirs, temps, current, execs>>

\* Mutant: something after the swap fails the deploy.
SwapThenFail(h) ==
  /\ At(h, "swap")
  /\ LET r == work[h].root
     IN /\ current' = [current EXCEPT ![r] = next[r]]
        /\ next' = [next EXCEPT ![r] = Absent]
  /\ GoTo(h, "err")
  /\ UNCHANGED <<dirs, temps, execs>>

\* Rename of current.next over current.
Swap(h) ==
  /\ At(h, "swap")
  /\ LET r == work[h].root
     IN /\ current' = [current EXCEPT ![r] = next[r]]
        /\ next' = [next EXCEPT ![r] = Absent]
  /\ GoTo(h, "ok")
  /\ UNCHANGED <<dirs, temps, execs>>

\* Mutant: without the deferred RemoveAll.
KeepTemp(h) == UNCHANGED temps

\* The deferred RemoveAll of the temporary directory.
RemoveTemp(h) ==
  LET w == work[h] IN temps' = [temps EXCEPT ![w.root] = @ \ {w.job}]

\* An error at any step ends the deploy.
DeployFails(h) ==
  /\ work[h].step \in DeploySteps
  /\ RemoveTemp(h)
  /\ GoTo(h, "err")
  /\ UNCHANGED <<dirs, current, next, execs>>

(* handleSetupApp.                                                         *)

MakeDirs(h) ==
  /\ At(h, "mkdirs")
  /\ dirs' = [dirs EXCEPT ![work[h].root] = @ \cup {Initial}]
  /\ GoTo(h, "ensure")
  /\ UNCHANGED <<temps, current, next, execs>>

\* Mutant: current is pointed to the initial release whatever it is.
AlwaysLinkable(r) == TRUE

Linkable(r) == current[r] \in {Absent, Initial}

\* ensureSymlink makes current point to releases/initial, leaves it there,
\* or fails when current is anything else.
Ensure(h) ==
  /\ At(h, "ensure")
  /\ LET r == work[h].root
     IN IF Linkable(r)
        THEN GoTo(h, "finish") /\ current' = [current EXCEPT ![r] = Initial]
        ELSE GoTo(h, "err") /\ UNCHANGED current
  /\ UNCHANGED <<dirs, temps, next, execs>>

\* The recipe and the web server's site, outside the root.
Finish(h) ==
  /\ At(h, "finish")
  /\ GoTo(h, "ok")
  /\ UNCHANGED <<dirs, temps, current, next, execs>>

SetupFails(h) ==
  /\ work[h].step \in SetupSteps
  /\ GoTo(h, "err")
  /\ UNCHANGED <<dirs, temps, current, next, execs>>

Execute(h) ==
  \/ Clone(h) \/ Checkout(h) \/ Publish(h) \/ Link(h) \/ Swap(h)
  \/ MakeDirs(h) \/ Ensure(h) \/ Finish(h)
  \/ DeployFails(h) \/ SetupFails(h)

\* handleJob returns from the executor with a result to report.
Finished(h) == work[h].step \in Done

Leave(h) ==
  /\ work' = [work EXCEPT ![h] = NoWork]
  /\ UNCHANGED <<dirs, temps, current, next, execs>>

\* The agent dies.  Killed, it leaves its temporary directory behind; on
\* SIGTERM git is killed and the deferred RemoveAll still runs.
Kill(h) ==
  /\ work' = [work EXCEPT ![h] = NoWork]
  /\ \/ UNCHANGED temps
     \/ At(h, "checkout") /\ RemoveTemp(h)
  /\ UNCHANGED <<dirs, current, next, execs>>

-----------------------------------------------------------------------------
(* The executor on its own: it is handed each job at most once, at a root  *)
(* of its host.  Deployment shows that the rest of the system keeps that   *)
(* promise.                                                                *)

HostNext ==
  \E h \in Hosts :
    \/ \E j \in JobIds, r \in Roots, action \in {"deploy", "setup_app", "rollback"} :
         /\ work[h] = NoWork
         /\ execs[j] = 0
         /\ RootHost[r] = h
         /\ Begin(h, j, r, action)
    \/ Execute(h)
    \/ Finished(h) /\ Leave(h)
    \/ Kill(h)

HostSpec == HostInit /\ [][HostNext]_hostVars

-----------------------------------------------------------------------------
(* A symlink never dangles: current and current.next point only to release *)
(* directories that are complete and in place (Rename before               *)
(* replaceSymlink, MkdirAll before ensureSymlink), whatever fails or dies. *)
LinksResolve ==
  \A r \in Roots :
    /\ current[r] \in dirs[r] \cup {Absent, Plain}
    /\ next[r] \in dirs[r] \cup {Absent}

(* A site that was published stays published: current changes only to a    *)
(* directory that is in place, never goes away, never falls back to the    *)
(* initial page, and something that is not a symlink is never replaced.    *)
SiteKept ==
  [][\A r \in Roots : current'[r] # current[r] =>
       /\ current[r] # Plain
       /\ current'[r] \in dirs[r]
       /\ current[r] \in JobIds => current'[r] \in JobIds]_hostVars

(* A job whose execution failed is not live: once the executor reports an  *)
(* error, current does not point to that job's release.                    *)
FailureNotLive ==
  \A h \in Hosts : At(h, "err") => current[work[h].root] # work[h].job

(* A job's release directory and its temporary directory never exist       *)
(* together, and a finished execution leaves no temporary directory.       *)
NoHalfBuiltRelease ==
  /\ \A r \in Roots : temps[r] \cap dirs[r] = {}
  /\ \A h \in Hosts : Finished(h) => work[h].job \notin temps[work[h].root]

=============================================================================
