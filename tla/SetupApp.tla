------------------------------ MODULE SetupApp ------------------------------
(***************************************************************************)
(* The files a setup_app job writes beside the app's symlinks: the initial *)
(* index.html, the recipe and the site of the web server (src/cmd/         *)
(* cplane-agent/main.go, handleSetupApp, writeIfMissing, writeNginxSite).  *)
(*                                                                         *)
(* Host knows three steps of a setup; this module takes them apart and     *)
(* adds the files, so that every behaviour of it is one of Host.  A file   *)
(* is created empty and then filled (os.WriteFile): the agent may die, or  *)
(* the disk be full, in between.  nginx is modelled from its use: a test   *)
(* of the enabled sites, a reload that takes them over, and a boot that    *)
(* leaves nginx down when they are rejected.                               *)
(***************************************************************************)
EXTENDS Host

CONSTANTS
  Recipes,    \* recipe paths
  Domains,    \* domains that pass the agent's validation
  BadDomains, \* those among them that nginx rejects in a server_name
  NoDomain    \* nginx_enabled is false

ASSUME SetupAssumption ==
  /\ BadDomains \subseteq Domains /\ NoDomain \notin Domains
  /\ Absent \notin Roots

VARIABLES
  task,    \* task[h]: what the job of h is about, and its next file operation
  index,   \* index[r]: r/releases/initial/index.html
  recipe,  \* recipe[h][p]: the file p on h
  site,    \* site[h][d]: sites-available/d.conf, and the root it names
  enabled, \* enabled[h][d]: what sites-enabled/d.conf is
  served,  \* served[h][d]: the root that nginx serves d from
  spoilt   \* spoilt[h]: a setup failed or died on h (history)

setupVars == <<task, index, recipe, site, enabled, served, spoilt>>
vars == <<hostVars, setupVars>>

\* "part" is a file whose writing broke off.
Content == {"none", "empty", "part", "whole"}

Task == [op : {"none", "dirs", "index", "fillIndex", "link", "recipe", "fillRecipe",
               "site", "fillSite", "enable", "test", "reload", "end"},
         recipe : Recipes, domain : Domains \cup {NoDomain}]

TypeOK ==
  /\ HostTypeOK
  /\ task \in [Hosts -> Task]
  /\ index \in [Roots -> Content]
  /\ recipe \in [Hosts -> [Recipes -> Content]]
  /\ site \in [Hosts -> [Domains -> [content : Content, root : Roots \cup {Absent}]]]
  /\ enabled \in [Hosts -> [Domains -> {"no", "ours", "foreign"}]]
  /\ served \in [Hosts -> [Domains -> Roots \cup {Absent}]]
  /\ spoilt \in [Hosts -> BOOLEAN]

\* The operator may have a site of his own under the name of a domain.
Init ==
  /\ HostInit
  /\ task \in [Hosts -> {t \in Task : t.op = "none" /\ t.domain = NoDomain}]
  /\ index = [r \in Roots |-> "none"]
  /\ recipe = [h \in Hosts |-> [p \in Recipes |-> "none"]]
  /\ site = [h \in Hosts |-> [d \in Domains |-> [content |-> "none", root |-> Absent]]]
  /\ enabled \in [Hosts -> [Domains -> {"no", "foreign"}]]
  /\ served = [h \in Hosts |-> [d \in Domains |-> Absent]]
  /\ spoilt = [h \in Hosts |-> FALSE]

Setting(h) == work[h].step \in SetupSteps
Doing(h, op) == Setting(h) /\ task[h].op = op
Then(h, op) == task' = [task EXCEPT ![h].op = op]

-----------------------------------------------------------------------------
(* Directories, index.html, the symlink current and the recipe.            *)

Dirs(h) ==
  /\ Doing(h, "dirs")
  /\ MakeDirs(h)
  /\ Then(h, "index")
  /\ UNCHANGED <<index, recipe, site, enabled, served, spoilt>>

\* writeIfMissing: a file that is there, whatever is in it, is left alone.
Index(h) ==
  /\ Doing(h, "index")
  /\ LET r == work[h].root IN
       \/ index[r] # "none" /\ Then(h, "link") /\ UNCHANGED index
       \/ /\ index[r] = "none" /\ Then(h, "fillIndex")
          /\ index' = [index EXCEPT ![r] = "empty"]
  /\ UNCHANGED <<hostVars, recipe, site, enabled, served, spoilt>>

FillIndex(h) ==
  /\ Doing(h, "fillIndex")
  /\ index' = [index EXCEPT ![work[h].root] = "whole"]
  /\ Then(h, "link")
  /\ UNCHANGED <<hostVars, recipe, site, enabled, served, spoilt>>

\* Mutant: any current that exists will do.
LinkLoosely(h) ==
  /\ Doing(h, "link")
  /\ IF current[work[h].root] = Absent THEN Ensure(h)
     ELSE GoTo(h, "finish") /\ UNCHANGED <<dirs, temps, current, next, execs>>
  /\ Then(h, "recipe")
  /\ UNCHANGED <<index, recipe, site, enabled, served, spoilt>>

\* A current that points elsewhere fails the job before it has a recipe.
LinkInitial(h) ==
  /\ Doing(h, "link")
  /\ Ensure(h)
  /\ Then(h, "recipe")
  /\ spoilt' = [spoilt EXCEPT ![h] = @ \/ ~Linkable(work[h].root)]
  /\ UNCHANGED <<index, recipe, site, enabled, served>>

AfterRecipe(h) == IF task[h].domain = NoDomain THEN "end" ELSE "site"

Recipe(h) ==
  /\ Doing(h, "recipe")
  /\ LET p == task[h].recipe IN
       \/ recipe[h][p] # "none" /\ Then(h, AfterRecipe(h)) /\ UNCHANGED recipe
       \/ /\ recipe[h][p] = "none" /\ Then(h, "fillRecipe")
          /\ recipe' = [recipe EXCEPT ![h][p] = "empty"]
  /\ UNCHANGED <<hostVars, index, site, enabled, served, spoilt>>

FillRecipe(h) ==
  /\ Doing(h, "fillRecipe")
  /\ recipe' = [recipe EXCEPT ![h][task[h].recipe] = "whole"]
  /\ Then(h, AfterRecipe(h))
  /\ UNCHANGED <<hostVars, index, site, enabled, served, spoilt>>

-----------------------------------------------------------------------------
(* The site.                                                               *)

SetSite(h, content, root) ==
  site' = [site EXCEPT ![h][task[h].domain] = [content |-> content, root |-> root]]

\* Mutant: the site is written with writeIfMissing.
SiteIfMissing(h) ==
  /\ Doing(h, "site")
  /\ \/ site[h][task[h].domain].content # "none" /\ Then(h, "enable") /\ UNCHANGED site
     \/ /\ site[h][task[h].domain].content = "none"
        /\ SetSite(h, "empty", Absent) /\ Then(h, "fillSite")
  /\ UNCHANGED <<hostVars, index, recipe, enabled, served, spoilt>>

\* An existing site, of this app or another one, is truncated.
Site(h) ==
  /\ Doing(h, "site")
  /\ SetSite(h, "empty", Absent)
  /\ Then(h, "fillSite")
  /\ UNCHANGED <<hostVars, index, recipe, enabled, served, spoilt>>

FillSite(h) ==
  /\ Doing(h, "fillSite")
  /\ SetSite(h, "whole", work[h].root)
  /\ Then(h, "enable")
  /\ UNCHANGED <<hostVars, index, recipe, enabled, served, spoilt>>

\* The job fails: nothing of what it did is taken back.
GiveUp(h) ==
  /\ SetupFails(h)
  /\ spoilt' = [spoilt EXCEPT ![h] = TRUE]
  /\ UNCHANGED <<task, index, recipe, site, enabled, served>>

\* ensureSymlink in sites-enabled.
Enable(h) ==
  /\ Doing(h, "enable")
  /\ LET d == task[h].domain IN
       \/ enabled[h][d] = "foreign" /\ GiveUp(h)
       \/ /\ enabled[h][d] # "foreign" /\ Then(h, "test")
          /\ enabled' = [enabled EXCEPT ![h][d] = "ours"]
          /\ UNCHANGED <<hostVars, index, recipe, site, served, spoilt>>

\* What nginx makes of the files: an empty site is none, a broken one makes
\* it reject all of them.
Loads(h) ==
  \A d \in Domains : enabled[h][d] = "ours" =>
    /\ site[h][d].content # "part"
    /\ site[h][d].content = "whole" => d \notin BadDomains

Configured(h) ==
  [d \in Domains |-> IF enabled[h][d] = "ours" THEN site[h][d].root ELSE Absent]

\* Mutant: nginx is restarted, without a test.
RestartUntested(h) ==
  /\ Doing(h, "test")
  /\ served' = [served EXCEPT ![h] = IF Loads(h) THEN Configured(h)
                                     ELSE [d \in Domains |-> Absent]]
  /\ Then(h, "reload")
  /\ UNCHANGED <<hostVars, index, recipe, site, enabled, spoilt>>

\* nginx -t, over the sites of every app of the host.
Test(h) ==
  /\ Doing(h, "test")
  /\ \/ ~Loads(h) /\ GiveUp(h)
     \/ /\ Loads(h) /\ Then(h, "reload")
        /\ UNCHANGED <<hostVars, index, recipe, site, enabled, served, spoilt>>

Reload(h) ==
  /\ Doing(h, "reload")
  /\ served' = [served EXCEPT ![h] = Configured(h)]
  /\ Then(h, "end")
  /\ UNCHANGED <<hostVars, index, recipe, site, enabled, spoilt>>

End(h) ==
  /\ Doing(h, "end")
  /\ Finish(h)
  /\ UNCHANGED setupVars

-----------------------------------------------------------------------------
(* Errors, deaths, boots; jobs of other kinds.                             *)

\* What can be left of the file that was being filled.
BreakOff(h) ==
  LET r == work[h].root
      t == task[h] IN
  \/ UNCHANGED <<index, recipe, site>>
  \/ /\ Doing(h, "fillIndex") /\ index' = [index EXCEPT ![r] = "part"]
     /\ UNCHANGED <<recipe, site>>
  \/ /\ Doing(h, "fillRecipe") /\ recipe' = [recipe EXCEPT ![h][t.recipe] = "part"]
     /\ UNCHANGED <<index, site>>
  \/ /\ Doing(h, "fillSite") /\ SetSite(h, "part", Absent)
     /\ UNCHANGED <<index, recipe>>

\* An error of any call, the validation of the metadata included.
Fails(h) ==
  /\ SetupFails(h)
  /\ BreakOff(h)
  /\ spoilt' = [spoilt EXCEPT ![h] = TRUE]
  /\ UNCHANGED <<task, enabled, served>>

Dies(h) ==
  /\ Kill(h)
  /\ BreakOff(h)
  /\ spoilt' = [spoilt EXCEPT ![h] = @ \/ Setting(h)]
  /\ UNCHANGED <<task, enabled, served>>

\* The machine restarts, and nginx with it.
Boot(h) ==
  /\ work[h] = NoWork
  /\ served' = [served EXCEPT ![h] = IF Loads(h) THEN Configured(h)
                                     ELSE [d \in Domains |-> Absent]]
  /\ UNCHANGED <<hostVars, task, index, recipe, site, enabled, spoilt>>

\* A job the executor has not met yet, with its metadata.
Receive(h) ==
  \E j \in JobIds, r \in Roots, action \in {"deploy", "setup_app", "rollback"},
     p \in Recipes, d \in Domains \cup {NoDomain} :
    /\ work[h] = NoWork
    /\ execs[j] = 0
    /\ RootHost[r] = h
    /\ action # "setup_app" => d = NoDomain
    /\ Begin(h, j, r, action)
    /\ task' = [task EXCEPT ![h] = [op |-> IF action = "setup_app" THEN "dirs" ELSE "none",
                                    recipe |-> p, domain |-> d]]
    /\ UNCHANGED <<index, recipe, site, enabled, served, spoilt>>

Deploys(h) ==
  /\ Clone(h) \/ Checkout(h) \/ Publish(h) \/ Link(h) \/ Swap(h) \/ DeployFails(h)
  /\ UNCHANGED setupVars

Reported(h) == Finished(h) /\ Leave(h) /\ UNCHANGED setupVars

SetsUp(h) ==
  \/ Dirs(h) \/ Index(h) \/ FillIndex(h) \/ LinkInitial(h) \/ Recipe(h) \/ FillRecipe(h)
  \/ Site(h) \/ FillSite(h) \/ Enable(h) \/ Test(h) \/ Reload(h) \/ End(h)
  \/ Fails(h)

Next ==
  \E h \in Hosts :
    Receive(h) \/ Deploys(h) \/ SetsUp(h) \/ Reported(h) \/ Dies(h) \/ Boot(h)

Spec == Init /\ [][Next]_vars

-----------------------------------------------------------------------------
(* Properties.                                                             *)

\* A setup that ends well has put its domain on line: nginx serves it from
\* the root of this job, although another app may have set up the same domain
\* before, an earlier attempt may have died anywhere and another app's site
\* may be broken.
SuccessIsServed ==
  \A h \in Hosts :
    At(h, "ok") /\ task[h].domain # NoDomain =>
      served[h][task[h].domain] = work[h].root

\* nginx loses a domain, at a reload or at a boot, only on a host where a
\* setup failed or died: without that what is on disk always loads and holds
\* every site that is served.
ServedStays ==
  [][\A h \in Hosts, d \in Domains :
       served[h][d] # Absent /\ served'[h][d] = Absent => spoilt[h]]_vars

\* The PRD: the agent prepares the recipe placeholder and then marks the job
\* success.  But a recipe left empty by an attempt that broke off is there,
\* and no later setup writes it.
SuccessMeansPrepared ==
  \A h \in Hosts :
    At(h, "ok") /\ task[h].op = "end" => recipe[h][task[h].recipe] = "whole"

=============================================================================
