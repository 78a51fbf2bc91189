--------------------------- MODULE SetupAppProofs ---------------------------
(***************************************************************************)
(* Setting up an app with all its files is still an executor as Host says, *)
(* so the properties of HostProofs hold of it; a setup that ends well is   *)
(* served, and nginx loses no domain on a host where no setup failed.      *)
(*                                                                         *)
(* LocalInv is what holds of each host: what the next file operation says  *)
(* of the domain that is being set up, and, while no setup failed there,   *)
(* that nginx accepts every enabled site but the one being written.        *)
(***************************************************************************)
EXTENDS SetupApp, HostProofs

\* The operations of writeNginxSite.
SiteOps == {"site", "fillSite", "enable", "test", "reload"}

DomainFits(h) ==
  /\ Setting(h) /\ task[h].op \in SiteOps => task[h].domain \in Domains
  /\ work[h].step \in DeploySteps => task[h].domain = NoDomain

\* What the operation a setup is at implies for its site.
SiteKnown(h) ==
  LET d == task[h].domain
      op == task[h].op
      r == work[h].root
  IN /\ Setting(h) /\ op \in {"enable", "test", "reload"} =>
          site[h][d] = [content |-> "whole", root |-> r]
     /\ Setting(h) /\ op \in {"test", "reload"} => enabled[h][d] = "ours"
     /\ Setting(h) /\ op = "end" /\ d # NoDomain => served[h][d] = r
     /\ At(h, "ok") /\ d # NoDomain => served[h][d] = r

\* nginx accepts what it is to make of d, and serves it from some root.
Sound(h, d) ==
  enabled[h][d] = "ours" =>
    /\ site[h][d].content = "whole" /\ site[h][d].root # Absent
    /\ d \notin BadDomains

InProgress(h, d) ==
  Setting(h) /\ task[h].domain = d /\ task[h].op \in {"fillSite", "enable", "test"}

SitesSound(h) ==
  ~spoilt[h] => \A d \in Domains : Sound(h, d) \/ InProgress(h, d)

ServedEnabled(h) ==
  \A d \in Domains : served[h][d] # Absent => enabled[h][d] = "ours"

LocalInv(h) == DomainFits(h) /\ SiteKnown(h) /\ SitesSound(h) /\ ServedEnabled(h)

SetupInv == HostInv /\ TypeOK /\ \A h \in Hosts : LocalInv(h)

-----------------------------------------------------------------------------
(* The files beside the symlinks change nothing that Host knows of.        *)
LEMMA NextIsHost ==
  ASSUME [Next]_vars
  PROVE  [HostNext]_hostVars
<1>1. ASSUME NEW h \in Hosts, Receive(h) PROVE HostNext
  BY <1>1 DEF Receive, HostNext
<1>2. ASSUME NEW h \in Hosts, Deploys(h) \/ SetsUp(h) PROVE Execute(h) \/ UNCHANGED hostVars
  BY <1>2 DEF Deploys, SetsUp, Execute, Dirs, Index, FillIndex, LinkInitial, Recipe,
     FillRecipe, Site, FillSite, Enable, Test, Reload, End, Fails, GiveUp
<1>3. ASSUME NEW h \in Hosts, Reported(h) \/ Dies(h) PROVE HostNext
  BY <1>3 DEF Reported, Dies, HostNext
<1>4. ASSUME NEW h \in Hosts, Boot(h) PROVE UNCHANGED hostVars
  BY <1>4 DEF Boot
<1>. QED BY <1>1, <1>2, <1>3, <1>4 DEF Next, HostNext, vars

(* Setting up an app is an execution as Host has it, taken apart.          *)
THEOREM SetupIsHost == Spec => HostSpec
<1>1. Init => HostInit
  BY DEF Init
<1>. QED BY <1>1, NextIsHost, PTL DEF Spec, HostSpec

(* So its links resolve, a failed job is not live, no release is half      *)
(* built, and a published site stays published.                            *)
THEOREM SetupHostSafe ==
  Spec => [](LinksResolve /\ FailureNotLive /\ NoHalfBuiltRelease) /\ SiteKept
  BY SetupIsHost, HostLinksResolve, HostFailureNotLive, HostNoHalfBuiltRelease,
     HostSiteKept, PTL

-----------------------------------------------------------------------------
\* Only host h moves.
OnlyMoves(h) ==
  \A g \in Hosts \ {h} :
    /\ work'[g] = work[g] /\ task'[g] = task[g] /\ site'[g] = site[g]
    /\ enabled'[g] = enabled[g] /\ served'[g] = served[g] /\ spoilt'[g] = spoilt[g]

(* The next file operation.                                                *)
LEMMA ThenMoves ==
  ASSUME task \in [Hosts -> Task], NEW h \in Hosts, NEW op, Then(h, op)
  PROVE  /\ task'[h].op = op /\ task'[h].domain = task[h].domain
         /\ task'[h].recipe = task[h].recipe
         /\ \A g \in Hosts \ {h} : task'[g] = task[g]
  BY DEF Then, Task

LEMMA ThenTyped ==
  ASSUME task \in [Hosts -> Task], NEW h \in Hosts,
         NEW op \in {"index", "fillIndex", "link", "recipe", "fillRecipe", "site",
                     "fillSite", "enable", "test", "reload", "end"},
         Then(h, op)
  PROVE  task' \in [Hosts -> Task]
  BY DEF Then, Task

(* The next step of the executor.                                          *)
LEMMA GoToMoves ==
  ASSUME work \in [Hosts -> Work \cup {NoWork}], NEW h \in Hosts, work[h] \in Work,
         NEW s, GoTo(h, s)
  PROVE  /\ work'[h].step = s /\ work'[h].root = work[h].root
         /\ \A g \in Hosts \ {h} : work'[g] = work[g]
  BY DEF GoTo, Work

LEMMA SettingWorks ==
  ASSUME HostTypeOK, NEW h \in Hosts, Setting(h)
  PROVE  work[h] \in Work /\ work[h].root \in Roots
  BY DEF HostTypeOK, Setting, SetupSteps, Work, NoWork

(* What is left to show when one host moves.                               *)
LEMMA OneHostMoves ==
  ASSUME SetupInv, HostInv', NEW h \in Hosts, OnlyMoves(h), TypeOK', LocalInv(h)'
  PROVE  SetupInv'
<1>1. ASSUME NEW g \in Hosts \ {h} PROVE LocalInv(g)'
  BY DEF SetupInv, OnlyMoves, LocalInv, DomainFits, SiteKnown, SitesSound, Sound,
     InProgress, ServedEnabled, Setting, At
<1>. QED BY <1>1 DEF SetupInv

-----------------------------------------------------------------------------
(* The operations of a setup on h that leave the executor where it is.     *)
Kept(h) == TypeOK' /\ OnlyMoves(h) /\ LocalInv(h)'

(* The initial page.                                                       *)
LEMMA IndexKeeps ==
  ASSUME SetupInv, NEW h \in Hosts, Index(h)
  PROVE  Kept(h)
<1>1. LocalInv(h) /\ task \in [Hosts -> Task] /\ Setting(h)
  BY DEF SetupInv, TypeOK, Index, Doing
<1>2. /\ work[h].root \in Roots /\ task[h].domain \in Domains \cup {NoDomain}
      /\ task[h].op \in SiteOps => task[h].domain \in Domains
  BY <1>1, SettingWorks DEF SetupInv, TypeOK, Task, LocalInv, DomainFits
<1>3. TypeOK'
  BY <1>1, <1>2, ThenTyped
  DEF Index, Doing, SiteOps, SetupInv, TypeOK, hostVars, HostTypeOK, Content
<1>4. OnlyMoves(h)
  BY <1>1, ThenMoves DEF Index, Doing, OnlyMoves, hostVars, SetupInv, TypeOK
<1>5. DomainFits(h)'
  BY <1>1, <1>2, ThenMoves
  DEF Index, Doing, LocalInv, DomainFits, Setting, SiteOps, SetupSteps, DeploySteps,
      hostVars
<1>6. SiteKnown(h)'
  BY <1>1, <1>2, ThenMoves
  DEF Index, Doing, LocalInv, SiteKnown, Setting, At, SiteOps, SetupSteps, hostVars,
      SetupInv, TypeOK
<1>7. SitesSound(h)' /\ ServedEnabled(h)'
  BY <1>1, <1>2, ThenMoves
  DEF Index, Doing, LocalInv, SitesSound, Sound, InProgress, SiteOps, ServedEnabled,
      Setting, hostVars, SetupInv, TypeOK
<1>. QED BY <1>3, <1>4, <1>5, <1>6, <1>7 DEF Kept, LocalInv

(* Its text.                                                               *)
LEMMA FillIndexKeeps ==
  ASSUME SetupInv, NEW h \in Hosts, FillIndex(h)
  PROVE  Kept(h)
<1>1. LocalInv(h) /\ task \in [Hosts -> Task] /\ Setting(h)
  BY DEF SetupInv, TypeOK, FillIndex, Doing
<1>2. /\ work[h].root \in Roots /\ task[h].domain \in Domains \cup {NoDomain}
      /\ task[h].op \in SiteOps => task[h].domain \in Domains
  BY <1>1, SettingWorks DEF SetupInv, TypeOK, Task, LocalInv, DomainFits
<1>3. TypeOK'
  BY <1>1, <1>2, ThenTyped
  DEF FillIndex, Doing, SiteOps, SetupInv, TypeOK, hostVars, HostTypeOK, Content
<1>4. OnlyMoves(h)
  BY <1>1, ThenMoves DEF FillIndex, Doing, OnlyMoves, hostVars, SetupInv, TypeOK
<1>5. DomainFits(h)'
  BY <1>1, <1>2, ThenMoves
  DEF FillIndex, Doing, LocalInv, DomainFits, Setting, SiteOps, SetupSteps, DeploySteps,
      hostVars
<1>6. SiteKnown(h)'
  BY <1>1, <1>2, ThenMoves
  DEF FillIndex, Doing, LocalInv, SiteKnown, Setting, At, SiteOps, SetupSteps, hostVars,
      SetupInv, TypeOK
<1>7. SitesSound(h)' /\ ServedEnabled(h)'
  BY <1>1, <1>2, ThenMoves
  DEF FillIndex, Doing, LocalInv, SitesSound, Sound, InProgress, SiteOps, ServedEnabled,
      Setting, hostVars, SetupInv, TypeOK
<1>. QED BY <1>3, <1>4, <1>5, <1>6, <1>7 DEF Kept, LocalInv

(* The recipe, and then the site, if there is to be one.                   *)
LEMMA RecipeKeeps ==
  ASSUME SetupInv, NEW h \in Hosts, Recipe(h)
  PROVE  Kept(h)
<1>1. LocalInv(h) /\ task \in [Hosts -> Task] /\ Setting(h)
  BY DEF SetupInv, TypeOK, Recipe, Doing, AfterRecipe
<1>2. /\ work[h].root \in Roots /\ task[h].domain \in Domains \cup {NoDomain}
      /\ task[h].op \in SiteOps => task[h].domain \in Domains
  BY <1>1, SettingWorks DEF SetupInv, TypeOK, Task, LocalInv, DomainFits
<1>3. TypeOK'
  <2>1. task' \in [Hosts -> Task]
    BY <1>1, <1>2, ThenTyped DEF Recipe, AfterRecipe
  <2>2. recipe' \in [Hosts -> [Recipes -> Content]]
    <3>1. recipe \in [Hosts -> [Recipes -> Content]]
      BY DEF SetupInv, TypeOK
    <3>2. CASE UNCHANGED recipe
      BY <3>1, <3>2
    <3>3. CASE recipe' = [recipe EXCEPT ![h][task[h].recipe] = "empty"]
      BY <3>1, <3>3 DEF Content
    <3>. QED BY <3>2, <3>3 DEF Recipe
  <2>3. HostTypeOK' /\ UNCHANGED <<index, site, enabled, served, spoilt>>
    BY DEF Recipe, SetupInv, TypeOK, HostTypeOK, hostVars
  <2>. QED BY <2>1, <2>2, <2>3 DEF TypeOK, SetupInv
<1>4. OnlyMoves(h)
  BY <1>1, ThenMoves DEF Recipe, Doing, AfterRecipe, OnlyMoves, hostVars, SetupInv, TypeOK
<1>5. DomainFits(h)'
  BY <1>1, <1>2, ThenMoves
  DEF Recipe, Doing, AfterRecipe, LocalInv, DomainFits, Setting, SiteOps, SetupSteps,
      DeploySteps, hostVars
<1>6. SiteKnown(h)'
  BY <1>1, <1>2, ThenMoves
  DEF Recipe, Doing, AfterRecipe, LocalInv, SiteKnown, Setting, At, SiteOps, SetupSteps,
      hostVars, SetupInv, TypeOK
<1>7. SitesSound(h)' /\ ServedEnabled(h)'
  BY <1>1, <1>2, ThenMoves
  DEF Recipe, Doing, AfterRecipe, LocalInv, SitesSound, Sound, InProgress, SiteOps,
      ServedEnabled, Setting, hostVars, SetupInv, TypeOK
<1>. QED BY <1>3, <1>4, <1>5, <1>6, <1>7 DEF Kept, LocalInv

(* Its text.                                                               *)
LEMMA FillRecipeKeeps ==
  ASSUME SetupInv, NEW h \in Hosts, FillRecipe(h)
  PROVE  Kept(h)
<1>1. LocalInv(h) /\ task \in [Hosts -> Task] /\ Setting(h)
  BY DEF SetupInv, TypeOK, FillRecipe, Doing, AfterRecipe
<1>2. /\ work[h].root \in Roots /\ task[h].domain \in Domains \cup {NoDomain}
      /\ task[h].op \in SiteOps => task[h].domain \in Domains
  BY <1>1, SettingWorks DEF SetupInv, TypeOK, Task, LocalInv, DomainFits
<1>3. TypeOK'
  BY <1>1, <1>2, ThenTyped
  DEF FillRecipe, Doing, AfterRecipe, SiteOps, SetupInv, TypeOK, hostVars, HostTypeOK,
      Content
<1>4. OnlyMoves(h)
  BY <1>1, ThenMoves
     DEF FillRecipe, Doing, AfterRecipe, OnlyMoves, hostVars, SetupInv, TypeOK
<1>5. DomainFits(h)'
  BY <1>1, <1>2, ThenMoves
  DEF FillRecipe, Doing, AfterRecipe, LocalInv, DomainFits, Setting, SiteOps, SetupSteps,
      DeploySteps, hostVars
<1>6. SiteKnown(h)'
  BY <1>1, <1>2, ThenMoves
  DEF FillRecipe, Doing, AfterRecipe, LocalInv, SiteKnown, Setting, At, SiteOps,
      SetupSteps, hostVars, SetupInv, TypeOK
<1>7. SitesSound(h)' /\ ServedEnabled(h)'
  BY <1>1, <1>2, ThenMoves
  DEF FillRecipe, Doing, AfterRecipe, LocalInv, SitesSound, Sound, InProgress, SiteOps,
      ServedEnabled, Setting, hostVars, SetupInv, TypeOK
<1>. QED BY <1>3, <1>4, <1>5, <1>6, <1>7 DEF Kept, LocalInv

(* The site is emptied: the domain is in progress from now on.             *)
LEMMA SiteKeeps ==
  ASSUME SetupInv, NEW h \in Hosts, Site(h)
  PROVE  Kept(h)
<1>1. LocalInv(h) /\ task \in [Hosts -> Task] /\ Setting(h)
  BY DEF SetupInv, TypeOK, Site, Doing, SetSite
<1>2. /\ work[h].root \in Roots /\ task[h].domain \in Domains \cup {NoDomain}
      /\ task[h].op \in SiteOps => task[h].domain \in Domains
  BY <1>1, SettingWorks DEF SetupInv, TypeOK, Task, LocalInv, DomainFits
<1>3. TypeOK'
  BY <1>1, <1>2, ThenTyped
  DEF Site, Doing, SetSite, SiteOps, SetupInv, TypeOK, hostVars, HostTypeOK, Content
<1>4. OnlyMoves(h)
  BY <1>1, ThenMoves DEF Site, Doing, SetSite, OnlyMoves, hostVars, SetupInv, TypeOK
<1>5. DomainFits(h)'
  BY <1>1, <1>2, ThenMoves
  DEF Site, Doing, SetSite, LocalInv, DomainFits, Setting, SiteOps, SetupSteps,
      DeploySteps, hostVars
<1>6. SiteKnown(h)'
  BY <1>1, <1>2, ThenMoves
  DEF Site, Doing, SetSite, LocalInv, SiteKnown, Setting, At, SiteOps, SetupSteps,
      hostVars, SetupInv, TypeOK
<1>7. SitesSound(h)' /\ ServedEnabled(h)'
  BY <1>1, <1>2, ThenMoves
  DEF Site, Doing, SetSite, LocalInv, SitesSound, Sound, InProgress, SiteOps,
      ServedEnabled, Setting, hostVars, SetupInv, TypeOK
<1>. QED BY <1>3, <1>4, <1>5, <1>6, <1>7 DEF Kept, LocalInv

(* Its text names the root of this job.                                    *)
LEMMA FillSiteKeeps ==
  ASSUME SetupInv, NEW h \in Hosts, FillSite(h)
  PROVE  Kept(h)
<1>1. LocalInv(h) /\ task \in [Hosts -> Task] /\ Setting(h)
  BY DEF SetupInv, TypeOK, FillSite, Doing, SetSite
<1>2. /\ work[h].root \in Roots /\ task[h].domain \in Domains \cup {NoDomain}
      /\ task[h].op \in SiteOps => task[h].domain \in Domains
  BY <1>1, SettingWorks DEF SetupInv, TypeOK, Task, LocalInv, DomainFits
<1>3. TypeOK'
  BY <1>1, <1>2, ThenTyped
  DEF FillSite, Doing, SetSite, SiteOps, SetupInv, TypeOK, hostVars, HostTypeOK, Content
<1>4. OnlyMoves(h)
  BY <1>1, ThenMoves DEF FillSite, Doing, SetSite, OnlyMoves, hostVars, SetupInv, TypeOK
<1>5. DomainFits(h)'
  BY <1>1, <1>2, ThenMoves
  DEF FillSite, Doing, SetSite, LocalInv, DomainFits, Setting, SiteOps, SetupSteps,
      DeploySteps, hostVars
<1>6. SiteKnown(h)'
  BY <1>1, <1>2, ThenMoves
  DEF FillSite, Doing, SetSite, LocalInv, SiteKnown, Setting, At, SiteOps, SetupSteps,
      hostVars, SetupInv, TypeOK
<1>7. SitesSound(h)' /\ ServedEnabled(h)'
  BY <1>1, <1>2, ThenMoves
  DEF FillSite, Doing, SetSite, LocalInv, SitesSound, Sound, InProgress, SiteOps,
      ServedEnabled, Setting, hostVars, SetupInv, TypeOK
<1>. QED BY <1>3, <1>4, <1>5, <1>6, <1>7 DEF Kept, LocalInv

(* What is configured is served: this job's domain among the rest.         *)
LEMMA ReloadKeeps ==
  ASSUME SetupInv, NEW h \in Hosts, Reload(h)
  PROVE  Kept(h)
<1>1. LocalInv(h) /\ task \in [Hosts -> Task] /\ Setting(h)
  BY DEF SetupInv, TypeOK, Reload, Doing, Configured
<1>2. /\ work[h].root \in Roots /\ task[h].domain \in Domains \cup {NoDomain}
      /\ task[h].op \in SiteOps => task[h].domain \in Domains
  BY <1>1, SettingWorks DEF SetupInv, TypeOK, Task, LocalInv, DomainFits
<1>3. TypeOK'
  BY <1>1, <1>2, ThenTyped
  DEF Reload, Doing, Configured, SiteOps, SetupInv, TypeOK, hostVars, HostTypeOK, Content
<1>4. OnlyMoves(h)
  BY <1>1, ThenMoves DEF Reload, Doing, Configured, OnlyMoves, hostVars, SetupInv, TypeOK
<1>5. DomainFits(h)'
  BY <1>1, <1>2, ThenMoves
  DEF Reload, Doing, Configured, LocalInv, DomainFits, Setting, SiteOps, SetupSteps,
      DeploySteps, hostVars
<1>6. SiteKnown(h)'
  BY <1>1, <1>2, ThenMoves
  DEF Reload, Doing, Configured, LocalInv, SiteKnown, Setting, At, SiteOps, SetupSteps,
      hostVars, SetupInv, TypeOK
<1>7. SitesSound(h)' /\ ServedEnabled(h)'
  BY <1>1, <1>2, ThenMoves
  DEF Reload, Doing, Configured, LocalInv, SitesSound, Sound, InProgress, SiteOps,
      ServedEnabled, Setting, hostVars, SetupInv, TypeOK
<1>. QED BY <1>3, <1>4, <1>5, <1>6, <1>7 DEF Kept, LocalInv

-----------------------------------------------------------------------------
(* The operations at which the executor moves on as well.                  *)
(* The directories.                                                        *)
LEMMA DirsKeeps ==
  ASSUME SetupInv, HostInv', NEW h \in Hosts, Dirs(h)
  PROVE  Kept(h)
<1>1. /\ LocalInv(h) /\ task \in [Hosts -> Task] /\ spoilt \in [Hosts -> BOOLEAN]
      /\ work \in [Hosts -> Work \cup {NoWork}] /\ work[h] \in Work
      /\ Setting(h) /\ HostTypeOK'
  BY SettingWorks
     DEF SetupInv, TypeOK, HostTypeOK, HostInv, Dirs, MakeDirs, Doing, SetupSteps, Setting,
     At
<1>2. /\ work'[h].step \in SetupSteps
      /\ work'[h].root = work[h].root
      /\ \A g \in Hosts \ {h} : work'[g] = work[g]
  BY <1>1, GoToMoves DEF Dirs, MakeDirs, Doing, SetupSteps
<1>3. TypeOK'
  BY <1>1, ThenTyped DEF Dirs, MakeDirs, Doing, SetupInv, TypeOK
<1>4. OnlyMoves(h)
  BY <1>1, <1>2, ThenMoves DEF Dirs, MakeDirs, Doing, OnlyMoves, setupVars
<1>5. DomainFits(h)'
  BY <1>1, <1>2, ThenMoves
     DEF Dirs, MakeDirs, Doing, LocalInv, DomainFits, Setting, SiteOps, SetupSteps,
     DeploySteps, setupVars
<1>6. SiteKnown(h)'
  BY <1>1, <1>2, ThenMoves
     DEF Dirs, MakeDirs, Doing, LocalInv, SiteKnown, Setting, At, SetupSteps, setupVars
<1>7. SitesSound(h)' /\ ServedEnabled(h)'
  BY <1>1, <1>2, ThenMoves
     DEF Dirs, MakeDirs, Doing, LocalInv, SitesSound, Sound, InProgress, ServedEnabled,
     Setting, SetupSteps, setupVars
<1>. QED BY <1>3, <1>4, <1>5, <1>6, <1>7 DEF Kept, LocalInv

(* The symlink current, or the end of the job.                             *)
LEMMA LinkInitialKeeps ==
  ASSUME SetupInv, HostInv', NEW h \in Hosts, LinkInitial(h)
  PROVE  Kept(h)
<1>1. /\ LocalInv(h) /\ task \in [Hosts -> Task] /\ spoilt \in [Hosts -> BOOLEAN]
      /\ work \in [Hosts -> Work \cup {NoWork}] /\ work[h] \in Work
      /\ Setting(h) /\ HostTypeOK'
  BY SettingWorks
     DEF SetupInv, TypeOK, HostTypeOK, HostInv, LinkInitial, Ensure, Doing, SetupSteps,
     Setting, At
<1>2. /\ work'[h].step \in {"finish", "err"}
      /\ work'[h].root = work[h].root
      /\ \A g \in Hosts \ {h} : work'[g] = work[g]
  BY <1>1, GoToMoves DEF LinkInitial, Ensure, Doing, SetupSteps
<1>3. TypeOK'
  BY <1>1, ThenTyped DEF LinkInitial, Ensure, Doing, SetupInv, TypeOK
<1>4. OnlyMoves(h)
  BY <1>1, <1>2, ThenMoves DEF LinkInitial, Ensure, Doing, OnlyMoves, setupVars
<1>5. DomainFits(h)'
  BY <1>1, <1>2, ThenMoves
     DEF LinkInitial, Ensure, Doing, LocalInv, DomainFits, Setting, SiteOps, SetupSteps,
     DeploySteps, setupVars
<1>6. SiteKnown(h)'
  BY <1>1, <1>2, ThenMoves
     DEF LinkInitial, Ensure, Doing, LocalInv, SiteKnown, Setting, At, SetupSteps, setupVars
<1>7. SitesSound(h)' /\ ServedEnabled(h)'
  BY <1>1, <1>2, ThenMoves
     DEF LinkInitial, Ensure, Doing, LocalInv, SitesSound, Sound, InProgress, ServedEnabled,
     Setting, SetupSteps, setupVars
<1>. QED BY <1>3, <1>4, <1>5, <1>6, <1>7 DEF Kept, LocalInv

(* The job ends well.                                                      *)
LEMMA EndKeeps ==
  ASSUME SetupInv, HostInv', NEW h \in Hosts, End(h)
  PROVE  Kept(h)
<1>1. /\ LocalInv(h) /\ task \in [Hosts -> Task] /\ spoilt \in [Hosts -> BOOLEAN]
      /\ work \in [Hosts -> Work \cup {NoWork}] /\ work[h] \in Work
      /\ Setting(h) /\ HostTypeOK'
  BY SettingWorks
     DEF SetupInv, TypeOK, HostTypeOK, HostInv, End, Finish, Doing, SetupSteps, Setting, At
<1>2. /\ work'[h].step = "ok"
      /\ work'[h].root = work[h].root
      /\ \A g \in Hosts \ {h} : work'[g] = work[g]
  BY <1>1, GoToMoves DEF End, Finish, Doing, SetupSteps
<1>3. TypeOK'
  BY <1>1 DEF End, Finish, Doing, SetupInv, TypeOK, setupVars
<1>4. OnlyMoves(h)
  BY <1>1, <1>2 DEF End, Finish, Doing, OnlyMoves, setupVars
<1>5. DomainFits(h)'
  BY <1>1, <1>2
     DEF End, Finish, Doing, LocalInv, DomainFits, Setting, SiteOps, SetupSteps,
     DeploySteps, setupVars
<1>6. SiteKnown(h)'
  BY <1>1, <1>2
     DEF End, Finish, Doing, LocalInv, SiteKnown, Setting, At, SetupSteps, setupVars
<1>7. SitesSound(h)' /\ ServedEnabled(h)'
  BY <1>1, <1>2
     DEF End, Finish, Doing, LocalInv, SitesSound, Sound, InProgress, ServedEnabled,
     Setting, SetupSteps, setupVars
<1>. QED BY <1>3, <1>4, <1>5, <1>6, <1>7 DEF Kept, LocalInv

(* The job gives up.                                                       *)
LEMMA GiveUpKeeps ==
  ASSUME SetupInv, HostInv', NEW h \in Hosts, GiveUp(h)
  PROVE  Kept(h)
<1>1. /\ LocalInv(h) /\ task \in [Hosts -> Task] /\ spoilt \in [Hosts -> BOOLEAN]
      /\ work \in [Hosts -> Work \cup {NoWork}] /\ work[h] \in Work
      /\ Setting(h) /\ HostTypeOK'
  BY SettingWorks
     DEF SetupInv, TypeOK, HostTypeOK, HostInv, GiveUp, SetupFails, SetupSteps, Setting, At
<1>2. /\ work'[h].step = "err"
      /\ work'[h].root = work[h].root
      /\ \A g \in Hosts \ {h} : work'[g] = work[g]
  BY <1>1, GoToMoves DEF GiveUp, SetupFails, SetupSteps
<1>3. TypeOK'
  BY <1>1 DEF GiveUp, SetupFails, SetupInv, TypeOK
<1>4. OnlyMoves(h)
  BY <1>1, <1>2 DEF GiveUp, SetupFails, OnlyMoves, setupVars
<1>5. DomainFits(h)'
  BY <1>1, <1>2
     DEF GiveUp, SetupFails, LocalInv, DomainFits, Setting, SiteOps, SetupSteps,
     DeploySteps, setupVars
<1>6. SiteKnown(h)'
  BY <1>1, <1>2
     DEF GiveUp, SetupFails, LocalInv, SiteKnown, Setting, At, SetupSteps, setupVars
<1>7. SitesSound(h)' /\ ServedEnabled(h)'
  BY <1>1, <1>2
     DEF GiveUp, SetupFails, LocalInv, SitesSound, Sound, InProgress, ServedEnabled,
     Setting, SetupSteps, setupVars
<1>. QED BY <1>3, <1>4, <1>5, <1>6, <1>7 DEF Kept, LocalInv

(* What a file that breaks off can do: the site is touched only while it   *)
(* is being filled.                                                        *)
LEMMA BreakOffMoves ==
  ASSUME TypeOK, NEW h \in Hosts, BreakOff(h)
  PROVE  /\ index' \in [Roots -> Content]
         /\ recipe' \in [Hosts -> [Recipes -> Content]]
         /\ site' \in [Hosts -> [Domains -> [content : Content, root : Roots \cup {Absent}]]]
         /\ \A g \in Hosts \ {h} : site'[g] = site[g]
         /\ \A d \in Domains : site'[h][d] = site[h][d] \/ (Doing(h, "fillSite") /\ d = task[h].domain)
<1>1. index' \in [Roots -> Content]
  BY DEF BreakOff, TypeOK, Content
<1>2. recipe' \in [Hosts -> [Recipes -> Content]]
  <2>1. recipe \in [Hosts -> [Recipes -> Content]]
    BY DEF TypeOK
  <2>2. CASE UNCHANGED recipe
    BY <2>1, <2>2
  <2>3. CASE recipe' = [recipe EXCEPT ![h][task[h].recipe] = "part"]
    BY <2>1, <2>3 DEF Content
  <2>. QED BY <2>2, <2>3 DEF BreakOff
<1>. DEFINE Sites == [Domains -> [content : Content, root : Roots \cup {Absent}]]
<1>3. site \in [Hosts -> Sites]
  BY DEF TypeOK
<1>4. CASE UNCHANGED site
  BY <1>1, <1>2, <1>3, <1>4
<1>5. CASE Doing(h, "fillSite") /\ SetSite(h, "part", Absent)
  <2>1. site' \in [Hosts -> Sites]
    BY <1>3, <1>5 DEF SetSite, Content
  <2>2. \A g \in Hosts \ {h} : site'[g] = site[g]
    BY <1>3, <1>5 DEF SetSite
  <2>3. \A d \in Domains : d # task[h].domain => site'[h][d] = site[h][d]
    BY <1>3, <1>5 DEF SetSite
  <2>. QED BY <1>1, <1>2, <1>5, <2>1, <2>2, <2>3
<1>. QED BY <1>4, <1>5 DEF BreakOff

(* An error of any call.                                                   *)
LEMMA FailsKeeps ==
  ASSUME SetupInv, HostInv', NEW h \in Hosts, Fails(h)
  PROVE  Kept(h)
<1>1. /\ LocalInv(h) /\ task \in [Hosts -> Task] /\ spoilt \in [Hosts -> BOOLEAN]
      /\ work \in [Hosts -> Work \cup {NoWork}] /\ work[h] \in Work
      /\ Setting(h) /\ HostTypeOK'
  BY SettingWorks
  DEF SetupInv, TypeOK, HostTypeOK, HostInv, Fails, BreakOff, SetSite, Doing, SetupFails,
      SetupSteps, Setting, At
<1>2. /\ work'[h].step = "err"
      /\ work'[h].root = work[h].root
      /\ \A g \in Hosts \ {h} : work'[g] = work[g]
  BY <1>1, GoToMoves DEF Fails, BreakOff, SetSite, Doing, SetupFails, SetupSteps
<1>3. TypeOK'
  BY <1>1, BreakOffMoves DEF Fails, SetupInv, TypeOK
<1>4. OnlyMoves(h)
  BY <1>1, <1>2, BreakOffMoves DEF Fails, OnlyMoves, SetupInv, TypeOK
<1>5. DomainFits(h)'
  BY <1>1, <1>2
     DEF Fails, BreakOff, SetSite, Doing, SetupFails, LocalInv, DomainFits, Setting,
     SiteOps, SetupSteps, DeploySteps, setupVars
<1>6. SiteKnown(h)'
  BY <1>1, <1>2
     DEF Fails, BreakOff, SetSite, Doing, SetupFails, LocalInv, SiteKnown, Setting, At,
     SetupSteps, setupVars
<1>7. SitesSound(h)' /\ ServedEnabled(h)'
  BY <1>1, <1>2
     DEF Fails, BreakOff, SetSite, Doing, SetupFails, LocalInv, SitesSound, Sound,
     InProgress, ServedEnabled,
     Setting, SetupSteps, setupVars
<1>. QED BY <1>3, <1>4, <1>5, <1>6, <1>7 DEF Kept, LocalInv

(* The site is enabled, unless something else holds its name.              *)
EnableSite(h) ==
  LET d == task[h].domain IN
    /\ Doing(h, "enable")
    /\ enabled[h][d] # "foreign" /\ Then(h, "test")
    /\ enabled' = [enabled EXCEPT ![h][d] = "ours"]
    /\ UNCHANGED <<hostVars, index, recipe, site, served, spoilt>>

(* Either way the invariant is kept.                                       *)
LEMMA EnableKeeps ==
  ASSUME SetupInv, HostInv', NEW h \in Hosts, Enable(h)
  PROVE  Kept(h)
<1>1. CASE GiveUp(h)
  BY <1>1, GiveUpKeeps
<1>2. CASE EnableSite(h)
  <2>1. LocalInv(h) /\ task \in [Hosts -> Task] /\ Setting(h) /\ HostTypeOK'
    BY DEF SetupInv, TypeOK, HostInv, Enable, Doing
  <2>2. work[h].root \in Roots /\ task[h].domain \in Domains
    BY <1>2, <2>1, SettingWorks
       DEF EnableSite, Doing, SetupInv, TypeOK, LocalInv, DomainFits, SiteOps
  <2>3. TypeOK'
    BY <1>2, <2>1, <2>2, ThenTyped DEF EnableSite, SetupInv, TypeOK
  <2>4. OnlyMoves(h)
    BY <1>2, <2>1, ThenMoves DEF EnableSite, OnlyMoves, hostVars, SetupInv, TypeOK
  <2>5. DomainFits(h)'
    BY <1>2, <2>1, <2>2, ThenMoves
       DEF EnableSite, LocalInv, DomainFits, Setting, SetupSteps, DeploySteps, hostVars
  <2>6. SiteKnown(h)'
    BY <1>2, <2>1, <2>2, ThenMoves
    DEF EnableSite, Doing, LocalInv, SiteKnown, Setting, At, SetupSteps, hostVars,
        SetupInv, TypeOK
  <2>7. SitesSound(h)' /\ ServedEnabled(h)'
    BY <1>2, <2>1, <2>2, ThenMoves
    DEF EnableSite, Doing, LocalInv, SiteKnown, SitesSound, Sound, InProgress,
        ServedEnabled, Setting, hostVars,
        SetupInv, TypeOK
  <2>. QED BY <2>3, <2>4, <2>5, <2>6, <2>7 DEF Kept, LocalInv
<1>. QED BY <1>1, <1>2 DEF Enable, EnableSite

\* nginx accepts what is enabled.
TestPasses(h) ==
  /\ Doing(h, "test")
  /\ Loads(h) /\ Then(h, "reload")
  /\ UNCHANGED <<hostVars, index, recipe, site, enabled, served, spoilt>>

(* What passes the test is a site of this job's root that nginx accepts.   *)
LEMMA TestKeeps ==
  ASSUME SetupInv, HostInv', NEW h \in Hosts, Test(h)
  PROVE  Kept(h)
<1>1. CASE GiveUp(h)
  BY <1>1, GiveUpKeeps
<1>2. CASE TestPasses(h)
  <2>1. LocalInv(h) /\ task \in [Hosts -> Task] /\ Setting(h) /\ HostTypeOK'
    BY DEF SetupInv, TypeOK, HostInv, Test, Doing
  <2>2. work[h].root \in Roots /\ task[h].domain \in Domains
    BY <1>2, <2>1, SettingWorks
       DEF TestPasses, Loads, Doing, SetupInv, TypeOK, LocalInv, DomainFits, SiteOps
  <2>3. TypeOK'
    BY <1>2, <2>1, <2>2, ThenTyped DEF TestPasses, Loads, SetupInv, TypeOK
  <2>4. OnlyMoves(h)
    BY <1>2, <2>1, ThenMoves DEF TestPasses, Loads, OnlyMoves, hostVars, SetupInv, TypeOK
  <2>5. DomainFits(h)'
    BY <1>2, <2>1, <2>2, ThenMoves
       DEF TestPasses, Loads, LocalInv, DomainFits, Setting, SetupSteps, DeploySteps,
       hostVars
  <2>6. SiteKnown(h)'
    BY <1>2, <2>1, <2>2, ThenMoves
    DEF TestPasses, Loads, Doing, LocalInv, SiteKnown, Setting, At, SetupSteps, hostVars,
        SetupInv, TypeOK
  <2>7. SitesSound(h)' /\ ServedEnabled(h)'
    BY <1>2, <2>1, <2>2, ThenMoves, SetupAssumption
    DEF TestPasses, Loads, Doing, LocalInv, SiteKnown, SitesSound, Sound, InProgress,
        ServedEnabled, Setting, hostVars,
        SetupInv, TypeOK
  <2>. QED BY <2>3, <2>4, <2>5, <2>6, <2>7 DEF Kept, LocalInv
<1>. QED BY <1>1, <1>2 DEF Test, TestPasses, Loads

-----------------------------------------------------------------------------
(* Jobs begin and end; other jobs; deaths and boots.                       *)

(* A job is taken up, with a domain only if it is a setup.                 *)
LEMMA ReceiveKeeps ==
  ASSUME SetupInv, HostInv', NEW h \in Hosts, Receive(h)
  PROVE  Kept(h)
<1>1. PICK j \in JobIds, r \in Roots, action \in {"deploy", "setup_app", "rollback"},
           p \in Recipes, d \in Domains \cup {NoDomain} :
        /\ work[h] = NoWork
        /\ execs[j] = 0
        /\ RootHost[r] = h
        /\ action # "setup_app" => d = NoDomain
        /\ Begin(h, j, r, action)
        /\ task' = [task EXCEPT ![h] = [op |-> IF action = "setup_app" THEN "dirs" ELSE "none",
                                        recipe |-> p, domain |-> d]]
        /\ UNCHANGED <<index, recipe, site, enabled, served, spoilt>>
  BY Zenon DEF Receive
<1>2. /\ LocalInv(h) /\ task \in [Hosts -> Task] /\ work \in [Hosts -> Work \cup {NoWork}]
      /\ HostTypeOK'
  BY DEF SetupInv, TypeOK, HostTypeOK, HostInv
<1>3. /\ work'[h].step = FirstStep(action)
      /\ \A g \in Hosts \ {h} : work'[g] = work[g]
  BY <1>1, <1>2 DEF Begin
<1>4. /\ task'[h] = [op |-> IF action = "setup_app" THEN "dirs" ELSE "none",
                     recipe |-> p, domain |-> d]
      /\ \A g \in Hosts \ {h} : task'[g] = task[g]
  BY <1>1, <1>2
<1>5. TypeOK'
  BY <1>1, <1>2, <1>4 DEF SetupInv, TypeOK, Task
<1>6. OnlyMoves(h)
  BY <1>1, <1>3, <1>4 DEF OnlyMoves
<1>7. DomainFits(h)' /\ SiteKnown(h)'
  BY <1>1, <1>3, <1>4
     DEF DomainFits, SiteKnown, FirstStep, Setting, At, SiteOps, SetupSteps, DeploySteps
<1>8. SitesSound(h)' /\ ServedEnabled(h)'
  <2>1. \A x \in Domains : ~InProgress(h, x)
    BY DEF Receive, InProgress, Setting, NoWork, SetupSteps
  <2>. QED BY <1>1, <1>2, <2>1 DEF LocalInv, SitesSound, Sound, ServedEnabled
<1>. QED BY <1>5, <1>6, <1>7, <1>8 DEF Kept, LocalInv

(* A deploy has no domain, from its first step to its end.                 *)
LEMMA DeploysKeeps ==
  ASSUME SetupInv, HostInv', NEW h \in Hosts, Deploys(h)
  PROVE  Kept(h)
<1>1. /\ LocalInv(h) /\ work \in [Hosts -> Work \cup {NoWork}] /\ HostTypeOK'
      /\ work[h].step \in DeploySteps
  BY
     DEF SetupInv, TypeOK, HostTypeOK, HostInv, Deploys, Clone, Checkout, Publish, Link,
     Swap,
     DeployFails, At, DeploySteps
<1>2. work[h] \in Work /\ task[h].domain = NoDomain /\ ~Setting(h)
  BY <1>1 DEF NoWork, DeploySteps, SetupSteps, Setting, LocalInv, DomainFits
<1>3. PICK s \in DeploySteps \cup Done : GoTo(h, s)
  BY DEF Deploys, Clone, Checkout, Publish, Link, Swap, DeployFails, DeploySteps, Done
<1>4. work'[h].step \in DeploySteps \cup Done /\ \A g \in Hosts \ {h} : work'[g] = work[g]
  BY <1>1, <1>2, <1>3, GoToMoves
<1>5. ~Setting(h)'
  BY <1>4 DEF Setting, DeploySteps, SetupSteps, Done
<1>6. UNCHANGED setupVars
  BY DEF Deploys
<1>7. TypeOK' /\ OnlyMoves(h)
  BY <1>1, <1>4, <1>6 DEF SetupInv, TypeOK, OnlyMoves, setupVars
<1>8. DomainFits(h)' /\ SiteKnown(h)'
  BY <1>2, <1>5, <1>6 DEF DomainFits, SiteKnown, setupVars
<1>9. SitesSound(h)' /\ ServedEnabled(h)'
  BY <1>1, <1>2, <1>5, <1>6
     DEF LocalInv, SitesSound, Sound, InProgress, ServedEnabled, setupVars
<1>. QED BY <1>7, <1>8, <1>9 DEF Kept, LocalInv

(* The host has nothing to do after a report.                              *)
LEMMA ReportedKeeps ==
  ASSUME SetupInv, HostInv', NEW h \in Hosts, Reported(h)
  PROVE  Kept(h)
<1>1. /\ LocalInv(h) /\ work \in [Hosts -> Work \cup {NoWork}] /\ HostTypeOK'
      /\ ~Setting(h)
  BY
     DEF SetupInv, TypeOK, HostTypeOK, HostInv, Reported, Finished, Setting, Done,
     SetupSteps
<1>2. work'[h] = NoWork /\ (\A g \in Hosts \ {h} : work'[g] = work[g]) /\ UNCHANGED setupVars
  BY <1>1 DEF Reported, Leave
<1>3. ~Setting(h)' /\ ~At(h, "ok")' /\ work'[h].step \notin DeploySteps
  BY <1>2 DEF Setting, At, NoWork, SetupSteps, DeploySteps
<1>4. TypeOK' /\ OnlyMoves(h)
  BY <1>1, <1>2 DEF SetupInv, TypeOK, OnlyMoves, setupVars
<1>5. LocalInv(h)'
  BY <1>1, <1>2, <1>3 DEF LocalInv, DomainFits, SiteKnown, SitesSound, Sound, InProgress,
     ServedEnabled, setupVars
<1>. QED BY <1>4, <1>5 DEF Kept

(* Nor when its agent died; a setup that died has spoilt it.               *)
LEMMA DiesKeeps ==
  ASSUME SetupInv, HostInv', NEW h \in Hosts, Dies(h)
  PROVE  Kept(h)
<1>1. /\ LocalInv(h) /\ work \in [Hosts -> Work \cup {NoWork}] /\ HostTypeOK'
      /\ spoilt \in [Hosts -> BOOLEAN] /\ TypeOK
  BY DEF SetupInv, TypeOK, HostTypeOK, HostInv
<1>2. /\ work'[h] = NoWork /\ (\A g \in Hosts \ {h} : work'[g] = work[g])
      /\ UNCHANGED <<task, enabled, served>>
      /\ spoilt' = [spoilt EXCEPT ![h] = @ \/ Setting(h)]
  BY <1>1 DEF Dies, Kill
<1>3. ~Setting(h)' /\ ~At(h, "ok")' /\ work'[h].step \notin DeploySteps
  BY <1>2 DEF Setting, At, NoWork, SetupSteps, DeploySteps
<1>4. BreakOff(h)
  BY DEF Dies
<1>5. spoilt' \in [Hosts -> BOOLEAN]
  BY <1>1, <1>2
<1>6. TypeOK'
  BY <1>1, <1>2, <1>4, <1>5, BreakOffMoves DEF TypeOK
<1>7. OnlyMoves(h)
  BY <1>1, <1>2, <1>4, BreakOffMoves DEF OnlyMoves
<1>8. DomainFits(h)' /\ SiteKnown(h)' /\ ServedEnabled(h)'
  BY <1>1, <1>2, <1>3 DEF LocalInv, DomainFits, SiteKnown, ServedEnabled
<1>9. SitesSound(h)'
  <2>1. SUFFICES ASSUME ~Setting(h), ~spoilt[h] PROVE SitesSound(h)'
    <3>1. spoilt'[h] <=> spoilt[h] \/ Setting(h)
      BY <1>1, <1>2
    <3>. QED BY <3>1 DEF SitesSound
  <2>2. \A d \in Domains : site'[h][d] = site[h][d]
    BY <1>1, <1>4, <2>1, BreakOffMoves DEF Doing
  <2>. QED BY <1>1, <1>2, <2>1, <2>2 DEF LocalInv, SitesSound, Sound, InProgress
<1>. QED BY <1>6, <1>7, <1>8, <1>9 DEF Kept, LocalInv

(* nginx comes up with the enabled sites, or not at all.                   *)
LEMMA BootKeeps ==
  ASSUME SetupInv, NEW h \in Hosts, Boot(h)
  PROVE  Kept(h)
<1>1. /\ LocalInv(h) /\ served \in [Hosts -> [Domains -> Roots \cup {Absent}]] /\ TypeOK
  BY DEF SetupInv, TypeOK
<1>2. ~Setting(h) /\ ~At(h, "ok")
  BY DEF Boot, Setting, At, NoWork, SetupSteps
<1>3. /\ served'[h] = IF Loads(h) THEN Configured(h) ELSE [d \in Domains |-> Absent]
      /\ \A g \in Hosts \ {h} : served'[g] = served[g]
      /\ UNCHANGED <<hostVars, task, index, recipe, site, enabled, spoilt>>
  BY <1>1 DEF Boot
<1>4. served' \in [Hosts -> [Domains -> Roots \cup {Absent}]]
  <2>1. Configured(h) \in [Domains -> Roots \cup {Absent}]
    BY <1>1 DEF Configured, TypeOK
  <2>. QED BY <1>1, <2>1 DEF Boot
<1>5. TypeOK' /\ OnlyMoves(h)
  BY <1>1, <1>3, <1>4 DEF TypeOK, HostTypeOK, OnlyMoves, hostVars
<1>6. DomainFits(h)' /\ SiteKnown(h)' /\ SitesSound(h)'
  BY <1>1, <1>2, <1>3 DEF LocalInv, DomainFits, SiteKnown, SitesSound, Sound, InProgress,
     Setting, At, hostVars
<1>7. ServedEnabled(h)'
  BY <1>3 DEF ServedEnabled, Configured
<1>. QED BY <1>5, <1>6, <1>7 DEF Kept, LocalInv

-----------------------------------------------------------------------------
(* The invariant.                                                          *)

(* No host has any site of ours yet.                                       *)
LEMMA SetupInvInit == Init => SetupInv
<1> SUFFICES ASSUME Init PROVE SetupInv
  OBVIOUS
<1>1. HostInv
  BY HostInvInit DEF Init
<1>2. TypeOK
  <2>1. task \in [Hosts -> Task] /\ HostTypeOK
    BY <1>1 DEF Init, HostInv
  <2>2. enabled \in [Hosts -> [Domains -> {"no", "ours", "foreign"}]]
    BY DEF Init
  <2>. QED BY <2>1, <2>2 DEF Init, TypeOK, Content
<1>3. ASSUME NEW h \in Hosts PROVE LocalInv(h)
  <2>1. ~Setting(h) /\ ~At(h, "ok") /\ work[h].step \notin DeploySteps
    BY DEF Init, HostInit, Setting, At, NoWork, SetupSteps, DeploySteps
  <2>2. \A d \in Domains : enabled[h][d] # "ours" /\ served[h][d] = Absent
    BY DEF Init
  <2>. QED BY <2>1, <2>2
              DEF LocalInv, DomainFits, SiteKnown, SitesSound, Sound, ServedEnabled
<1>. QED BY <1>1, <1>2, <1>3 DEF SetupInv

LEMMA SetupInvNext == SetupInv /\ [Next]_vars => SetupInv'
<1> SUFFICES ASSUME SetupInv, [Next]_vars PROVE SetupInv'
  OBVIOUS
<1>1. HostInv'
  BY NextIsHost, HostInvNext DEF SetupInv
<1>2. CASE UNCHANGED vars
  <2>1. TypeOK'
    BY <1>1, <1>2 DEF SetupInv, HostInv, TypeOK, vars, setupVars
  <2>2. ASSUME NEW h \in Hosts PROVE LocalInv(h)'
    BY <1>2 DEF SetupInv, LocalInv, DomainFits, SiteKnown, SitesSound, Sound, InProgress,
       ServedEnabled, Setting, At, vars, setupVars, hostVars
  <2>. QED BY <1>1, <2>1, <2>2 DEF SetupInv
<1>3. ASSUME NEW h \in Hosts,
             Receive(h) \/ Deploys(h) \/ SetsUp(h) \/ Reported(h) \/ Dies(h) \/ Boot(h)
      PROVE  SetupInv'
  <2>1. ASSUME SetsUp(h) PROVE Kept(h)
    BY <1>1, <2>1, DirsKeeps, IndexKeeps, FillIndexKeeps, LinkInitialKeeps, RecipeKeeps,
       FillRecipeKeeps, SiteKeeps, FillSiteKeeps, EnableKeeps, TestKeeps, ReloadKeeps,
       EndKeeps, FailsKeeps DEF SetsUp
  <2>2. Kept(h)
    BY <1>1, <1>3, <2>1, ReceiveKeeps, DeploysKeeps, ReportedKeeps, DiesKeeps, BootKeeps
  <2>. QED BY <1>1, <2>2, OneHostMoves DEF Kept
<1>. QED BY <1>2, <1>3 DEF Next

(* A setup whose site nginx took over has it on line, and no site on disk  *)
(* is one nginx would reject unless a setup failed there.                  *)
THEOREM SetupInvariant == Spec => []SetupInv
  BY SetupInvInit, SetupInvNext, PTL DEF Spec

(* The variables have their types.                                         *)
THEOREM SetupTypes == Spec => []TypeOK
<1>1. SetupInv => TypeOK
  BY DEF SetupInv
<1>. QED BY <1>1, SetupInvariant, PTL

(* A setup that ends well is served: SiteKnown follows the site through    *)
(* the file, the link in sites-enabled, the test and the reload.           *)
THEOREM SetupIsServed == Spec => []SuccessIsServed
<1>1. SetupInv => SuccessIsServed
  BY DEF SetupInv, LocalInv, SiteKnown, SuccessIsServed
<1>. QED BY <1>1, SetupInvariant, PTL

(* Only a host where a setup failed or died loses a domain: before that    *)
(* every enabled site is sound, so it loads, and it names a root.          *)
LEMMA ServedKept ==
  ASSUME SetupInv, [Next]_vars, NEW h \in Hosts, NEW d \in Domains,
         served[h][d] # Absent, served'[h][d] = Absent
  PROVE  spoilt[h]
<1> SUFFICES ASSUME ~spoilt[h] PROVE FALSE
  OBVIOUS
<1>1. LocalInv(h) /\ served \in [Hosts -> [Domains -> Roots \cup {Absent}]]
  BY DEF SetupInv, TypeOK
<1>2. enabled[h][d] = "ours"
  BY <1>1 DEF LocalInv, ServedEnabled
<1>3. PICK g \in Hosts : Reload(g) \/ Boot(g)
  BY
     DEF Next, vars, setupVars, Receive, Deploys, SetsUp, Reported, Dies, Dirs, Index,
     FillIndex,
     LinkInitial, Recipe, FillRecipe, Site, FillSite, Enable, Test, End, Fails, GiveUp
<1>4. g = h
  BY <1>1, <1>3 DEF Reload, Boot
<1>5. \A x \in Domains : Sound(h, x)
  BY <1>1, <1>3, <1>4
     DEF LocalInv, SitesSound, InProgress, Reload, Doing, Boot, Setting, NoWork, SetupSteps
<1>6. Loads(h)
  BY <1>5 DEF Sound, Loads
<1>7. served'[h] = Configured(h)
  BY <1>1, <1>3, <1>4, <1>6 DEF Reload, Boot
<1>. QED BY <1>2, <1>5, <1>7 DEF Configured, Sound

THEOREM SetupKeepsServed == Spec => ServedStays
<1>1. SetupInv /\ [Next]_vars =>
        [\A h \in Hosts, d \in Domains :
           served[h][d] # Absent /\ served'[h][d] = Absent => spoilt[h]]_vars
  BY ServedKept
<1>. QED BY <1>1, SetupInvariant, PTL DEF Spec, ServedStays

=============================================================================
