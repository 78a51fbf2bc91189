------------------------------- MODULE Fleet -------------------------------
(***************************************************************************)
(* What the rest of the project takes as given: the hosts, the apps and    *)
(* where they live.  An apps row names a host and a root_path and is never *)
(* updated or deleted (src/internal/store/sqlitestore has no such          *)
(* statement), so an app is bound to its root for good.  Nothing makes     *)
(* root_path unique: two apps may share a root.                            *)
(***************************************************************************)

CONSTANTS
  JobIds,   \* identifiers of deployment jobs
  Hosts,    \* registered machines, one agent each
  Roots,    \* root paths, each on one host
  Apps,     \* rows of the apps table
  RootHost, \* the host a root is on
  RootOf    \* apps.host_id with apps.root_path

ASSUME FleetAssumption ==
  /\ RootHost \in [Roots -> Hosts]
  /\ RootOf \in [Apps -> Roots]

\* apps.host_id
HostOf(app) == RootHost[RootOf[app]]

=============================================================================
