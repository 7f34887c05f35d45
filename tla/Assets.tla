------------------------------- MODULE Assets -------------------------------
(***************************************************************************)
(* The parts of the portal about managed hosts: the hosts with their logins  *)
(* and files, the tree of their groups, the application market that acts on  *)
(* them, and the sources of the market.  They run side by side and share no  *)
(* variable.                                                                 *)
(***************************************************************************)
EXTENDS Hosts, HostGroups, ApplicationMarket, MarketSources

AssetsSpec == HostsSpec /\ GroupsSpec /\ MarketSpec /\ SourcesSpec
----------------------------------------------------------------------------
(* What the parts promise together. *)

\* Hosts have the status, the login and the rows they were given; groups are shown, stand
\* where they were moved and are found by their paths; applications are as their tasks
\* say, and definitions as their sources had them.
AssetsHold ==
    /\ HostsTypeOK /\ GroupsTypeOK /\ MarketTypeOK /\ SourcesTypeOK
    /\ StatusAgrees /\ VerdictOfLogin /\ HostsRestored
    /\ GroupsShown /\ MovedAsAsked /\ PathsFindGroups
    /\ ConfirmedRuns /\ CancelHeeded /\ OutcomeTold /\ InstalledTrue
    /\ DefinitionsFollow
=============================================================================
