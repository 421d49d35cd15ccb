---------------------------- MODULE MC_ProviderTurn ----------------------------
(***************************************************************************)
(* One Room with two folders, two packages, a script and the git status.        *)
(* The script is refused to a turn that may only read; the directory that is      *)
(* always refused occurs in what HelperAgrees is evaluated for.                  *)
(***************************************************************************)
EXTENDS ProviderTurn

\* An unsafe Node that is passed over, and the Node with npm that is found
MCInstallRoots ==
  <<[git |-> "missing", node |-> "unsafe", npm |-> "missing"],
    [git |-> "safe", node |-> "safe", npm |-> "safe"]>>

MCOfferedCalls ==
  {[command |-> "NpmTest", target |-> "a"], [command |-> "GitStatus", target |-> "a"],
   [command |-> "PackageInstall", target |-> "a"], [command |-> "PackageInstall", target |-> "b"]}
================================================================================
