---------------------------- MODULE ProviderProcess ----------------------------
(***************************************************************************)
(* The process of a provider and the tree it is attached to                   *)
(* (provider_process_tree.rs).  The process runs from the moment it is spawned   *)
(* and is attached to its Job afterwards: what it starts before that is not in    *)
(* the Job ("early").                                                        *)
(***************************************************************************)
VARIABLES provider   \* the provider's process, what it started, and what it started early

ProviderProcesses == {"root", "child", "early"}

ProviderTypeOK == provider \in [ProviderProcesses -> {"none", "alive", "gone"}]

ProviderInit == provider = [p \in ProviderProcesses |-> "none"]

Attached == {"root", "child"}

Ends(ps) == provider' = [p \in ProviderProcesses |->
                           IF p \in ps /\ provider[p] = "alive" THEN "gone" ELSE provider[p]]

Spawn == provider' = [p \in ProviderProcesses |-> IF p = "root" THEN "alive" ELSE "none"]

\* terminate, and the drop of the tree, which closes the last handle of the Job.
TerminateTree == Ends(Attached)

ProviderForks(attached) ==
  /\ provider["root"] = "alive"
  /\ LET p == IF attached THEN "child" ELSE "early" IN
     /\ provider[p] = "none"
     /\ provider' = [provider EXCEPT ![p] = "alive"]

ProviderEnds(p) == provider[p] = "alive" /\ Ends({p})

\* Nobody can write to the pipes of the provider any more.
ProviderPipesClosed == \A p \in ProviderProcesses : provider[p] # "alive"
================================================================================
