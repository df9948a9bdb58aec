----------------------------- MODULE StaticControl -----------------------------
(***************************************************************************)
(* The control package of a prepared host (completion_kata_preparation.py). *)
(* A collector observes what the preparation installed and the tools of    *)
(* the host, and publishes one candidate directory; a reviewer stages it   *)
(* as the reviewed control.  Every member is canonical bytes and names the *)
(* others by digest, so a member is modelled by the generation it was      *)
(* collected in: equal digests are equal generations.  The generation      *)
(* counts the upgrades of the host's tools, which nothing here prevents.   *)
(***************************************************************************)
EXTENDS ImmutablePreparation

VARIABLES
    host,    \* the generation of the host's tools
    col,     \* the collector: none, the generation it observed, its progress
    obs,     \* the candidate directory: none, part, whole
    cand     \* the generation the candidate describes

controlVars == <<host, col, obs, cand>>

NoCollector == [act |-> "none", gen |-> 0]

-----------------------------------------------------------------------------
(* Validation of what is installed. *)

\* A contract fixes the bytes of one tool and of its closure.
ContractMet(contract, gen) == contract = gen

\* The active configuration is the derivative of the base that is installed.
ConfigurationExact == disk["active"] = "whole" /\ BaseAt(disk)

-----------------------------------------------------------------------------
(* Collection. *)

\* The descriptor and the five records of its production agree.
CustodyExact == external = "custody"

\* The receipt lists the archives and their extracted entries.
ReceiptExact == disk["receipt"] = "whole" /\ disk["blob"] = "whole"

\* The configured files of the launch are all installed.
LaunchExact == disk["staged"] = "whole" /\ disk["kata"] = "whole"

Observable == ReceiptExact /\ CustodyExact /\ LaunchExact /\ ConfigurationExact

\* What is read of the tools and of the closure of each: stable bytes and
\* their ELF metadata.
ToolsObserved == host

Collect ==
    /\ col.act = "none" /\ control = "none" /\ Observable
    /\ col' = [act |-> "collected", gen |-> ToolsObserved]
    /\ UNCHANGED <<prepVars, host, obs, cand>>

\* The package that one observation builds.
BuildControl(gen) == [m \in Members |-> gen]

\* Never into a directory that is not new or not empty.
PublishStarts ==
    /\ col.act = "collected" /\ obs = "none"
    /\ obs' = "part" /\ col' = [col EXCEPT !.act = "publishing"]
    /\ UNCHANGED <<prepVars, host, cand>>

PublishEnds ==
    /\ col.act = "publishing"
    /\ obs' = "whole" /\ cand' = col.gen /\ col' = NoCollector
    /\ UNCHANGED <<prepVars, host>>

\* A failure takes the directory back; a death leaves it, and no later
\* publication is admitted.
CollectorStops ==
    /\ col.act # "none" /\ faults < MaxFaults
    /\ obs' \in IF col.act = "publishing" THEN {"none", "part"} ELSE {obs}
    /\ col' = NoCollector /\ faults' = faults + 1
    /\ UNCHANGED <<disk, prep, tar, control, package, external, ready, busy, mutable, host, cand>>

-----------------------------------------------------------------------------
(* Outside: the reviewer and the host. *)

\* The five further members join the descriptor.
StageCustody ==
    /\ external = "descriptor" /\ control = "none"
    /\ external' = "custody"
    /\ UNCHANGED <<disk, prep, tar, control, package, ready, busy, mutable, faults, controlVars>>

\* The candidate becomes the staged control; one of its members may be of
\* another generation.
StageControl ==
    /\ obs = "whole" /\ control = "none"
    /\ control' = "diagnostic"
    /\ \E m \in Members, g \in Generations : package' = [BuildControl(cand) EXCEPT ![m] = g]
    /\ UNCHANGED <<disk, prep, tar, external, ready, busy, mutable, faults, host, col, obs, cand>>

Upgrade ==
    /\ host < MaxUpgrades
    /\ host' = host + 1
    /\ UNCHANGED <<prepVars, col, obs, cand>>

ControlInit ==
    /\ host = 0 /\ col = NoCollector /\ obs = "none" /\ cand = 0
=============================================================================
