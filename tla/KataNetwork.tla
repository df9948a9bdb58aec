------------------------------ MODULE KataNetwork ------------------------------
(***************************************************************************)
(* The network of a Kata operation: the host-wide nft writer, the baseline *)
(* of the host, a namespace with a veth pair behind an nft table, and      *)
(* their removal in the reverse order.  A removal that fails half way      *)
(* poisons the operation; only an effect that was certainly issued is ever *)
(* resumed.                                                                *)
(***************************************************************************)
EXTENDS KataInputs

(***************************************************************************)
(* The nft writer: FREE, ACTIVE for one operation, RELEASING, FREE.  The   *)
(* state is durable; run.nft says that this process holds its lock.        *)
(***************************************************************************)
ReplaceState(h, state) == [h EXCEPT !.nft = state]   \* one atomic, synced rename
AcquireNft == /\ At("baselines") /\ ~run.nft
              /\ IF w.nft = "FREE"
                 THEN /\ w' = ReplaceState(w, "ACTIVE")
                      /\ run' = [run EXCEPT !.nft = TRUE] /\ UNCHANGED <<j, p, faults>>
                 ELSE Refuse
NftActive == run.nft /\ w.nft = "ACTIVE"

IncompleteBaseline == j.phase = "FS_SETTLED" /\ NetworkUntouched(j)
NetworkRecords == ~NetworkUntouched(j) \/ j.support
FreeIsTerminal == j.phase \in Released \cup {"NETWORK_ABSENT", "FIREWALL_ABSENT", "INPUT_REMOVED"}

\* reopen_cleanup: an ACTIVE writer is taken over, a FREE one is accepted only
\* where the journal says so, and a half-released one is preserved.
NftReopens == \/ w.nft = "ACTIVE"
              \/ w.nft = "FREE" /\ (~NetworkRecords \/ FreeIsTerminal \/ IncompleteBaseline)

\* settle_free gives the writer up in two durable writes, once the cleanup is
\* settled and any table this operation installed was certainly deleted.
SettleFreeLegal(target) ==
  /\ NftActive
  /\ IF target = "baseline" THEN IncompleteBaseline
     ELSE j.phase = CLEANUP_ENDS[target] /\ j.tip = "CLEANUP_SETTLED"
  /\ \/ "NFT_REMOVE_ATOMIC" \in {j.done[i] : i \in 1..Len(j.done)}
     \/ target \in {"baseline", "network"} /\ SetupCount(j) < 3

(***************************************************************************)
(* What the read-only listings say of the host, once their output is       *)
(* parsed and compared with the identities in the journal.  Output that    *)
(* does not parse raises, like any failure of the step.                    *)
(***************************************************************************)
NamespaceSeen  == w.ns
LinksSeen      == w.veth
AddressesSeen  == LinksSeen /\ NamespaceSeen
TableSeen      == w.table
RuntimeSeen    == AddressesSeen /\ w.roles   \* the VM's tap and its redirections
HostRestored   == ~NamespaceSeen /\ ~LinksSeen
RulesRestored  == HostRestored /\ ~TableSeen

(***************************************************************************)
(* Setup.                                                                  *)
(***************************************************************************)
\* The namespace's support directories are made and their identity taken.
OwnSupport == Touch([w EXCEPT !.support = TRUE])
CaptureBaselines ==
  \/ run.nft /\ ~j.support /\ ~w.support /\ Call("baselines", OBSERVE)
  \/ /\ run.at = "baselines" /\ Returned(OBSERVE, "ok") /\ ~w.support
     /\ OwnSupport
  \/ /\ Took("baselines", OBSERVE) /\ w.support /\ SupportLegal(j)
     /\ j' = Support(j) /\ UNCHANGED <<w, run, faults>>
  \/ /\ At("baselines") /\ j.support
     /\ \/ SnapshotLegal(j, "baseline") /\ Log(Snapshot(j, "baseline"))
        \/ /\ PhaseLegal(j, "BASELINES_CAPTURED", NoOwner)
           /\ Close(Phase(j, "BASELINES_CAPTURED", NoOwner), run)
CaptureFails == Raises("baselines", j, w)

\* _effect: intent, the mutation by descriptor or by one command, observation,
\* settlement.
Pending == j.pend.act
\* The identity of what an effect made, or its absence, is derived from fresh
\* listings and compared with the baseline and the earlier effects.
Derived(act) == CASE act = "IP_NETNS_ADD" -> NamespaceSeen
                  [] act = "IP_NETNS_REMOVE" -> ~NamespaceSeen
                  [] act = "NFT_INSTALL_OWNED" -> TableSeen
                  [] act = "NFT_REMOVE_ATOMIC" -> ~TableSeen
                  [] OTHER -> AddressesSeen
Mutated == (Pending \in NetworkIds => j.pend.ran) /\ Derived(Pending)
\* The announced command is performed at most once.
Perform(step, id) == Pending = id /\ ~j.pend.ran /\ Call(step, id)
ObserveEffect(step) ==
  /\ At(step) /\ Pending # "none"
  /\ \/ Mutated /\ EffectLegal(j, Pending, "observed") /\ Log(NetEffect(j, Pending, "observed"))
     \/ EffectLegal(j, Pending, "settled") /\ Log(NetEffect(j, Pending, "settled"))
SetupNetwork ==
  \/ /\ At("network") /\ NftActive /\ Pending = "none"
     /\ \/ /\ j.done # Setup
           /\ \E a \in SetupSet : EffectLegal(j, a, "intent") /\ Log(NetEffect(j, a, "intent"))
        \/ AddressesSeen /\ TableSeen /\ SnapshotLegal(j, "ready") /\ Log(Snapshot(j, "ready"))
        \/ /\ PhaseLegal(j, "NETWORK_READY", NoOwner)
           /\ Close(Phase(j, "NETWORK_READY", NoOwner), [run EXCEPT !.net = TRUE])
  \/ /\ At("network") /\ Pending = "IP_NETNS_ADD" /\ ~w.ns /\ Touch([w EXCEPT !.ns = TRUE])
  \/ \E id \in NetworkIds : Perform("network", id)
SetupFails == Raises("network", j, w)

(***************************************************************************)
(* Removal.                                                                *)
(***************************************************************************)
Withdrawn == [w EXCEPT !.ns = FALSE, !.veth = FALSE]

\* The namespace is moved aside, unmounted, its support dismantled, and the
\* baseline compared, under one announced cleanup: after the runtime left it, or
\* to reverse the prefix of a setup, which takes the table with it.
Aborting   == j.phase = "BASELINES_CAPTURED" /\ SetupCount(j) > 0
TableStays == /\ Aborting /\ SetupCount(j) >= 3
              /\ \A i \in 1..Len(j.done) : j.done[i] # "NFT_REMOVE_ATOMIC"

\* The named namespace is renamed into the quarantine, record by record.
QuarantineNetns == j.quar < 4 /\ QuarantineLegal(j, j.quar + 1) /\ Log(Quarantine(j))

\* The namespace is unmounted between the record that says so and the next.
DescriptorRemove ==
  \/ j.quar = 4 /\ QuarantineLegal(j, 5) /\ Log(Quarantine(j))
  \/ j.quar = 5 /\ w.ns /\ Touch(Withdrawn)
  \/ j.quar = 5 /\ ~w.ns /\ QuarantineLegal(j, 6) /\ Log(Quarantine(j))

\* The support is dismantled step by step, each step recorded when it is done.
Dismantled == [w EXCEPT !.support = j.detach + 1 < DetachedSteps]
CleanupDetachedOwned ==
  /\ j.quar = 6 /\ ~w.ns /\ j.detach < DetachedSteps /\ DetachLegal(j)
  /\ j' = Detach(j) /\ w' = Dismantled /\ UNCHANGED <<p, run, faults>>

RemoveFixedNetwork ==
  LET step == "removeNetwork" IN
  /\ NftActive /\ ((j.phase = "RUNTIME_ABSENT" /\ j.released) \/ Aborting)
  /\ \/ At(step) /\ CleanupIntentLegal(j, "network") /\ Log(CleanupIntent(j, "network"))
     \/ /\ At(step) /\ j.clean = "network" /\ Pending = "none"
        /\ \/ QuarantineNetns
           \/ /\ j.quar = 4 /\ EffectLegal(j, "IP_NETNS_REMOVE", "intent")
              /\ Log(NetEffect(j, "IP_NETNS_REMOVE", "intent"))
           \/ CleanupDetachedOwned
           \/ /\ j.detach = DetachedSteps /\ TableStays /\ EffectLegal(j, "NFT_REMOVE_ATOMIC", "intent")
              /\ Log(NetEffect(j, "NFT_REMOVE_ATOMIC", "intent"))
           \/ /\ j.detach = DetachedSteps /\ ~TableStays /\ HostRestored
              /\ SnapshotLegal(j, "network-absent") /\ Log(Snapshot(j, "network-absent"))
     \/ /\ At(step) /\ Pending = "IP_NETNS_REMOVE" /\ j.pend.at = "intent"
        /\ DescriptorRemove
     \/ Perform(step, "NFT_REMOVE_ATOMIC")
     \/ j.quar = 6 /\ ObserveEffect(step)
     \/ /\ At(step) /\ PhaseLegal(j, "NETWORK_ABSENT", NoOwner)
        /\ Log(Phase(j, "NETWORK_ABSENT", NoOwner))

\* An effect of the setup that was certainly issued is settled before it is
\* reversed; any other one poisons, and so does a cleanup without the writer.
Issued == (Pending \in NetworkIds /\ j.pend.ran) \/ j.pend.at = "observed"
ResumeEffect ==
  /\ At("removeNetwork") /\ j.phase = "BASELINES_CAPTURED"
  /\ IF NftActive /\ Pending \in SetupSet /\ Issued /\ j.clean = "network"
     THEN ObserveEffect("removeNetwork")
     ELSE /\ ~NftActive \/ (Pending \in SetupSet /\ ~Issued /\ j.clean = "network")
          /\ Close(Poisoned(j), [run EXCEPT !.errs = TRUE])
SettleNetwork == /\ At("removeNetwork") /\ j.phase = "NETWORK_ABSENT" /\ j.own # NoOwner
                 /\ IF CleanupSettledLegal(j, "network")
                    THEN Close(CleanupSettled(j), run) ELSE Skip

\* A baseline that was never recorded is given up: the support whose identity
\* is journaled goes, the writer is freed, and the journal records that no
\* network was ever touched.
AbortIncompleteBaseline ==
  /\ At("removeNetwork") /\ IncompleteBaseline /\ j.cmd = NoCommand
  /\ IF run.mode = "recovery" /\ ~run.nft
     THEN IF j.snapfree THEN Skip
          ELSE IF SnapshotFreeLegal(j) THEN Close(SnapshotFree(j), run) ELSE Refuse
     ELSE IF w.nft = "FREE"
     THEN IF SnapshotFreeLegal(j) /\ run.nft THEN Close(SnapshotFree(j), [run EXCEPT !.nft = FALSE])
                                             ELSE Refuse
     ELSE IF w.nft = "RELEASING" THEN Touch(ReplaceState(w, "FREE"))
     ELSE IF w.support /\ ~j.support THEN Refuse
     ELSE IF w.support THEN Touch([w EXCEPT !.support = FALSE])
     ELSE IF SettleFreeLegal("baseline") THEN Touch(ReplaceState(w, "RELEASING")) ELSE Refuse

\* A baseline that was recorded but not settled is settled; a setup of no
\* effects only has its support to remove.
AbortZeroSetup ==
  /\ At("removeNetwork") /\ j.cmd = NoCommand
  /\ \/ /\ j.phase = "FS_SETTLED" /\ PhaseLegal(j, "BASELINES_CAPTURED", NoOwner)
        /\ Log(Phase(j, "BASELINES_CAPTURED", NoOwner))
     \/ /\ j.phase = "BASELINES_CAPTURED" /\ NftActive /\ SetupCount(j) = 0
        /\ \/ CleanupIntentLegal(j, "network") /\ Log(CleanupIntent(j, "network"))
           \/ j.clean = "network" /\ w.support /\ Pending = "none" /\ Touch([w EXCEPT !.support = FALSE])
           \/ /\ j.clean = "network" /\ ~w.support /\ HostRestored
              /\ SnapshotLegal(j, "network-absent") /\ Log(Snapshot(j, "network-absent"))
           \/ /\ j.clean = "network" /\ PhaseLegal(j, "NETWORK_ABSENT", NoOwner)
              /\ Log(Phase(j, "NETWORK_ABSENT", NoOwner))

\* A reversed setup gives up the writer together with the network.
FreeAborted ==
  /\ At("removeNetwork") /\ j.phase = "NETWORK_ABSENT" /\ j.own = NoOwner
  /\ \/ CleanupSettledLegal(j, "network") /\ Log(CleanupSettled(j))
     \/ SettleFreeLegal("network") /\ Touch(ReplaceState(w, "RELEASING"))
     \/ w.nft = "RELEASING" /\ Touch(ReplaceState(w, "FREE"))
     \/ w.nft = "FREE" /\ Know(Advance([run EXCEPT !.nft = FALSE]))

\* A cleanup-only operation has its ready network behind it, which the reversal
\* of a setup refuses: it is poisoned.
AbortReadySetup == /\ At("removeNetwork") /\ j.phase = "RUNTIME_CLEANUP_ONLY" /\ w.stage = "absent"
                   /\ Close(Poisoned(j), [run EXCEPT !.errs = TRUE])

NetworkWork == \/ j.phase = "RUNTIME_CLEANUP_ONLY" \/ j.phase = "FS_SETTLED"
               \/ j.phase \in {"BASELINES_CAPTURED", "RUNTIME_ABSENT"}
               \/ j.phase = "NETWORK_ABSENT" /\ (j.clean = "network" \/ j.own = NoOwner)
KeepNetwork == \/ At("removeNetwork") /\ ~NetworkWork /\ Skip
               \/ /\ At("removeNetwork") /\ j.phase = "RUNTIME_ABSENT"
                  /\ ~(j.released /\ NftActive)
                  /\ IF j.released THEN Close(Poisoned(j), [run EXCEPT !.errs = TRUE]) ELSE Refuse
\* With a command still pending no record is admitted any more.
NetworkPending == /\ At("removeNetwork") /\ NetworkWork /\ j.cmd # NoCommand /\ Refuse
RemoveNetworkFails ==
  /\ NetworkWork
  /\ Raises("removeNetwork", IF j.phase = "FS_SETTLED" /\ j.snaps = <<>> THEN j ELSE Poisoned(j), w)

\* The table goes last, by the one command that holds the writer's lock.
RemoveFixedFirewall ==
  LET step == "removeFirewall" IN
  /\ j.phase = "SHARE_ABSENT"
  /\ \/ At(step) /\ ~NftActive /\ Close(Poisoned(j), [run EXCEPT !.errs = TRUE])
     \/ /\ NftActive
        /\ \/ At(step) /\ CleanupIntentLegal(j, "firewall") /\ Log(CleanupIntent(j, "firewall"))
           \/ /\ At(step) /\ j.clean = "firewall" /\ Pending = "none"
              /\ \/ /\ EffectLegal(j, "NFT_REMOVE_ATOMIC", "intent")
                    /\ Log(NetEffect(j, "NFT_REMOVE_ATOMIC", "intent"))
                 \/ /\ ~EffectLegal(j, "NFT_REMOVE_ATOMIC", "intent") /\ RulesRestored
                    /\ SnapshotLegal(j, "firewall-restored") /\ Log(Snapshot(j, "firewall-restored"))
           \/ Perform(step, "NFT_REMOVE_ATOMIC")
           \/ ObserveEffect(step)
           \/ /\ At(step) /\ PhaseLegal(j, "FIREWALL_ABSENT", NoOwner)
              /\ Log(Phase(j, "FIREWALL_ABSENT", NoOwner))
FreeNft ==
  /\ At("removeFirewall") /\ j.phase = "FIREWALL_ABSENT"
  /\ \/ CleanupSettledLegal(j, "firewall") /\ Log(CleanupSettled(j))
     \/ run.nft /\ SettleFreeLegal("firewall") /\ Touch(ReplaceState(w, "RELEASING"))
     \/ run.nft /\ w.nft = "RELEASING" /\ Touch(ReplaceState(w, "FREE"))
     \/ run.nft /\ w.nft = "FREE" /\ Know([run EXCEPT !.nft = FALSE])
     \/ ~run.nft /\ j.clean = "none" /\ Skip
KeepFirewall == At("removeFirewall") /\ j.phase \notin {"SHARE_ABSENT", "FIREWALL_ABSENT"} /\ Skip
RemoveFirewallFails == /\ (j.phase \in {"SHARE_ABSENT", "FIREWALL_ABSENT"} /\ run.nft) \/ p.at = "done"
                       /\ Raises("removeFirewall", Poisoned(j), w)

NetworkNext == \/ AcquireNft \/ CaptureBaselines \/ CaptureFails \/ SetupNetwork
               \/ ObserveEffect("network") \/ SetupFails \/ RemoveFixedNetwork \/ SettleNetwork
               \/ ResumeEffect \/ AbortIncompleteBaseline \/ AbortZeroSetup \/ FreeAborted
               \/ AbortReadySetup
               \/ KeepNetwork \/ NetworkPending \/ RemoveNetworkFails
               \/ RemoveFixedFirewall \/ FreeNft \/ KeepFirewall \/ RemoveFirewallFails
==============================================================================
