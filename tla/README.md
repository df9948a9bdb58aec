# Cogs: TLA+ models, checks and proofs

Cogs has two halves. The *worker* (TypeScript, `src/src`) runs one Pi agent session;
every outbound request of its sandbox passes an Envoy process that asks the worker's
authorization server, which writes an *intent* to a fsynced audit log before it allows
anything. The *feasibility deployment* (Python, `src/deploy/aws-feasibility`) is the
machinery that proves, on hosts it rents and returns, that such a sandbox works: a
campaign rents hosts one cycle at a time, and on each host a coordinator prepares
inputs and a rootfs, launches a Kata VM behind a firewall, and takes everything
down again, under journals that let any later process finish what a dead one left.

The deployment is most of the code and has the hardest promises (nothing left
running, nothing removed that is not ours, nothing called certain that is not), and so
it is most of this project. Paths are relative to the directory that holds
`src/` (the repository) and `tla/` (this project); `DEPLOY/` is
`src/deploy/aws-feasibility/` and `REMOTE/` is `DEPLOY/remote/`.

## 1. Inventory

### Deployment

| component | state it keeps | operations | what makes it correct |
|---|---|---|---|
| campaign custody and AWS provider `DEPLOY/completion_campaign_{production,aws_adapter,aws_provider}.py` | journal, active file, grants, variables, claims, credentials; the cloud; commands in a cgroup | two segments and a diagnostic campaign; plan, apply, destroy, inventory; certification; recovery | what is live can be found and removed; a certified zero is true |
| campaign controller `DEPLOY/completion_campaign_{controller,state,contracts,evidence}.py` | chain of records, custody chain | normal attempt, failure, cleanup, recovery | no effect twice; no clear end while something runs; an approval ends |
| Kata journal `REMOTE/completion_kata_operation.py`, `..._network_journal.py` | one append-only file with sentinel and lock, replayed on every read | some sixty kinds of record, each with its legality and a layout check | the order of teardown; readable after a crash |
| Kata commands `REMOTE/completion_kata_process.py` | pending command, cgroup, gated child, retained daemon | run, retain, stop, recover | no child acts without a record that names it |
| Kata inputs `REMOTE/completion_kata_inputs.py` | key stage, input tree | make, retire, recover | keys never left behind |
| Kata network `REMOTE/completion_kata_network.py`, `..._nft_owner.py` | writer of the firewall, namespace, links, table, baselines | set up, observe, reverse, restore | the VM never without its fence; the host as it was |
| Kata runtime `REMOTE/completion_kata_runtime.py` | staged tree, daemon, container, task, VM processes, share | activate, launch, prove, observe, tear down | teardown only of what is observed as owned |
| Kata coordinator `REMOTE/completion_kata_coordinator.py` and bridges | errors collected so far, outcome | cycle, cleanup of nineteen steps, recovery | a receipt means everything; a recovery ends |
| rootfs ledger, builder `REMOTE/completion_rootfs_{ledger,builder,materializer,candidate}.py` | write-ahead ledger of every name of a tree | create with undo, link, metadata, remove, retire, recover | every name owned; removal finishes |
| rootfs lease `REMOTE/completion_rootfs_lease.py` | lease and authorization, beside the Kata journal | attach, release, prestage release, abandon | a leased tree stays; both ledgers agree |
| rootfs publication `REMOTE/completion_rootfs_publish.py` | snapshot file, candidate directory | link files, rename, take up | accepted means whole |
| trusted launcher and closure `REMOTE/completion_trusted_runtime_{launcher,closure}.py` | leases of processes, reports, private root, descriptors | launch, worker, helpers, leader and descendant, transfer, settle | nobody runs unowned; certain means restored; everybody ends |
| immutable preparation `REMOTE/completion_kata_immutable_preparation.py` | one transaction directory, prebuilt input, staged runtime, `/opt/kata` | acquire, extract, install, roll back, recover | what is installed can be proved; work keeps the inputs it claimed at rest |
| static control and admission `REMOTE/completion_kata_{preparation,admission,preparation_bridge}.py` | candidate and reviewed packages, held descriptors, claims, executable owner | collect, stage, claim, duplicate, retire | the tools handed on are of the one generation that was reviewed |

**Interactions.** The campaign's provider reaches a host through a remote entry that runs one
Kata cycle; of it the custody model keeps the command and its answer. A cycle claims
static control (admission), which needs the immutable preparation; takes a
rootfs lease, attaches it in its own journal and later authorizes the release in both;
runs its tools through the process module, whose children are named in the same
journal. Preparation and rootfs recovery ask whether an operation is active before
they remove anything, the preparation once and without a lock. The script that recovers a host
first lets the coordinator claim what is there and only then takes a preparation
back. The launcher prepares closures of the host's tools for these runs.

### Worker

| component | state it keeps | operations | what makes it correct |
|---|---|---|---|
| audit WAL `src/src/egress/audit-wal.ts` | file, `#current`, `#bytes`, `#ids`, promise chain `#next`, poisoned/closing/closed | open and recover, `append`, `close` | an acknowledged record is durable and never moves; the object agrees with its file; its own limits never make recovery refuse the file |
| ext-authz server `src/src/egress/ext-authz-server.ts` | `#ready`, `#closing`, `#active`, verifier | start, `check`, cancellation, `close` | write-ahead; bounded queue; close waits for handlers |
| completion queue `src/src/egress/completion-queue.ts` | baseline, `completed`, `retained`, counters, poisoned | `onCompletionLine`, `drain`, `close`, health | one completion per intent of this generation; exact accounting; Envoy's own lines never poison it |
| revocation watcher `src/src/egress/revocation-watcher.ts` | readiness, timer, pending reads and actions, memoized transition and close | create, poll, abort, actions, `close`, retirement | revocation carried through although anything hangs; real retirement |
| egress runtime manager `src/src/egress/runtime-manager.ts` | handles of all the above, the material scope, close owners, verdict | start, readiness, revocation actions, `close` | material and WAL outlive consumers; no circular wait; retirement reported only when true |
| launch lifecycle `src/src/launch/lifecycle.ts`, `close.ts` | `#state`, dependency states, start work, timers, shutdown owner, observers | `start`, `dependencyLost`, `turnSettled`, `requestShutdown`, `dispose` | no unfinished cleanup reported as a stop; release order; every shutdown decided |
| native persistence fence `src/src/pi/native-persistence.ts` | cause of poison, revision, durable frontier, tracked work, commit in progress | `track`, native appends, `commitAtRest`, `poison` | a published frontier is on disk; poison is final |
| Pi session `src/src/pi/session.ts` | phase, active run, turn deadline, queued inputs, memoized cleanup, disposal and shutdown preparation | prompt, steer, abort, navigate, shutdown preparation, disposal | one ending per run, durable before it is reported; nothing released under running work; a hung run still ends |
| Envoy process port, tmpfs writer, OpenBao sources, control API, SSH, history, Git map, auth, telemetry, policy | see `PROJECT.json` | | |

**Interactions.** The manager opens the WAL, builds the queue on it, starts the server on it,
then enters a lexical scope (PKI, credentials, configuration, tmpfs) in which watcher and
Envoy live. Envoy calls the server and writes lines the queue consumes. The watcher calls
back into the manager. The lifecycle starts and closes the manager as one of its
dependencies. The Pi session runs native agent code behind the persistence fence, which
calls it back when it is poisoned.

**What is hard.** In the deployment: a crash between any two durable writes, a second ledger
that must learn of it, children that outlive the process that started them, failures
collected while the cleanup goes on, and recoveries that refuse what they do not
recognise and may therefore refuse forever. In the worker: one event loop whose races are
between continuations: state checked before an `await` and used after it, deadlines on
observations whose work goes on, close owners shared by several parties.
`PROJECT.json` lists the hazards with their lines and the properties aimed at them.

## 2. Modules and how they correspond to the code

Each arrow is an `EXTENDS`; the module on the right adds a component or composes two.

```
CampaignController <- CampaignControllerProofs
CampaignCustody <- CampaignCustodyProofs
KataJournal <- KataProcess <- KataStore <- KataSteps <- KataInputs <- KataNetwork
            <- KataRuntime <- KataLifecycle <- MCKataLifecycle
RootfsLedger <- RootfsBuilder <- RootfsPublish <- RootfsLease <- MCRootfsLease,  RootfsProofs
LauncherProcess <- LauncherClosure <- LauncherTransfer <- TrustedLauncher <- LaunchProofs
ImmutablePreparation <- StaticControl <- StaticAdmission <- StaticAdmissionProofs
AuditWal <- ExtAuthzServer <- CompletionQueue <- EgressProofs
RevocationWatcher <- EgressRuntimeManager <- EgressManagerProofs
LaunchLifecycle <- MCLaunchLifecycle,  LaunchProofs
NativePersistence <- PiSession <- NativePersistenceProofs;  PiSession implements RunLedger
```

Two conventions hold in all deployment models. Data is reduced to whether it matches: a
digest, an identity or an encoding that differs makes the code raise, so the model has the
case "raises". And a *fault* is an exception at a step that can raise one, a *crash* is the end of
the process between two steps with memory lost and disk, children and cloud kept;
`MaxFaults` bounds both together.

* **CampaignController** has the record chain and its reduction (`Current`), the legality of
  every append, and the controller as program counter over its ports. A port may raise
  before or after its effect. The private custody chain is a variable of its own,
  changed before the record that reports it.
* **CampaignCustody** has the operator's process, the durable files of one root, the
  provider's commands (`cmds`: each in a cgroup, orphaned when the operator dies) and
  what they make `live` in the cloud. `Handler` is the adapter's except clause, `Drain` the
  kill of a command's cgroup. Every durable write of a command is a step of its own, and so is the
creation of a write-once file before its bytes (`partial`). The three kinds of root are the two segments and
  the diagnostic campaign. `clock` is the expiry of the authority.
* **KataJournal** keeps the replayed state `j` and gives for each kind of record when
  `_legal` admits it and what it changes. **KataStore** adds the file: sentinel, lock, bootstrap,
  torn appends, the layout check that every read makes of the host, and the unlink.
* **KataProcess** has one command (`p`) through intent, cgroup, gated fork, release, exit,
  deadline and settlement, and the recovery of a pending one; `Effect` is what the
  tool does to the host `w` and happens while the child runs, whoever watches it. An owned
  cleanup goes on from a pending signal; after another uncertain command it only stops the
  daemon.
* **KataSteps** holds the control shared by every step: the list of steps of a process,
  `Raised`, the collected errors, poisoning. **KataInputs**, **KataNetwork** and
  **KataRuntime** give the steps of their components, forward, back and by recovery.
  **KataLifecycle** is the coordinator: routes, outcome, rootfs release in two
  ledgers, crash and recovery.
* **RootfsLedger** keeps the fold of the ledger (`led`) and of the disk: every object has a
  generation that changes with each modification, which is how the code notices foreign changes.
  **RootfsBuilder** has the process: build, undo of a failed create, removal, retirement, recovery.
  **RootfsPublish** and **RootfsLease** add the publication and the lease, with the few
  phases of the Kata journal (`kata`) they look at.
* **LauncherProcess** has processes as the kernel sees them (live, zombie, gone; parent;
  death signal) and the coordinator's leases. **LauncherClosure** is the worker with its helpers and reports,
  **LauncherTransfer** the leader and its gated descendant, **TrustedLauncher** the launch as a
  whole. The script of a mode is its sequence of packets.
* **ImmutablePreparation** has the disk as a function from the names of the transaction to the state of
  their bytes, the process as the next change it makes, and the rollback as a list of classes.
  **StaticControl** adds collection and staging by generation of the host's tools,
  **StaticAdmission** descriptors, claims, the generation behind each duplicate and the
  executable owner. A preparation and an operation interleave freely; `exposed` is a history
  variable that remembers that one ran under the other. Recovery is the script's: the
  coordinator's recovery claim comes first when control is staged.
* **AuditWal.** The file is the sequence of complete lines with end offsets, the bytes
  of a torn last line, and how many lines are durable. `chain` is `#next`; an append is
  queued (`AppendCall`), then begins, is refused or aborted at the head,
  writes in pieces (`Write`, short writes included), fsyncs, re-verifies the size and
  commits. Any failure poisons. `close` seals and waits for the appends queued before
  it (`barrier`). `ProcessExit` and `MachineStop` end a lifetime; the latter keeps any
  prefix of what was not fsynced. `Open` is `recover()`.
* **ExtAuthzServer** composes the WAL with the server. A check replies in the same run
  of `#check()` (`CheckReplies`), or becomes active and appends (`CheckAdmitted`) and
  goes on in a later step (`CheckResumes`), when close, cancellation or poisoning may
  have come first. **CompletionQueue** adds Envoy's lines, honest or not, the queue, and the
  manager's closing order up to the final observation.
* **RevocationWatcher.** Reads and actions are *started*, *observed for a bounded time*
  and *settled*, three different things in the code. **EgressRuntimeManager** gives its
  actions their effects: `scope` walks through `runScoped()`/`withMaterial()`, `closeStep`
  through `closeOnce()`; `closeWaits` and `unwindWaits` are the handles each of them found. A
  failed removal of the material leaves `scope` uncertain, and whoever joins it waits.
* **LaunchLifecycle.** The start loop with start work that outlives an abandoned startup,
  `dependencyLost`, the timers, the single owner and the observers. A health
  check that fails ends in `dependencyLost()`, which is how it is modelled.
* **NativePersistence.** The native file is its number of entries: in memory, written,
  fsynced and published. A commit is two steps around the owner's acknowledgment.
* **PiSession** extends the fence with `PiSessionAdapter`. `pc` walks through
  `runPrompt()`, `cxStep` through `abortActive()` and `timeoutActive()`, `clean`
  through `failClosed()`, `disp` and `prep` through `dispose()` and `prepareShutdown()`.
  The continuations a settled promise starts run before the next timer, callback or
  request; `Drained` says that none is left, and every outside event waits for it.
  `LateInput` says whether callers go on after `dispose()`: the worker's API does not let
  them (`closeAdmission()` comes first), the adapter alone does not know.
* **RunLedger** is what the session promises in three variables: a run is admitted while
  the gate is open and no earlier work is left, it ends at most once, and the gate never
  opens again.

Faulty variants of single operations stand before the operations they vary. They are
not part of any specification; replacing the operation by its variant makes the run
named in `PROJECT.json` report the property violated, which shows that the property
depends on that piece of code.

## 3. Runs

| run | distinct states | properties |
|---|---|---|
| `custody` | 281,775 | `LiveIsRecoverable`, `CertainZero`, `ClaimsAreJournaled`, `CustodySettles` |
| `controller` | 9,449 | `ClearEndMeansZero`, `EffectsOnce`, `ChainFollowsRecords`, `ConsumedEnds` |
| `kata` | 613,525 | `RetiredIsClean`, `VmFenced`, `ReceiptMeansWhole`, `OrphansAreNamed`, `OperationSettles` |
| `rootfs` | 93,464 | `NamesAreOwned`, `LeaseIsKept`, `LedgersAgree`, `AcceptedIsWhole`, `RootfsSettles` |
| `launcher` | 600,593 | `GatedUntilOwned`, `CertainMeansRestored`, `IssuedOnce`, `EverythingEnds` |
| `static` | 447,503 | `InstalledIsProvable`, `WorkKeepsInputs`, `ToolsAreReviewed`, `DuplicatesAreOwned`, `PreparationSettles` |
| `audit_wal` | 14,390 | `WalSafe`, `WalSettles` |
| `egress_authorization` | 716,711 | `EgressSafe`, `ChecksAnswered` |
| `launch_lifecycle` | 54,696 | `LaunchSafe`, `ShutdownDecides` |
| `egress_runtime_manager` | 223,835 | `ManagerSafe`, `RevocationStopsEgress` |
| `pi_session` | 618,264 | `PiSafe`, `KeepsLedger`, `EveryRunEnds` |
| `rootfs_retirement` | finding | `RetirementFinishes` fails |

`custody` and `controller` also check their type invariants. `WalSafe`, `EgressSafe`, `LaunchSafe`,
`ManagerSafe` and `PiSafe` are conjunctions of the named invariants that stand before them.
Each property has a comment with its statement next to its definition. `ChecksAnswered`
says that every admitted check is answered and that a `close()` that began leaves all of `closing`,
`draining` and `failing`. `WorkKeepsInputs` is about an operation that no preparation ran under;
what happens to the other is in section 4.

**Bounds, and why they are enough.**
* `custody`: two segments that meet after cycle 1 of 2, so that the handover from one to the other,
  the last cycle and the diagnostic root all occur; two recovery attempts (the code
  has three), two faults or crashes. `controller`: two cycles, three faults: a fault in the
  attempt, one in its cleanup, one in a recovery.
* `kata`: all three routes (no work, full, readiness), two faults. Of the seven address and link
  effects that follow the namespace none is kept (`TailEffects`), as they undo together with it,
  and one of four key commands (`KeyCommands`). The longest behaviours still pass
  through every record kind but those.
* `rootfs`: one directory, one file, two aliases of it and one symbolic link: the least
  tree in which alias order, depth order and link counts all matter; two faults, torn
  appends; a publication of two files. `rootfs_retirement` needs one crash only.
* `launcher`: the modes runtime, lifecycle and sandbox (compression runs the script of the runtime
  mode), two tools, so that one helper follows another, two faults.
* `static`: two faults and one upgrade of the host's tools; one preparation process and one
  operation process at a time, in any interleaving.
* `audit_wal`: two appends, two ids, lines of one or two bytes, a file of three bytes
  and two records, three opens. A line of two bytes can be torn, two of them do not fit,
  an id can repeat, and a crash, a recovery and an append can each happen twice. The
  theorems of section 5 remove these bounds.
* `egress_authorization`: two requests over two lifetimes (so ids and baseline of an earlier
  generation exist), one retained completion (so one is dropped), lines of one byte: torn
  lines are the business of `audit_wal`.
* `launch_lifecycle`: two dependencies in reverse order plus an independent one is the
  least in which both ordering rules matter; two callers plus the internal ones race.
* `egress_runtime_manager`: the initial read and one poll, so that a late read overlaps
  what follows.
* `pi_session`: two prompts, so that something of the first could reach the second, and
  one native entry, so that a history can be ahead of its file, of its fsync and of
  what is published.

**Deadlock** is checked in `custody` and `kata`, where a recovery can always be started again,
and in `controller`, which rests explicitly when its approval has ended. The others may
really stop (a retired generation, an ended launch, used-up calls); `CloseNeverWedges` states
explicitly what must not.

**Fairness.** Only what the code's scheduling gives.
* `custody`: the running process goes on (`WF(Proceed)`), a command that runs ends
  (`WF(Provide)`, each has a deadline and a cgroup that is killed), and the operator starts
  recovery again and again (`SF(StartRecover)`): the entry is made to be repeated.
* `controller`: an invocation goes on or is followed by a recovery, infinitely often.
* `kata`: `WF(Next)`; faults are bounded, and recovery is started again as long as a journal exists.
* `rootfs`: a process goes on (`WF(Proceeds)`), a recovery is tried again (`WF(Retries)`).
* `launcher`: coordinator, closure worker, leader, child and kernel each go on; nothing of
  the order in which they do. `static`: recovery is tried again and, repeated, does not
  lose to a new claim every time (`SF(RecoverWins)`), a process makes progress, an extractor
  ends, an operation is served.
* Worker: file operations return or throw, continuations run, timers fire. *Nothing* of a dependency
  of the lifecycle, of a source read, of an action, of the close of server or Envoy (except
  that `envoyProcess.start()` settles: it has a startup timeout), of the native prompt and
  abort, or of callers.

**What a recovery may refuse.** `CustodySettles`, `OperationSettles`, `RootfsSettles` and
`PreparationSettles` say that recovery, repeated, finishes *or* stands at a situation the code
leaves to an operator. Those situations are enumerated in the models (`Wedged`, `Preserved`); the runs show
that there are no others:
* Campaign: expired authority; missing grant or variables; a reconcile intent or an invocation
  that a kill left half-written; a cache directory without its receipt; attempts used up; a reconcile
  intent that differs from the one written before; a foreign completion; a last row that
  is not among the permitted ones.
* Kata: `UNCERTAIN` when no signal or daemon stop is left to go on from; `FS_OBSERVED`; a firewall writer being released; `READINESS_REVOKED` with
  only a baseline snapshot; a retained daemon of a dead process, or one that was never started when the
  network is already absent; a writer already free at `SHARE_ABSENT` or
  `CONTAINERD_ABSENT`; `RUNTIME_CLEANUP_ONLY` after an uncertain outcome; a key stage that is still there; a torn sentinel. And
  a journal that does not read: its tail is torn; it names a stage at `NETWORK_READY` that a
  failed activation purged; it says the runtime is absent while the stage is still there (an
  operation released before staging); it needs inputs that are gone.
* Rootfs: a torn ledger; a half bootstrap; a recorded intent whose change may or may not be ours
  (entry present, parent changed, metadata); an observation whose change was lost; the retirement of section 4;
  a candidate directory made but not recorded.
* Preparation: with a staged control, everything the recovery claim refuses, which is
  anything but a whole preparation (a half-made or half-removed one, a host upgraded since the
  review, inputs lost under an operation); a staged runtime where the journal names one already
  retired; a configuration directory begun and not whole; an archive sealed but unlinked; a tree whose
  extraction mark is missing; a receipt with one of two trees; trees without receipt or reviewed
  control; a prebuilt input whose intent, sentinel or settlement is torn or missing. `PreparationSettles` further excepts work admitted again and
  again under a running preparation, which no lock prevents.

## 4. Findings

**An authorized retirement that is cut cannot be finished** (`rootfs_retirement`).
`_recover_locked` (`REMOTE/completion_rootfs_builder.py:1866-1873`) derives the cleanup's
origin from the phase alone, and takes `prelease` for a ledger cut in `operation-absent` or
`retired` after an authorization; `_reconcile_ledger` reports the authorized origin, and
`_open_cleanup_session` refuses the pair, in every later recovery.
`src/test/aws-stage2-completion-rootfs-ledger.py:790` says "Every namespace cut under the
distinct prestage origin remains restartable."

**Observations made while modelling**, which are not runs of their own. The models have these behaviours.

* *Kata.* A failed activation purges the staged runtime (`completion_kata_runtime.py:1628-1632`)
  that the journaled stage intent demands, after which no process can read the journal. A crash
  between the removal of the input tree and its record at `CONTAINERD_ABSENT`, or one that
  leaves the key stage, is preserved for good, although `continue_cleanup` could remove the latter. Removing the inputs in
  `READINESS_REVOKED` makes the layout check of the next record fail, and the poison too.
  A torn append is never repaired. An owned cleanup resumes a pending TERM or KILL
  (`completion_kata_runtime.py:2103-2122`); after another uncertain command it stops the daemon, but
  the record of the stop is refused in `UNCERTAIN`. A runtime command or listing that certainly failed makes
  every further runtime command illegal (`_runtime_trace`), so the phase is stuck.
  `RUNTIME_CLEANUP_ONLY` leads nowhere. An operation released before staging leaves the
  prepared runtime in place and, at `INPUT_REMOVED`, a journal that no layout check accepts. A command's child runs on after the coordinator's
  crash until a recovery kills its cgroup. ADR 0238 places the retirement
  of the inputs at `CONTAINERD_ABSENT`; the cleanup of `completion_kata_inputs.py:1640ff`
  also removes them in earlier phases.
* *Rootfs.* `recover-owned` between the authorization in the rootfs ledger and the
  record in the Kata journal removes the tree while Kata says `ROOTFS_RELEASE_READY`.
* *Launcher.* The coordinator does not plan the worker's `setsid`
  (`completion_trusted_runtime_launcher.py:3010-3020`), so stopping a live worker is always uncertain;
  the same for the outer lease of a released helper. The comment at 2717-2722 says
  that a cleanup between the owner's `setsid` and `confirm_setsid` (2724-2728) can still signal
  the owner; a held lease is compared with the recorded session (1288-1291) before the planned
  one is looked at (1307-1320), so that cleanup ends uncertain. A crash leaves
  `/tmp/cogs-o2-runtime-v1`, which makes later launches refuse.
* *Preparation.* An extractor survives its parent while recovery runs. Recovery asks once,
  without a lock, whether work is active; an operation that is admitted in between loses its inputs,
  and its own recovery is refused from then on. With a staged control the script
  (`REMOTE/recover-stage2-completion-remote.sh:31-42`) runs the coordinator's recovery first, which refuses a half-made
  preparation, so `recover_failed_preparation` is not reached after a kill during preparation
  or rollback. A tool rewritten in place keeps its descriptor; only the digest check before each command
  sees it. Without reviewed control any failure between
  extraction and receipt is preserved for good, and so is one that a host upgrade follows.
* *Campaign.* A crash between writing `cleanup-active.json` and the grant or variables leaves
  a recovery that always refuses. `_write_once` (`completion_campaign_aws_provider.py:126-140`) creates a file
  under its final name before it writes: a kill inside it leaves a reconcile intent or a destroy
  invocation that every later recovery refuses, with the resource live. A kill between
  `mkdir tf-data` (562) and `local-backend.json` (563) leaves a cache that `_local_backend` refuses; that
  can happen only before an apply, so nothing is live then. The permitted last rows omit `("batch", "diagnostic")`. A
  root certified as unconsumed in process cannot be recovered later. In the controller, a
  fault after publishing a settlement makes the handler publish it again and be refused;
  recovery finishes the campaign.
* *Worker.* Nothing outside the tests calls `turnSettled()`, so a worker whose recycle
  is due runs on to the emergency deadline, where `src/DESIGN.md:919` says "Drain at the next settled
  turn". When the startup deadline fires while `envoyProcess.start()` is pending, the queue is
  closed before that producer (`runtime-manager.ts:715`), which the check after the start then stops.
  A failed removal of the tmpfs material leaves its retirement pending
  (`tmpfs-material-writer.ts:113-133`), and `releaseScope` (`runtime-manager.ts:745-751`) awaits it: `close()` then never
  ends and the WAL stays open.
  An `abort()` in flight reopens a session that is being disposed (`session.ts:2551` against the comment at
  2216) for callers that do not stop, which the worker's do.

## 5. Proofs

Checked by TLAPS for every value of the constants under the named assumptions, which TLC
evaluates in the runs:

* `WalAssumption`, `MaxActiveAssumption`, `FenceAssumption`, `ControllerAssumption`,
  `CustodyAssumption`: limits,
  bounds and the number of cycles are natural numbers, positive where the code needs one, there is an id, and the
  first segment ends before the last cycle.
* `LifecycleAssumption`: the list of dependencies is not empty and names each once.
* `QueueAssumption`: limits again, and `MaxRecords <= MaxCompleted`. Both are 10,000 in
  the code (`audit-wal.ts:7`, `completion-queue.ts:153`); without it a full queue of
  honest lines would poison itself, so this relation is a fact that the code's
  safety rests on.
* `ReadsAssumption`, `MaxFaultsNat`, `MaxUpgradesNat`: the bounds on the watcher's reads and on faults and
  upgrades are natural numbers, the first positive.
* `ModesAssumption`, `FaultsAssumption`, `HelperToolsAssumption`: the operations are among the four the
  launcher knows, the bound on faults is a natural number, and there is a tool to map.
* `PlanAssumption`: the plan of a rootfs names every path once, a path has one kind, what a
  path is in is a planned directory or the root, and the file that is linked is a planned file, as
  the canonical order and `_plan_hardlink_groups` make it.
* `SessionAssumption`: runs, owners and `NoRun` are different things. The two theorems about
  the session carry the hypothesis `LateInput = FALSE`: callers stop at `dispose()`. The worker
  guarantees it (`closeAdmission()` comes first); with `LateInput = TRUE`
  both are false, which TLC shows.

**EgressProofs**, the log (type correctness, `Durability`, `Mirroring`, `Recovery`,
`DurablePrefixFixed`, and `WalIsSafe`, which is `WalSafe` as the run checks it). `AckedDurable` is not inductive: that an acknowledged line stays
where it is depends on what a poisoned or crashed object left in the file. The
invariant adds: `LogOK`, the file satisfies line by line what `recover()` checks (dense
sequence numbers, limits, distinct ids); `RunningOK`, a running append heads the chain
of an unpoisoned object and a close waits for it; `LineOK`, the line in flight has
passed the checks of `#append`; `AheadOK`, how far the file is ahead of the object at each
stage; `SyncedOK`, all of the file is durable when the size is verified. An append
extends a good log by a fitting line (`LogAppend`), a crash cuts it to a prefix
(`LogPrefix`), and a good log recovers (`GoodLogRecovers`).

**EgressProofs**, the server. `ServerUsesWal` shows that the composition implements `WalSpec`: the
initial states and every step, seen through the WAL's variables, are the WAL's. So the WAL's theorems carry over, and
`WriteAhead` needs only that a resolved append left a record of its own (`OkAcked`) and
that only such a check is allowed (`AllowAcked`). `ClosingKeepsCustody` follows from
`CustodyOK`: the verifier lives exactly as long as the server, checks are active only then, and
the WAL closes only after it.

**EgressProofs**, the queue (`EgressUsesServer`, and `EgressIsSafe`, which is `EgressSafe` as the run
checks it). The queue only reads the WAL's records, so the composition implements the server over
the WAL and all of the above holds of it. What the audit of a forwarded request adds
rests on facts that no component has alone. Below the queue: an append waits in the chain
once and is unfinished (`Chained`), it resolves once and no two share a position
(`AckedOnce`), and what waits belongs to an active, unanswered check (`Admitted`). In the
queue: it lives as long as the open log (`Lifetime`), the records past its baseline are acknowledged
ones and those of requests in flight are past it (`Generation`), drained, dropped and retained
add up to the set of completions (`Books`), each completion has its durable line (`Correlated`),
and an honest Envoy has not yet ended a request that is still in flight (`Once`).
`HonestNeverPoisons` then is a counting argument: completions are injective into the records
past the baseline, so honest lines cannot overrun a bound that the log itself respects.

**LaunchProofs**, the launch lifecycle (type correctness, `StopIsClean`, `ReadyIsWhole`,
`ReleasesInOrder`, `LossReported`, `EndIsFinal`, and `LaunchIsSafe`, which is `LaunchSafe` as the run checks it). The invariant says that the start loop
is sequential (`WorkOK`, `StarterOK`), that an owner exists exactly when shutdown has
begun and that only its own success yields `stopped` (`OwnerOK`), what readiness rests on
(`ReadyOK`), and that a release has begun only behind what it must wait for
(`ReleaseOK`). `WorkOK` is what rules out start work of an unattempted dependency after a
stop, and the last clause of `OwnerOK` is what makes `stopped` mean closed although any observer may
report it.

**NativePersistenceProofs**, the fence (`FenceIsDurable`, `FencePoisonIsFinal`,
`SessionUsesFence`, `SessionIsDurable`, `SessionPoisonIsFinal`). `DurableIsSynced` with the types is inductive: its clause on a file
behind its memory is what lets an append count both up together, its clause on a commit
in progress is what a publication relies on. `SessionUsesFence` goes through every action of
the session and finds a step of the fence or none, so both results hold of the session
with any set of runs.

**NativePersistenceProofs**, the session (`SessionIsSafe`, which is `PiSafe`, and
`SessionKeepsLedger`, the refinement of `RunLedger`, both as the run checks them; any set of
runs and any number of appends). No part of `PiSafe` is inductive, because four parties end a run:
the prompt, a cancellation, the cleanup after a failure, and disposal. The invariant says what
each of them can rely on. `CountInv`: native code runs at most one prompt, and the fence's
count is that prompt and a navigation. `CommitInv`: history stays at rest from the commit that said so to the
report. `EndInv`: what each way of ending has already settled, in particular that a fence
that cannot be used has a failed session or a cleanup under way. `CancelInv`: while a
cancellation is pending no other run became the active one. `QueueInv` and `HeldInv`: queued
input belongs to the active run, and resources are released only when nothing is counted.
`RunsInv`: a run without a terminal event has somebody who will answer for it. For the
refinement every action either leaves the ledger's three variables alone, ends one run
that had not ended, or admits one while the gate is open.

**CampaignControllerProofs** (`ControllerInvariant`; `ControllerTypes`, `EffectsAreOnce`,
`ClearEndIsZero`, `ChainIsLevel`; any number of cycles and faults). The state of the campaign is
recomputed from the records at every step (`Current`), so the first half of the module is about
sequences: a published sequence is a prefix of the happy path, then at most one failure, then
cleanup records (`Custody`), and what the reduction says of such a sequence follows
from its last record. Then the invariant ties the program counter to the chain: an
action follows its intent (`PointInv`); an effect was called at most once, after its intent, and
not yet when its turn comes (`CallsInv`), which is `EffectsOnce` made inductive; a
recorded zero that no apply has followed excludes an instance, and so does an
inventory about to be settled (`ZeroInv`); the custody chain is level with the records while the
attempt runs and at most one cycle ahead once it ended (`ChainInv`).

**CampaignCustodyProofs** (`CustodyInvariant`; `CustodyTypes`, `LiveStaysRecoverable`,
`ZeroIsCertain`, `ClaimsHaveRows`; any number of cycles, attempts and faults). The properties are
about what a crash leaves, so the invariant has to speak of a process that is gone. There is one
command at a time, and it may be a dead process's only at a few control points (`CommandInv`).
An approval that is not consumed excludes every file and command, and the entry that consumed it finds nothing
certified (`ConsumeInv`). While a cycle is under way `cleanup-active.json` names it, with the
state that its next cleanup will present (`ActiveInv`). What a command may find does not
depend on whether the process that started it is alive (`ServedInv`): its cycle is the active one,
an apply has its grant, its variables, its cache with the receipt and the credentials, and no cleanup was tried before an
effect ended. Files that are created before they are filled are compared with each other
(`RecordInv`): a half-written one is the first that is missing, never one a later step relied on. `LiveInv` says the same of what is live, `ZeroInv` who has seen that nothing is, and
`JournalInv` that a row comes before its command. Then a crash at any point preserves the
invariant because no clause about the account mentions the process, and a recovery because it
drains the cgroup first.

**RootfsProofs** (`RootfsInvariant`; `EveryNameIsOwned`, `TheLeaseIsKept`, `TheLedgersAgree`,
`WhatIsAcceptedIsWhole`; any plan, any number of faults). Three trees are compared: the disk,
what the last fsync left of it, and the tree the ledger owns. `TreeInv` says that they are the same
between two changes and differ in one name while a change is pending, case by case of
the pending operation and of who works on it. `LeaseInv` ties the ledger's phase to
the operation's journal (`KataInv`), to the authority recorded (`AuthInv`) and to what the
holder of the lock may find (`JobInv`); `WholeInv` is what a lease promises. `PlanInv` says how
much of the plan a building process has done, without which a lease could be taken of
half a tree. `PubInv` relates the candidate directory to the snapshot in place and the one about
to replace it.

**StaticAdmissionProofs** (`StaticTypes`; `InstalledStaysProvable`, `WorkKeepsItsInputs`,
`ToolsStayReviewed`, `DuplicatesStayOwned`; any number of faults and host upgrades). What is
installed must be provable after any sequence of crashes, rollbacks and extractors that outlived their
parent, so the invariant says what the disk holds at every point. `Inside`: a name is
there only with what it lies in. `WrittenBefore(pc)` and `RemovedBefore(pc)`: how far a
preparation and a rollback have come, step of the script by step. The script is one sequence joined
from its parts, and the first third of the module establishes what its 41 steps write.
`ExtractorInv`: an extractor, orphaned or not, writes below a tree that is there. `Provable`: a tree
that was moved in place has its receipt, an active generation its base. The custody
of an admitted process is the other half. It goes by one package: what it claimed and what it
duplicated are of the generation of the contracts it read, whatever has since been put in place
of the names (`CustodyInv`), and in each of its states it keeps open what it will need, a duplicate having
an owner that closes it (`DescriptorInv`). `InputInv` says what is still under the names: the two
processes are not kept apart, so its premise is that the operation was not `exposed`, and its content
is that the one question a recovery asks is enough for every operation that was active when it asked.

**EgressManagerProofs** (`ManagerUsesWatcher`; `ManagerIsSafe`, which is `ManagerSafe` as the run
checks it; any number of reads). The manager only creates the watcher, closes it and lets it go
on: `ManagerUsesWatcher` shows that the generation implements `WatcherSpec`, so the watcher is proved by
itself (`ReaderInv`, `ActionInv`, `RetirementInv`: what a close has waited for). Of it the
teardown needs that a retired watcher stays retired and that one that is up stays up until closed.
Three parties tear a generation down, each waiting for parts that another
may have closed first: the scope's catch block, `closeOnce()` and the exit of the scope.
`UnwindInv` and `CloseInv` say what each of the first two has begun to close and waits for, `ScopeInv` and
`StartInv` which consumers can live in which state of the scope, `LogInv` that the log closes last.
That nobody waits in a circle (`CloseNeverWedges`) follows because the waits are ordered:
`closeOnce()` waits for the scope, the scope for producers that somebody has begun to close, and the
watcher for no one but its own reads and actions. What each party can do next is
stated by its guards (`ScopeCanMove`, `CloseOnceCanMove`, `WatcherCanMove`), without ENABLED. The code
stops for good in two places, and `CloseNeverWedges` names them; of the second, material
that could not be removed, `UncertainIsKept` says that log and material are then never given up
and no close succeeds or reports a certain retirement.

**LaunchProofs**, the trusted launcher (`LaunchKeepsBooks`; `GatedIsOwned`, `CertaintyIsEarned`,
`IssuedReportIsCompared`; any set of operations, any number of faults and of tools). One
invariant, `LauncherInv`, carries all three. What the kernel does is separated from who does it:
`TreeInv` says who can be whose child, and `Wanes` that a step other than a birth or an opened gate
brings processes only closer to their end, which is proved once for deaths, orphans, signals and reaping.
A step of the coordinator then has to account for the leases it drops (`Releases`: what is no longer
leased is gone) and a step of another process for the packets it sends. `GatedUntilOwned` is about packets in
flight: `AskInv` and `HelperInv` follow a registration and a retirement through request, answer and
failure, `ChildInv` the acceptance `A` from the census to the gate, and `LeaderInv` where the leader is in
its script, which decides what it may still spawn or open. `CertainMeansRestored` needs that a cleanup that
recorded no failure has stopped everything: `CoverInv` says what the stop loop still has to do,
`RootInv` until when a private root is there, and `ProbeInv` in which window of the probe, which reads no
baseline after a failure, a descendant can exist unleased; there adoption finds it. `ReportInv` is the
way of the report from the comparison to the coordinator. The leases are lists, as in the code;
the first lemmas give what appending, removing the first occurrence and joining do to the set they name.

All invariants were model-checked before they were proved.

**Only model-checked:**

* the four invariants of the Kata operation (`RetiredIsClean`, `VmFenced`, `ReceiptMeansWhole`,
  `OrphansAreNamed`), whose step lists and journal rules (eight modules) make an inductive invariant
  of the size of the model itself;
* the refinement and the safety of the session when callers go on after `dispose()` (TLC
  finds that both fail);
* liveness in all components, which is outside the prover.

## 6. Not modelled

* *Deployment.* Receipts, encodings, plans and evidence files (values without state of
  their own; a receipt is valid or not); the contents of the imported continuation
  (`completion_campaign_production.py:1136-1274`); cycle evidence and qualification; the assigned host closure
  and the validation of cycle grants in the admission; path walks, extended attributes and
  canonical formats of the rootfs; ELF resolution; the parsers of `ip`, `nft`,
  `tc` and `ctr` output (kept as what they find); the candidate and development scripts.
* *Worker.* The inside of the Envoy process port (TERM and KILL), of the tmpfs writer and
  of the OpenBao sources, which the manager's model holds as parts that start, answer,
  fail or hang; the control API (idempotency and event replay), SSH connection, session history,
  Git map, authentication and telemetry, which would be the next modules; parsing and
  validation of configuration and policy; log and metric emission.
* *Boundaries of the composition.* Each model of the deployment is closed: the custody model keeps a remote cycle as
  one command, the Kata model keeps the rootfs as leased, released or absent, and the
  rootfs model keeps the phases of the Kata journal it reads. That these views agree is argued by the
  map (both sides cite the same lines of the bridge), not checked.
