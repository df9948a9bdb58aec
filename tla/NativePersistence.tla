------------------------- MODULE NativePersistence -------------------------
(***************************************************************************)
(* The fence around the native session file                                *)
(* (installNativePersistence, src/src/pi/native-persistence.ts).           *)
(*                                                                         *)
(* Native code appends entries in memory and writes each one to the file;  *)
(* only commitAtRest() makes them durable, and only while no tracked       *)
(* native work is running.  The first thing that goes wrong poisons the    *)
(* fence for good: nothing is appended, tracked or published after it.     *)
(*                                                                         *)
(* A file is its number of entries: what a scan compares (identity, size,  *)
(* digests of the bytes and of the values) is whether the file holds every *)
(* entry in memory and nothing else.                                       *)
(***************************************************************************)
EXTENDS Naturals

CONSTANT MaxAppends   \* bound on the entries native code appends

ASSUME FenceAssumption == MaxAppends \in Nat

VARIABLES
    cause,       \* why the fence is poisoned: none, activity or io
    revision,    \* entries appended in memory (revision, expected)
    file,        \* entries written to the file
    synced,      \* entries an fsync has covered
    durable,     \* the frontier published last (durable.revision)
    candidate,   \* the frontier of the commit in progress
    committing,  \* is a commit in progress?
    tracked      \* tracked native operations not retired (active)

fenceVars == <<cause, revision, file, synced, durable, candidate, committing, tracked>>

FenceInit ==
    /\ cause = "none"
    /\ revision = 0 /\ file = 0 /\ synced = 0 /\ durable = 0 /\ candidate = 0
    /\ committing = FALSE
    /\ tracked = 0

Usable == cause = "none"

\* poison(): the first cause stays.
Poison(c) == cause' = IF Usable THEN c ELSE cause

\* track(): refused, and the fence poisoned, while a commit is in progress (so
\* is an append).
Track ==
    /\ Usable /\ ~committing
    /\ tracked' = tracked + 1
    /\ UNCHANGED <<cause, revision, file, synced, durable, candidate, committing>>

TrackDuringCommit ==
    /\ Usable /\ committing
    /\ Poison("activity")
    /\ UNCHANGED <<revision, file, synced, durable, candidate, committing, tracked>>

\* The finally of track(): tracked work retires when it really settles.
Retire ==
    /\ tracked > 0
    /\ tracked' = tracked - 1
    /\ UNCHANGED <<cause, revision, file, synced, durable, candidate, committing>>

\* _persist() under an append: the entry is counted, then written.
Persist ==
    /\ Usable /\ ~committing
    /\ revision < MaxAppends
    /\ revision' = revision + 1
    /\ file' = file + 1
    /\ UNCHANGED <<cause, synced, durable, candidate, committing, tracked>>

\* The native write fails after the entry was counted.
PersistFails ==
    /\ Usable /\ ~committing
    /\ revision < MaxAppends
    /\ revision' = revision + 1
    /\ Poison("io")
    /\ UNCHANGED <<file, synced, durable, candidate, committing, tracked>>

\* commitAtRest() up to the owner's acknowledgment: at rest, scan and fsync.
CommitBegins ==
    /\ Usable /\ ~committing
    /\ tracked = 0
    /\ file = revision
    /\ synced' = file
    /\ candidate' = revision
    /\ committing' = TRUE
    /\ UNCHANGED <<cause, revision, file, durable, tracked>>

\* Native work is running: the commit is refused and the fence poisoned.
CommitNotAtRest ==
    /\ Usable /\ ~committing
    /\ tracked > 0
    /\ Poison("activity")
    /\ UNCHANGED <<revision, file, synced, durable, candidate, committing, tracked>>

\* The scan or its fsync fails, or finds a file that is not the memory.
CommitScanFails ==
    /\ Usable /\ ~committing
    /\ tracked = 0
    /\ Poison("io")
    /\ UNCHANGED <<revision, file, synced, durable, candidate, committing, tracked>>

\* The acknowledgment returned and the second look agrees with the first:
\* publication of the frontier is last.
CommitPublishes ==
    /\ committing
    /\ Usable /\ tracked = 0 /\ revision = candidate
    /\ durable' = candidate
    /\ committing' = FALSE
    /\ UNCHANGED <<cause, revision, file, synced, candidate, tracked>>

\* The acknowledgment or the second look fails, or the fence was poisoned
\* meanwhile.
CommitFails ==
    /\ committing
    /\ Poison("io")
    /\ committing' = FALSE
    /\ UNCHANGED <<revision, file, synced, durable, candidate, tracked>>

FenceNext ==
    \/ Track \/ TrackDuringCommit \/ Retire
    \/ Persist \/ PersistFails
    \/ CommitBegins \/ CommitNotAtRest \/ CommitScanFails
    \/ CommitPublishes \/ CommitFails

FenceSpec == FenceInit /\ [][FenceNext]_fenceVars

FenceTypeOK ==
    /\ cause \in {"none", "activity", "io"}
    /\ revision \in 0..MaxAppends
    /\ file \in 0..MaxAppends /\ synced \in 0..MaxAppends
    /\ durable \in 0..MaxAppends /\ candidate \in 0..MaxAppends
    /\ committing \in BOOLEAN
    /\ tracked \in Nat

-----------------------------------------------------------------------------

\* A published frontier is on disk: durable entries were fsynced, fsynced ones
\* written, and an entry that is in memory but not in the file means the fence
\* is poisoned (durable = candidate is the last step of commitAtRest()).
DurableIsSynced ==
    /\ durable <= synced /\ synced <= file /\ file <= revision
    /\ file < revision => ~Usable
    /\ committing => durable <= candidate /\ candidate <= synced

\* Poison is final: once something went wrong, no later successful fsync moves
\* the published frontier, and the first cause is kept (poison(), and the
\* comment on publication in commitAtRest()).
PoisonIsFinal ==
    [][~Usable => cause' = cause /\ durable' = durable]_fenceVars

=============================================================================
