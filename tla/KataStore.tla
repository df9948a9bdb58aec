------------------------------ MODULE KataStore ------------------------------
(***************************************************************************)
(* Where the journal of a Kata operation lives, and when it can be read.   *)
(* The state directory is made once, with a sentinel and a lock; the       *)
(* journal appears whole, grows by appends that a crash may tear, and goes *)
(* with one unlink.  Every read, and every append once it is durable,      *)
(* compares the names in the completion directory with the replayed phase: *)
(* a tree that is there too early or too late makes the journal unreadable *)
(* to every process.                                                       *)
(***************************************************************************)
EXTENDS KataProcess

JournalExists(s) == s.phase \notin {"NONE", "UNLINKED"}

(***************************************************************************)
(* The state directory.                                                    *)
(***************************************************************************)
\* _initialize, one durable step at a time; a torn sentinel is never repaired.
StoreAfter(h) == CASE h.store = "absent"   -> "bare"
                   [] h.store = "bare"     -> "torn"
                   [] h.store = "torn"     -> "sentinel"
                   [] h.store = "sentinel" -> "whole"
StoreReady == w.store = "whole"

(***************************************************************************)
(* The layout: which trees the phase demands and forbids.                  *)
(***************************************************************************)
\* The last input step says that the tree is absent.
InputStepAbsent(s) == /\ s.phase = "CONTAINERD_ABSENT" /\ s.tip = "INPUT_STEP"
                      /\ s.tree = "absent"
InputRequired(s) == /\ \/ s.phase \in {"FS_OBSERVED"} \cup {LIFECYCLE[i] : i \in 1..14}
                       \/ s.phase = "FS_SETTLED" /\ ~s.snapfree
                    /\ ~InputStepAbsent(s)
InputForbidden(s) == \/ s.phase \in {"FS_ABSENT", "INPUT_REMOVED"} \cup Released
                     \/ InputStepAbsent(s)

RUNTIME_ABSENT_PHASES == {"CONTAINERD_ABSENT", "INPUT_REMOVED"} \cup Released
KEY_INPUT_PHASES == {"ROOTFS_LEASED", "FS_INTENT", "UNCERTAIN"}

\* The read-only observers of the baseline may find no runtime tree at all.
SnapshotFreeRuntime(s) == /\ s.phase = "FS_SETTLED" /\ s.admitted /\ s.deadline
                          /\ ~s.prepared /\ s.staged = "none" /\ NetworkUntouched(s)

RuntimeLayout(s, present) ==
  CASE s.phase \in RUNTIME_ABSENT_PHASES -> ~present
    [] s.phase = "FIREWALL_ABSENT" ->
         \/ present = (s.staged = "staged")
         \/ s.staged = "staged" /\ s.tip = "DAEMON_OUTCOME_V2"
    [] s.staged = "staged" /\ s.phase \notin {"UNCERTAIN", "RUNTIME_CLEANUP_ONLY"} -> present
    [] s.staged = "intent" -> present
    [] ~present /\ SnapshotFreeRuntime(s) -> TRUE
    [] s.phase \notin {"SHARE_ABSENT", "RUNTIME_CLEANUP_ONLY"} \cup KEY_INPUT_PHASES ->
         present \/ s.prepared
    [] OTHER -> TRUE

\* A stage for keys belongs to an admitted operation that was granted one.
KeyLayout(s, present) ==
  present => s.phase \in KEY_INPUT_PHASES /\ s.admitted /\ s.grant # "none"

LayoutExact(s, h) ==
  JournalExists(s) =>
    /\ KeyLayout(s, h.keys) /\ RuntimeLayout(s, h.stage # "absent")
    /\ InputRequired(s) => h.inputs
    /\ InputForbidden(s) => ~h.inputs

\* What a reload needs: whole lines and the layout of their phase.
Readable == w.tail = "whole" /\ LayoutExact(j, w)

(***************************************************************************)
(* The probe of a recovery.  It classifies what it finds and makes nothing;*)
(* whatever it does not recognise is preserved.  It admits no key stage at *)
(* all, although the layout of a journal does.                             *)
(***************************************************************************)
Probe ==
  IF w.keys \/ w.store = "torn" THEN "preserve"
  ELSE IF JournalExists(j) THEN (IF Readable THEN "journal" ELSE "preserve")
  ELSE IF w.store = "whole" THEN "infrastructure" ELSE "infrastructure-partial"
==============================================================================
