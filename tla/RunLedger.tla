----------------------------- MODULE RunLedger -----------------------------
(***************************************************************************)
(* What a session promises about its runs, whatever its machinery of       *)
(* aborts, deadlines and cleanups does: a run is admitted while the gate   *)
(* is open, when every earlier run has ended and none of its work is left; *)
(* it ends at most once; the gate, once shut, stays shut.                  *)
(***************************************************************************)
EXTENDS Sequences

CONSTANT Runs

Endings == {"settled", "aborted", "error", "timeout"}

VARIABLES
    story,    \* per run: <<>>, then <<"admitted">>, then its ending
    working,  \* the runs whose work has not returned yet
    gate      \* may a run still be admitted?

ledgerVars == <<story, working, gate>>

LedgerInit ==
    /\ story = [r \in Runs |-> <<>>]
    /\ working = {}
    /\ gate = TRUE

Admit(r) ==
    /\ gate
    /\ working = {}
    /\ story[r] = <<>>
    /\ \A q \in Runs : story[q] # <<"admitted">>
    /\ story' = [story EXCEPT ![r] = <<"admitted">>]
    /\ working' = {r}
    /\ gate' = gate

\* Work returns and the gate shuts; neither is ever undone.
Wind ==
    /\ working' \subseteq working
    /\ gate' => gate

End(r) ==
    /\ story[r] = <<"admitted">>
    /\ \E k \in Endings : story' = [story EXCEPT ![r] = Append(@, k)]
    /\ Wind

Return == Wind /\ story' = story

LedgerNext == (\E r \in Runs : Admit(r) \/ End(r)) \/ Return

LedgerSpec == LedgerInit /\ [][LedgerNext]_ledgerVars

=============================================================================
