--------------------------- MODULE SideEffectLedger ---------------------------
(***************************************************************************)
(* side_effects.jsonl of the GP-D ledger: the identities under which a job *)
(* asked for external actions.  Every append runs                          *)
(* detect_duplicate_side_effect_identity over the rows in file order and   *)
(* stops at the first row that decides.                                    *)
(***************************************************************************)
EXTENDS Naturals, Sequences

CONSTANTS Ids,        \* side_effect_id
          Keys,       \* idempotency_key
          Requests,   \* request_digest
          MaxRows     \* bound on the file

ASSUME MaxRowsAssumption == MaxRows \in Nat

VARIABLE effects      \* rows of side_effects.jsonl, in file order

Rows == [id: Ids, key: Keys, request: Requests]

\* What one existing row says of a candidate (the body of the loop).
SameId(row, c) == row.id = c.id
Conflict(row, c) == row.key = c.key /\ row.request # c.request
Replay(row, c) == row.key = c.key /\ row.request = c.request

\* Mutant: only the last row is compared with the candidate.
DecidesLast(i, c) ==
  /\ i = Len(effects)
  /\ SameId(effects[i], c) \/ Conflict(effects[i], c) \/ Replay(effects[i], c)

\* Row i is the first at which the loop raises or returns.
Decides(i, c) ==
  /\ SameId(effects[i], c) \/ Conflict(effects[i], c) \/ Replay(effects[i], c)
  /\ \A j \in 1..(i - 1) : ~SameId(effects[j], c) /\ effects[j].key # c.key

\* The loop raises: the deciding row has the candidate's identity, or its key
\* with another request.
Refused(c) ==
  \E i \in 1..Len(effects) :
    Decides(i, c) /\ (SameId(effects[i], c) \/ Conflict(effects[i], c))

EffectsInit == effects = <<>>

\* append_side_effect: refused candidates raise, all others (a safe replay too,
\* whose return value the caller ignores) are appended.
AppendSideEffect(c) ==
  /\ Len(effects) < MaxRows
  /\ ~Refused(c)
  /\ effects' = Append(effects, c)

EffectsNext == \E c \in Rows : AppendSideEffect(c)

EffectsSpec == EffectsInit /\ [][EffectsNext]_effects

-----------------------------------------------------------------------------
(* Properties                                                              *)

\* The rows are records of the three fields, within the bound.
EffectsTypeOK == effects \in Seq(Rows) /\ Len(effects) <= MaxRows

\* An idempotency key stands for one request for the life of the job, although
\* the loop stops at the first row that decides and rows are never updated.
KeyBindsOneRequest ==
  \A i, j \in 1..Len(effects) :
    effects[i].key = effects[j].key => effects[i].request = effects[j].request
=============================================================================
