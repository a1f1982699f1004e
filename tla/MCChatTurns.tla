----------------------------- MODULE MCChatTurns -----------------------------
(* Model-checking instance of ChatTurns.                                   *)
EXTENDS ChatTurns, TLC

CONSTANTS read, other, padded, write, danger

\* Two read-only calls, a write and a high-risk call; for the identical-call
\* cap, one read-only call also comes with padded arguments.
MCCalls == {read, other, write, danger}
MCPaddedCalls == {read, padded}
MCValidated == [c \in Calls |-> IF c = padded THEN read ELSE c]
MCRisk ==
  [c \in Calls |-> IF c = write THEN "internal_write"
                   ELSE IF c = danger THEN "high_risk" ELSE "read_only"]
=============================================================================
