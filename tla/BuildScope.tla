----------------------------- MODULE BuildScope -----------------------------
(***************************************************************************)
(* A frozen scope being written, frozen and asked about paths: the life of *)
(* a FrozenScope value of scripts/capability_build/scope.py.               *)
(***************************************************************************)
EXTENDS ScopeRules, FiniteSets

CONSTANTS
    Rules,          \* the rules a human may write into a scope
    Paths           \* the concrete paths a worker may name

\* They are relative paths of such characters.
ASSUME PathsAssumption == Rules \subseteq Seq(Seq(Characters)) /\ Paths \subseteq Seq(Seq(Characters))

VARIABLES
    draft,          \* the rules written so far
    scopeState,     \* "open", then "frozen", or "refused" after an invalid input
    answers         \* the paths found allowed so far, per operation

scopeVars == <<draft, scopeState, answers>>
Operations == {"create", "modify"}

NoScope == [new |-> {}, existing |-> {}, denied |-> {}, justified |-> {}]
NoAnswers == [op \in Operations |-> {}]
Frozen == scopeState = "frozen"
TheScope == Freeze(draft)

ScopeInit == draft = NoScope /\ scopeState = "open" /\ answers = NoAnswers

\* A human writes one rule of each kind into the draft, in any order.
WriteRule(field, rule) ==
    /\ scopeState = "open" /\ draft[field] = {}
    /\ draft' = [draft EXCEPT ![field] = {rule}]
    /\ UNCHANGED <<scopeState, answers>>

\* FrozenScope(...): with every allowed rule justified, or with one forgotten.
FreezeScope(justified) ==
    LET input == [draft EXCEPT !.justified = justified] IN
    /\ scopeState = "open"
    /\ scopeState' = IF ValidScope(input) THEN "frozen" ELSE "refused"
    /\ draft' = input
    /\ UNCHANGED answers

\* decision_for_create and decision_for_modify of every path.
AskPaths(op) ==
    /\ Frozen /\ answers[op] = {}
    /\ answers' = [answers EXCEPT ![op] = {p \in Paths : Decision(TheScope, p, op) = "allowed"}]
    /\ answers' # answers
    /\ UNCHANGED <<draft, scopeState>>

ScopeNext ==
    \/ \E field \in {"new", "existing", "denied"}, rule \in Rules : WriteRule(field, rule)
    \/ \E justified \in {{}, draft.new \cup draft.existing} : FreezeScope(justified)
    \/ \E op \in Operations : AskPaths(op)

ScopeSpec == ScopeInit /\ [][ScopeNext]_scopeVars

-----------------------------------------------------------------------------
\* The textual overlap test is as strong as the matching it stands for: in a
\* scope that was frozen, no two spellings of one path may be created and
\* modified (on a disk that ignores case they are one file), and every path an
\* allowed rule names is really allowed, unless it is a spelling of
\* .env.example (scope.py:137-205, 312-327).
ScopeIsUnambiguous ==
    Frozen =>
        /\ \A p \in answers["create"], q \in answers["modify"] : Identity(p) # Identity(q)
        /\ \A p \in Paths :
               (\E rule \in TheScope.new \cup TheScope.existing : Matches(rule, p)) =>
                   Identity(p) = EnvExample \/ ~Denied(TheScope, p)
=============================================================================
