----------------------------- MODULE ScopeRules -----------------------------
(***************************************************************************)
(* The path rules of a frozen build scope: scripts/capability_build/       *)
(* scope.py.  A path is a sequence of segments and a segment a sequence of *)
(* characters, because the rules look inside both: "*" stands for any run  *)
(* of characters of one segment, the segment "**" for any run of segments. *)
(***************************************************************************)
EXTENDS Naturals, Sequences

CONSTANTS
    Lower,              \* the casefolding of every character in use
    DefaultDenied,      \* DEFAULT_PROTECTED_FILES and DEFAULT_FORBIDDEN_PATHS
    EnvExample,         \* the path ".env.example"
    EnvRules            \* the default rules ".env*" and ".env.*"

\* The characters of the rules and the paths.
Characters == DOMAIN Lower

\* Casefolding neither makes a wildcard nor takes one away.
ASSUME FoldAssumption ==
    \A c \in Characters : (Lower[c] = "*" <=> c = "*") /\ (Lower[c] = "**" <=> c = "**")

\* The default rules are written with these characters.
ASSUME DefaultsAssumption == DefaultDenied \subseteq Seq(Seq(Characters))

AnySegments == <<"**">>

\* _identity: paths are compared as casefolded text.
Identity(path) == [i \in DOMAIN path |-> [k \in DOMAIN path[i] |-> Lower[path[i][k]]]]

HasPattern(rule) == \E i \in DOMAIN rule : \E k \in DOMAIN rule[i] : rule[i][k] \in {"*", "**"}

\* ".env.example" names one file.
ASSUME ExampleAssumption == ~HasPattern(EnvExample)

\* fnmatch.fnmatchcase of one segment, for patterns built from "*" only: from[j]
\* are the places of the segment whose rest the pattern matches from j on.
Glob(segment, pattern) ==
    LET from[j \in 1..(Len(pattern) + 1)] ==
            IF j > Len(pattern) THEN {Len(segment) + 1}
            ELSE LET next == from[j + 1] IN
                 IF pattern[j] = "*"
                 THEN {i \in 1..(Len(segment) + 1) : \E k \in next : i <= k}
                 ELSE {i \in 1..Len(segment) : segment[i] = pattern[j] /\ i + 1 \in next}
    IN  1 \in from[1]

\* _matches: the rule against a concrete path.
Matches(rule, path) ==
    LET from[r \in 1..(Len(rule) + 1)] ==
            IF r > Len(rule) THEN {Len(path) + 1}
            ELSE LET next == from[r + 1] IN
                 IF rule[r] = AnySegments
                 THEN {p \in 1..(Len(path) + 1) : \E q \in next : p <= q}
                 ELSE {p \in 1..Len(path) : Glob(path[p], rule[r]) /\ p + 1 \in next}
    IN  1 \in from[1]

MatchesAnyCase(rule, path) == Matches(Identity(rule), Identity(path))

Stars(segment) == {k \in DOMAIN segment : segment[k] = "*"}
FirstStar(segment) == CHOOSE k \in Stars(segment) : \A j \in Stars(segment) : k <= j
LastStar(segment) == CHOOSE k \in Stars(segment) : \A j \in Stars(segment) : j <= k
StartsWith(s, t) == Len(t) <= Len(s) /\ SubSeq(s, 1, Len(t)) = t
EndsWith(s, t) == Len(t) <= Len(s) /\ SubSeq(s, Len(s) - Len(t) + 1, Len(s)) = t

\* A mutant: the tails are forgotten and the prefixes compared one way only.
SegmentOverlapByPrefix(f, s) ==
    LET before(x) == SubSeq(x, 1, FirstStar(x) - 1) IN
    \/ Stars(f) = {} /\ Glob(f, s)
    \/ Stars(f) # {} /\ Stars(s) = {} /\ Glob(s, f)
    \/ /\ Stars(f) # {} /\ Stars(s) # {}
       /\ StartsWith(before(f), before(s))

\* segment_overlap: two wildcard segments are compared by what stands before
\* their first and after their last star, the middle is ignored.
SegmentOverlap(f, s) ==
    LET before(x) == SubSeq(x, 1, FirstStar(x) - 1)
        after(x) == SubSeq(x, LastStar(x) + 1, Len(x))
    IN  \/ Stars(f) = {} /\ Glob(f, s)
        \/ Stars(f) # {} /\ Stars(s) = {} /\ Glob(s, f)
        \/ /\ Stars(f) # {} /\ Stars(s) # {}
           /\ StartsWith(before(f), before(s)) \/ StartsWith(before(s), before(f))
           /\ EndsWith(after(f), after(s)) \/ EndsWith(after(s), after(f))

\* paths_overlap over two folded patterns.
PathsOverlap(first, second) ==
    LET over[at \in (1..(Len(first) + 1)) \X (1..(Len(second) + 1))] ==
            LET i == at[1]
                j == at[2]
                inside == i <= Len(first) /\ j <= Len(second)
            IN  \/ i > Len(first) /\ \A k \in j..Len(second) : second[k] = AnySegments
                \/ i <= Len(first) /\ j > Len(second) /\ \A k \in i..Len(first) : first[k] = AnySegments
                \/ /\ inside /\ AnySegments \in {first[i], second[j]}
                   /\ over[<<i + 1, j>>] \/ over[<<i, j + 1>>]
                \/ /\ inside /\ AnySegments \notin {first[i], second[j]}
                   /\ SegmentOverlap(first[i], second[j]) /\ over[<<i + 1, j + 1>>]
    IN  over[<<1, 1>>]

\* _patterns_overlap
PatternsOverlap(first, second) ==
    \/ ~HasPattern(first) /\ ~HasPattern(second) /\ Identity(first) = Identity(second)
    \/ ~HasPattern(first) /\ HasPattern(second) /\ MatchesAnyCase(second, first)
    \/ HasPattern(first) /\ ~HasPattern(second) /\ MatchesAnyCase(first, second)
    \/ HasPattern(first) /\ HasPattern(second) /\ PathsOverlap(Identity(first), Identity(second))

\* _allowed_denied_overlap: ".env.example" is excused from the two .env rules.
AllowedDeniedOverlap(allowed, denied) ==
    /\ ~(Identity(allowed) = EnvExample /\ Identity(denied) \in EnvRules)
    /\ PatternsOverlap(allowed, denied)

\* _normalize_rules refuses two rules with one identity.
NoDuplicates(rules) == \A r, q \in rules : Identity(r) = Identity(q) => r = q

\* _with_defaults: the defaults are always there and win over a supplied
\* rule of the same identity.
WithDefaults(supplied) ==
    DefaultDenied \cup {r \in supplied : \A d \in DefaultDenied : Identity(d) # Identity(r)}

\* FrozenScope.__post_init__: what a scope input must satisfy to be frozen.
\* Protected files and forbidden paths deny in the same way and are one set.
ValidScope(input) ==
    /\ NoDuplicates(input.new) /\ NoDuplicates(input.existing) /\ NoDuplicates(input.denied)
    /\ \A n \in input.new, e \in input.existing : ~PatternsOverlap(n, e)
    /\ \A a \in input.new \cup input.existing, d \in WithDefaults(input.denied) : ~AllowedDeniedOverlap(a, d)
    /\ input.justified = input.new \cup input.existing

Freeze(input) == [new |-> input.new, existing |-> input.existing, denied |-> WithDefaults(input.denied)]

\* _matching_denied_rule
Denied(scope, path) ==
    \E rule \in scope.denied : ~(path = EnvExample /\ rule \in EnvRules) /\ MatchesAnyCase(rule, path)

\* _decision: a denied path is denied whatever allows it, and an allowed rule
\* is matched in its exact case.
Decision(scope, path, operation) ==
    LET allows(rules) == \E rule \in rules : Matches(rule, path)
        own == IF operation = "create" THEN scope.new ELSE scope.existing
        other == IF operation = "create" THEN scope.existing ELSE scope.new
    IN  CASE Denied(scope, path) -> "denied"
          [] ~Denied(scope, path) /\ allows(own) -> "allowed"
          [] ~Denied(scope, path) /\ ~allows(own) /\ allows(other) -> "wrong_operation"
          [] OTHER -> "outside_scope"
=============================================================================
