---------------------------- MODULE BackendProofs ----------------------------
(***************************************************************************)
(* Proofs about the backend's approval queue, its composed tool runs and   *)
(* the start of its processes, for any number of operations, requests,     *)
(* processes, tasks and versions. The approval queue executes each         *)
(* approved call at most once and implements OperationContract; a composed *)
(* run writes only what its plan and its reads show, with the tool version *)
(* planned; a process that serves finds the schema it needs.               *)
(***************************************************************************)
EXTENDS ToolOperations, Composition, Startup, SequenceTheorems, FiniteSetTheorems,
        WellFoundedInduction, TLAPS

------------------------------------------------------------------------------
(* The approval queue (tool_operations.py).                                *)

\* The fresh database and process satisfy the inductive invariant.
LEMMA InitEstablishesIndInv == Init => IndInv
BY DEF Init, IndInv, TypeOK, Statuses, Terminal, RunStatuses, Points, InFlight,
       Owning, ExecutedAtMostOnce, UnapprovedWroteNothing,
       OnlyTheReviewedVersionRan, ClaimIsExclusive, ExecutingIsOwnedOrLost,
       OwnerProgress, RanOnlyByWriting, ResultRunSettled, Owns

\* Every transaction of every request, every storage fault, every restart and
\* every tick of the clock preserves the inductive invariant.
LEMMA NextPreservesIndInv == IndInv /\ [Next]_vars => IndInv'
<1> SUFFICES ASSUME IndInv, [Next]_vars PROVE IndInv'
  OBVIOUS
<1> USE DEF IndInv
<1>1. ASSUME NEW o \in Ops, CreatePending(o) PROVE IndInv'
  <2>1. TypeOK'
    BY <1>1, TtlAssumption DEF CreatePending, TypeOK, Statuses, Terminal,
       Points, InFlight, Owning, RunStatuses, history
  <2>2. ExecutedAtMostOnce'
    BY <1>1 DEF CreatePending, ExecutedAtMostOnce, TypeOK, history
  <2>3. UnapprovedWroteNothing'
    BY <1>1 DEF CreatePending, UnapprovedWroteNothing, TypeOK, history
  <2>4. OnlyTheReviewedVersionRan'
    BY <1>1 DEF CreatePending, OnlyTheReviewedVersionRan, TypeOK,
       UnapprovedWroteNothing, RanOnlyByWriting, history
  <2>5. ClaimIsExclusive'
    BY <1>1 DEF CreatePending, ClaimIsExclusive, TypeOK, Owning, Owns, history
  <2>6. ExecutingIsOwnedOrLost'
    BY <1>1 DEF CreatePending, ExecutingIsOwnedOrLost, TypeOK,
       ClaimIsExclusive, Owning, Owns, history
  <2>7. OwnerProgress'
    BY <1>1 DEF CreatePending, OwnerProgress, TypeOK, VersionMatches,
       ClaimIsExclusive, Owning, history
  <2>8. ResultRunSettled'
    BY <1>1 DEF CreatePending, ResultRunSettled, TypeOK, history
  <2>9. (RanOnlyByWriting)'
    BY <1>1 DEF CreatePending, RanOnlyByWriting, history
  <2> QED BY <2>1, <2>2, <2>3, <2>4, <2>5, <2>6, <2>7, <2>8, <2>9
<1>2. ASSUME NEW r \in Reqs, Request(r) PROVE IndInv'
  <2>1. TypeOK'
    BY <1>2 DEF Request, TypeOK, Statuses, Terminal, Points, InFlight, Owning,
       RunStatuses, rows, history, Goto
  <2>2. ClaimIsExclusive'
    BY <1>2 DEF Request, ClaimIsExclusive, TypeOK, Owning, Owns, rows,
       history, Goto
  <2>3. ExecutingIsOwnedOrLost'
    BY <1>2 DEF Request, ExecutingIsOwnedOrLost, TypeOK, ClaimIsExclusive,
       Owning, Owns, rows, history, Goto
  <2>4. OwnerProgress'
    BY <1>2 DEF Request, OwnerProgress, TypeOK, VersionMatches, rows, history,
       Goto
  <2>5. ResultRunSettled'
    BY <1>2 DEF Request, ResultRunSettled, TypeOK, rows, history, Goto
  <2>6. (ExecutedAtMostOnce /\ UnapprovedWroteNothing /\
        OnlyTheReviewedVersionRan /\ RanOnlyByWriting)'
    BY <1>2 DEF Request, ExecutedAtMostOnce, UnapprovedWroteNothing,
       OnlyTheReviewedVersionRan, RanOnlyByWriting, rows, history
  <2> QED BY <2>1, <2>2, <2>3, <2>4, <2>5, <2>6
<1>3. ASSUME NEW r \in Reqs, ExpireStale(r) PROVE IndInv'
  <2>1. TypeOK'
    BY <1>3 DEF ExpireStale, TypeOK, Statuses, Terminal, Points, InFlight,
       Owning, RunStatuses, history, Goto
  <2>2. ExecutedAtMostOnce'
    BY <1>3 DEF ExpireStale, ExecutedAtMostOnce, TypeOK, Stale, history
  <2>3. UnapprovedWroteNothing'
    BY <1>3 DEF ExpireStale, UnapprovedWroteNothing, TypeOK, Stale, history
  <2>4. ClaimIsExclusive'
    BY <1>3 DEF ExpireStale, ClaimIsExclusive, TypeOK, Owning, Owns, Stale,
       history, Goto
  <2>5. ExecutingIsOwnedOrLost'
    BY <1>3 DEF ExpireStale, ExecutingIsOwnedOrLost, TypeOK, ClaimIsExclusive,
       Owning, Owns, Stale, history, Goto
  <2>6. OwnerProgress'
    BY <1>3 DEF ExpireStale, OwnerProgress, TypeOK, VersionMatches, history,
       Goto
  <2>7. ResultRunSettled'
    BY <1>3 DEF ExpireStale, ResultRunSettled, TypeOK, Stale, history, Goto
  <2>8. (OnlyTheReviewedVersionRan /\ RanOnlyByWriting)'
    BY <1>3 DEF ExpireStale, OnlyTheReviewedVersionRan, RanOnlyByWriting,
       history
  <2> QED BY <2>1, <2>2, <2>3, <2>4, <2>5, <2>6, <2>7, <2>8
<1>4. ASSUME NEW r \in Reqs, Claim(r) PROVE IndInv'
  <2>1. TypeOK'
    BY <1>4 DEF Claim, TypeOK, Statuses, Terminal, Points, InFlight, Owning,
       RunStatuses, history, Goto
  <2>2. ExecutedAtMostOnce'
    BY <1>4 DEF Claim, ExecutedAtMostOnce, TypeOK, history
  <2>3. UnapprovedWroteNothing'
    BY <1>4 DEF Claim, UnapprovedWroteNothing, TypeOK, history
  <2>4. ClaimIsExclusive'
    BY <1>4 DEF Claim, ClaimIsExclusive, TypeOK, Owning, Owns, history, Goto
  <2>5. ExecutingIsOwnedOrLost'
    BY <1>4 DEF Claim, ExecutingIsOwnedOrLost, TypeOK, ClaimIsExclusive,
       Owning, Owns, history, Goto
  <2>6. OwnerProgress'
    BY <1>4 DEF Claim, OwnerProgress, TypeOK, VersionMatches,
       UnapprovedWroteNothing, ClaimIsExclusive, Owning, history, Goto
  <2>7. ResultRunSettled'
    BY <1>4 DEF Claim, ResultRunSettled, TypeOK, history, Goto
  <2>8. (OnlyTheReviewedVersionRan /\ RanOnlyByWriting)'
    BY <1>4 DEF Claim, OnlyTheReviewedVersionRan, RanOnlyByWriting, history
  <2> QED BY <2>1, <2>2, <2>3, <2>4, <2>5, <2>6, <2>7, <2>8
<1>5. ASSUME NEW r \in Reqs, Reject(r) PROVE IndInv'
  <2>1. TypeOK'
    BY <1>5 DEF Reject, TypeOK, Statuses, Terminal, Points, InFlight, Owning,
       RunStatuses, history, Goto
  <2>2. ExecutedAtMostOnce'
    BY <1>5 DEF Reject, ExecutedAtMostOnce, TypeOK, history
  <2>3. UnapprovedWroteNothing'
    BY <1>5 DEF Reject, UnapprovedWroteNothing, TypeOK, history
  <2>4. ClaimIsExclusive'
    BY <1>5 DEF Reject, ClaimIsExclusive, TypeOK, Owning, Owns, history, Goto
  <2>5. ExecutingIsOwnedOrLost'
    BY <1>5 DEF Reject, ExecutingIsOwnedOrLost, TypeOK, ClaimIsExclusive,
       Owning, Owns, history, Goto
  <2>6. OwnerProgress'
    BY <1>5 DEF Reject, OwnerProgress, TypeOK, VersionMatches, history, Goto
  <2>7. ResultRunSettled'
    BY <1>5 DEF Reject, ResultRunSettled, TypeOK, history, Goto
  <2>8. (OnlyTheReviewedVersionRan /\ RanOnlyByWriting)'
    BY <1>5 DEF Reject, OnlyTheReviewedVersionRan, RanOnlyByWriting, history
  <2> QED BY <2>1, <2>2, <2>3, <2>4, <2>5, <2>6, <2>7, <2>8
<1>6. ASSUME NEW r \in Reqs, StartRun(r) PROVE IndInv'
  <2>1. TypeOK'
    BY <1>6 DEF StartRun, TypeOK, Statuses, Terminal, Points, InFlight,
       Owning, RunStatuses, rows, history, Goto
  <2>2. ClaimIsExclusive'
    BY <1>6 DEF StartRun, ClaimIsExclusive, TypeOK, Owning, Owns, rows,
       history, Goto
  <2>3. ExecutingIsOwnedOrLost'
    BY <1>6 DEF StartRun, ExecutingIsOwnedOrLost, TypeOK, ClaimIsExclusive,
       Owning, Owns, rows, history, Goto
  <2>4. OwnerProgress'
    BY <1>6 DEF StartRun, OwnerProgress, TypeOK, VersionMatches, rows,
       history, Goto
  <2>5. ResultRunSettled'
    BY <1>6 DEF StartRun, ResultRunSettled, TypeOK, rows, history, Goto
  <2>6. (ExecutedAtMostOnce /\ UnapprovedWroteNothing /\
        OnlyTheReviewedVersionRan /\ RanOnlyByWriting)'
    BY <1>6 DEF StartRun, ExecutedAtMostOnce, UnapprovedWroteNothing,
       OnlyTheReviewedVersionRan, RanOnlyByWriting, rows, history
  <2> QED BY <2>1, <2>2, <2>3, <2>4, <2>5, <2>6
<1>7. ASSUME NEW r \in Reqs, Execute(r) PROVE IndInv'
  <2>1. TypeOK'
    BY <1>7 DEF Execute, TypeOK, Statuses, Terminal, Points, InFlight, Owning,
       RunStatuses, rows, Goto, OwnerProgress, VersionMatches
  <2>2. ExecutedAtMostOnce'
    BY <1>7 DEF Execute, ExecutedAtMostOnce, TypeOK, OwnerProgress,
       ClaimIsExclusive, Owning, rows
  <2>3. UnapprovedWroteNothing'
    BY <1>7 DEF Execute, UnapprovedWroteNothing, TypeOK, ClaimIsExclusive,
       Owning, rows
  <2>4. OnlyTheReviewedVersionRan'
    BY <1>7 DEF Execute, OnlyTheReviewedVersionRan, TypeOK, OwnerProgress,
       VersionMatches, rows
  <2>5. ClaimIsExclusive'
    BY <1>7 DEF Execute, ClaimIsExclusive, TypeOK, Owning, Owns, rows, Goto
  <2>6. ExecutingIsOwnedOrLost'
    BY <1>7 DEF Execute, ExecutingIsOwnedOrLost, TypeOK, ClaimIsExclusive,
       Owning, Owns, rows, Goto
  <2>7. OwnerProgress'
    BY <1>7 DEF Execute, OwnerProgress, TypeOK, VersionMatches,
       ClaimIsExclusive, Owning, Owns, rows, Goto
  <2>8. RanOnlyByWriting'
    BY <1>7 DEF Execute, RanOnlyByWriting, TypeOK, rows
  <2>9. ResultRunSettled'
    BY <1>7 DEF Execute, ResultRunSettled, TypeOK, rows, Goto
  <2> QED BY <2>1, <2>2, <2>3, <2>4, <2>5, <2>6, <2>7, <2>8, <2>9
<1>8. ASSUME NEW r \in Reqs, ExecuteRaises(r) PROVE IndInv'
  <2>1. TypeOK'
    BY <1>8 DEF ExecuteRaises, TypeOK, Statuses, Terminal, Points, InFlight,
       Owning, RunStatuses, rows, history, Goto
  <2>2. ClaimIsExclusive'
    BY <1>8 DEF ExecuteRaises, ClaimIsExclusive, TypeOK, Owning, Owns, rows,
       history, Goto
  <2>3. ExecutingIsOwnedOrLost'
    BY <1>8 DEF ExecuteRaises, ExecutingIsOwnedOrLost, TypeOK,
       ClaimIsExclusive, Owning, Owns, rows, history, Goto
  <2>4. OwnerProgress'
    BY <1>8 DEF ExecuteRaises, OwnerProgress, TypeOK, VersionMatches, rows,
       history, Goto
  <2>5. ResultRunSettled'
    BY <1>8 DEF ExecuteRaises, ResultRunSettled, TypeOK, rows, history, Goto
  <2>6. (ExecutedAtMostOnce /\ UnapprovedWroteNothing /\
        OnlyTheReviewedVersionRan /\ RanOnlyByWriting)'
    BY <1>8 DEF ExecuteRaises, ExecutedAtMostOnce, UnapprovedWroteNothing,
       OnlyTheReviewedVersionRan, RanOnlyByWriting, rows, history
  <2> QED BY <2>1, <2>2, <2>3, <2>4, <2>5, <2>6
<1>9. ASSUME NEW r \in Reqs, FinishRunFailure(r) PROVE IndInv'
  <2>1. TypeOK'
    BY <1>9 DEF FinishRunFailure, TypeOK, Statuses, Terminal, Points,
       InFlight, Owning, RunStatuses, rows, history, Goto
  <2>2. ClaimIsExclusive'
    BY <1>9 DEF FinishRunFailure, ClaimIsExclusive, TypeOK, Owning, Owns,
       rows, history, Goto
  <2>3. ExecutingIsOwnedOrLost'
    BY <1>9 DEF FinishRunFailure, ExecutingIsOwnedOrLost, TypeOK,
       ClaimIsExclusive, Owning, Owns, rows, history, Goto
  <2>4. OwnerProgress'
    BY <1>9 DEF FinishRunFailure, OwnerProgress, TypeOK, VersionMatches, rows,
       history, Goto
  <2>5. ResultRunSettled'
    BY <1>9 DEF FinishRunFailure, ResultRunSettled, TypeOK, rows, history,
       Goto
  <2>6. (ExecutedAtMostOnce /\ UnapprovedWroteNothing /\
        OnlyTheReviewedVersionRan /\ RanOnlyByWriting)'
    BY <1>9 DEF FinishRunFailure, ExecutedAtMostOnce, UnapprovedWroteNothing,
       OnlyTheReviewedVersionRan, RanOnlyByWriting, rows, history
  <2> QED BY <2>1, <2>2, <2>3, <2>4, <2>5, <2>6
<1>10. ASSUME NEW r \in Reqs, FinishRunSuccess(r) PROVE IndInv'
  <2>1. TypeOK'
    BY <1>10 DEF FinishRunSuccess, TypeOK, Statuses, Terminal, Points,
       InFlight, Owning, RunStatuses, rows, history, Goto
  <2>2. ClaimIsExclusive'
    BY <1>10 DEF FinishRunSuccess, ClaimIsExclusive, TypeOK, Owning, Owns,
       rows, history, Goto
  <2>3. ExecutingIsOwnedOrLost'
    BY <1>10 DEF FinishRunSuccess, ExecutingIsOwnedOrLost, TypeOK,
       ClaimIsExclusive, Owning, Owns, rows, history, Goto
  <2>4. OwnerProgress'
    BY <1>10 DEF FinishRunSuccess, OwnerProgress, TypeOK, VersionMatches,
       rows, history, Goto
  <2>5. ResultRunSettled'
    BY <1>10 DEF FinishRunSuccess, ResultRunSettled, TypeOK, rows, history,
       Goto
  <2>6. (ExecutedAtMostOnce /\ UnapprovedWroteNothing /\
        OnlyTheReviewedVersionRan /\ RanOnlyByWriting)'
    BY <1>10 DEF FinishRunSuccess, ExecutedAtMostOnce, UnapprovedWroteNothing,
       OnlyTheReviewedVersionRan, RanOnlyByWriting, rows, history
  <2> QED BY <2>1, <2>2, <2>3, <2>4, <2>5, <2>6
<1>11. ASSUME NEW r \in Reqs, Finalize(r) PROVE IndInv'
  <2>1. TypeOK'
    BY <1>11 DEF Finalize, TypeOK, Statuses, Terminal, Points, InFlight,
       Owning, RunStatuses, history, Goto
  <2>2. ExecutedAtMostOnce'
    BY <1>11 DEF Finalize, ExecutedAtMostOnce, TypeOK, OwnerProgress, history
  <2>3. UnapprovedWroteNothing'
    BY <1>11 DEF Finalize, UnapprovedWroteNothing, TypeOK, history
  <2>4. ClaimIsExclusive'
    BY <1>11 DEF Finalize, ClaimIsExclusive, TypeOK, Owning, Owns, history,
       Goto
  <2>5. ExecutingIsOwnedOrLost'
    BY <1>11 DEF Finalize, ExecutingIsOwnedOrLost, TypeOK, ClaimIsExclusive,
       Owning, Owns, history, Goto
  <2>6. OwnerProgress'
    BY <1>11 DEF Finalize, OwnerProgress, TypeOK, VersionMatches, history,
       Goto
  <2>7. ResultRunSettled'
    BY <1>11, NoneAssumption DEF Finalize, ResultRunSettled, TypeOK,
       OwnerProgress, ClaimIsExclusive, Owning, history, Goto
  <2>8. (OnlyTheReviewedVersionRan /\ RanOnlyByWriting)'
    BY <1>11 DEF Finalize, OnlyTheReviewedVersionRan, RanOnlyByWriting,
       history
  <2> QED BY <2>1, <2>2, <2>3, <2>4, <2>5, <2>6, <2>7, <2>8
<1>12. ASSUME NEW r \in Reqs, StorageFault(r) PROVE IndInv'
  <2>1. TypeOK'
    BY <1>12 DEF StorageFault, TypeOK, Statuses, Terminal, Points, InFlight,
       Owning, RunStatuses, rows, Goto
  <2>2. ClaimIsExclusive'
    BY <1>12 DEF StorageFault, ClaimIsExclusive, TypeOK, Owning, Owns,
       CaughtByApprove, InFlight, rows, Goto
  <2>3. ExecutingIsOwnedOrLost'
    BY <1>12 DEF StorageFault, ExecutingIsOwnedOrLost, TypeOK,
       ClaimIsExclusive, Owning, Owns, CaughtByApprove, InFlight, rows, Goto
  <2>4. OwnerProgress'
    BY <1>12 DEF StorageFault, OwnerProgress, TypeOK, VersionMatches,
       CaughtByApprove, InFlight, Owning, rows, Goto
  <2>5. ResultRunSettled'
    BY <1>12 DEF StorageFault, ResultRunSettled, TypeOK, InFlight, Owning,
       rows, Goto
  <2>6. (ExecutedAtMostOnce /\ UnapprovedWroteNothing /\
        OnlyTheReviewedVersionRan /\ RanOnlyByWriting)'
    BY <1>12 DEF StorageFault, ExecutedAtMostOnce, UnapprovedWroteNothing,
       OnlyTheReviewedVersionRan, RanOnlyByWriting, rows
  <2> QED BY <2>1, <2>2, <2>3, <2>4, <2>5, <2>6
<1>13. CASE Restart
  <2>1. TypeOK'
    BY <1>13 DEF Restart, TypeOK, Points, InFlight, rows
  <2>2. (ExecutedAtMostOnce /\ UnapprovedWroteNothing
         /\ OnlyTheReviewedVersionRan /\ RanOnlyByWriting)'
    BY <1>13 DEF Restart, rows, ExecutedAtMostOnce, UnapprovedWroteNothing,
                OnlyTheReviewedVersionRan, RanOnlyByWriting
  <2>3. ClaimIsExclusive'
    BY <1>13 DEF Restart, TypeOK, ClaimIsExclusive, Owns, Owning, InFlight, rows
  <2>4. ExecutingIsOwnedOrLost'
    BY <1>13 DEF Restart, TypeOK, ExecutingIsOwnedOrLost, rows
  <2>5. OwnerProgress'
    BY <1>13 DEF Restart, TypeOK, OwnerProgress, Owning, InFlight, rows
  <2>6. ResultRunSettled'
    BY <1>13 DEF Restart, TypeOK, ResultRunSettled, Owning, InFlight, rows
  <2> QED BY <2>1, <2>2, <2>3, <2>4, <2>5, <2>6
<1>14. CASE Tick
  BY <1>14 DEF Tick, rows, history, TypeOK, ExecutedAtMostOnce,
       UnapprovedWroteNothing, OnlyTheReviewedVersionRan, ClaimIsExclusive,
       ExecutingIsOwnedOrLost, OwnerProgress, VersionMatches, RanOnlyByWriting,
       ResultRunSettled, Owns
<1>15. CASE UNCHANGED vars
  BY <1>15 DEF vars, TypeOK, ExecutedAtMostOnce,
       UnapprovedWroteNothing, OnlyTheReviewedVersionRan, ClaimIsExclusive,
       ExecutingIsOwnedOrLost, OwnerProgress, VersionMatches, RanOnlyByWriting,
       ResultRunSettled, Owns
<1> QED
  BY <1>1, <1>2, <1>3, <1>4, <1>5, <1>6, <1>7, <1>8, <1>9, <1>10, <1>11,
     <1>12, <1>13, <1>14, <1>15 DEF Next, Step

\* The inductive invariant holds throughout every behaviour.
THEOREM Invariance == Spec => []IndInv
<1>1. IndInv /\ [Next]_vars => IndInv'
  BY NextPreservesIndInv
<1> QED
  BY InitEstablishesIndInv, <1>1, PTL DEF Spec

\* The types of the schema are respected.
THEOREM TypeCorrectness == Spec => []TypeOK
<1>1. IndInv => TypeOK
  BY DEF IndInv
<1> QED BY Invariance, <1>1, PTL

\* However approvals, retries, faults, restarts and registry changes interleave,
\* approve_operation's frozen call is written at most once, exactly once when
\* the operation is recorded as succeeded, and never for an operation that was
\* rejected, that expired or that nobody has approved yet.
THEOREM ApprovedWritesOnce == Spec => []WritesNeedApproval
<1>1. IndInv => WritesNeedApproval
  BY DEF IndInv, WritesNeedApproval
<1> QED BY Invariance, <1>1, PTL

\* The version check between claim and execution is enough: no other version of
\* the tool than the reviewed one ever runs.
THEOREM ReviewedVersionOnly == Spec => []OnlyTheReviewedVersionRan
<1>1. IndInv => OnlyTheReviewedVersionRan
  BY DEF IndInv
<1> QED BY Invariance, <1>1, PTL

\* At most one request holds a claim, _finalize_operation always finds the row
\* it claimed still executing, and an operation stays in executing only when a
\* crash or an escaped storage fault took its owner away.
THEOREM OwnedClaims == Spec => []ClaimsAreOwned
<1>1. IndInv => ClaimsAreOwned
  BY DEF IndInv, ClaimsAreOwned
<1> QED BY Invariance, <1>1, PTL

\* A succeeded operation names the succeeded Run of the request that claimed it.
THEOREM AuditTrail == Spec => []ResultRunSucceeded
<1>1. IndInv => ResultRunSucceeded
  BY NoneAssumption DEF IndInv, ResultRunSettled, ResultRunSucceeded
<1> QED BY Invariance, <1>1, PTL

----------------------------------------------------------------------------
(* No claim of a row that was stale when its request arrived.              *)

\* The row is not past its expiry at the time the request arrived.
FreshFor(r) == expires[target[r]] = None \/ arrived[r] <= expires[target[r]]

\* The expiry is read in one transaction and the row claimed in another: a row
\* that is still pending between them is the one that was not stale, or one
\* frozen since.
PendingIsFresh ==
  \A r \in Reqs :
    /\ arrived[r] <= now
    /\ pc[r] \in Owning \/ (pc[r] = "claim" /\ status[target[r]] = "pending") => FreshFor(r)

\* Every step keeps what a claim is about to rely on.
LEMMA NextPreservesFreshness ==
  IndInv /\ PendingIsFresh /\ [Next]_vars => PendingIsFresh'
<1> SUFFICES ASSUME IndInv, PendingIsFresh, [Next]_vars PROVE PendingIsFresh'
  OBVIOUS
<1>0. TypeOK /\ ClaimIsExclusive
  BY DEF IndInv
<1>1. ASSUME NEW o \in Ops, CreatePending(o) PROVE PendingIsFresh'
  <2>1. /\ status[o] = "absent" /\ status' = [status EXCEPT ![o] = "pending"]
        /\ UNCHANGED <<pc, target, arrived, now>>
    BY <1>1 DEF CreatePending
  <2>2. PICK deadline \in {now + Ttl, None} : expires' = [expires EXCEPT ![o] = deadline]
    BY <1>1 DEF CreatePending
  <2> SUFFICES ASSUME NEW r \in Reqs
               PROVE  /\ arrived[r] <= now
                      /\ pc[r] \in Owning \/ (pc[r] = "claim" /\ status'[target[r]] = "pending")
                           => FreshFor(r)'
    BY <2>1 DEF PendingIsFresh
  <2>3. CASE target[r] = o
    <3>1. pc[r] \notin Owning
      BY <1>0, <2>1, <2>3 DEF ClaimIsExclusive
    <3>2. FreshFor(r)'
      <4>1. arrived[r] \in Nat /\ now \in Nat /\ arrived[r] <= now /\ expires'[o] = deadline
        BY <1>0, <2>2 DEF TypeOK, PendingIsFresh
      <4> QED BY <2>1, <2>3, <4>1, TtlAssumption DEF FreshFor
    <3> QED BY <3>1, <3>2 DEF PendingIsFresh
  <2>4. CASE target[r] # o
    <3>1. target[r] \in Ops /\ expires'[target[r]] = expires[target[r]]
          /\ status'[target[r]] = status[target[r]]
      BY <1>0, <2>1, <2>2, <2>4 DEF TypeOK
    <3> QED BY <2>1, <3>1 DEF PendingIsFresh, FreshFor
  <2> QED BY <2>3, <2>4
<1>2. ASSUME NEW r \in Reqs, Request(r) PROVE PendingIsFresh'
  BY <1>0, <1>2 DEF Request, Goto, PendingIsFresh, FreshFor, TypeOK, Owning, rows
<1>3. ASSUME NEW r \in Reqs, ExpireStale(r) PROVE PendingIsFresh'
  BY <1>0, <1>3, NoneAssumption
     DEF ExpireStale, Stale, Goto, PendingIsFresh, FreshFor, TypeOK, Owning
<1>4. ASSUME NEW r \in Reqs, Claim(r) PROVE PendingIsFresh'
  BY <1>0, <1>4 DEF Claim, Goto, PendingIsFresh, FreshFor, TypeOK, Owning
<1>5. ASSUME NEW r \in Reqs, Reject(r) PROVE PendingIsFresh'
  BY <1>0, <1>5 DEF Reject, Goto, PendingIsFresh, FreshFor, TypeOK, Owning
<1>6. ASSUME NEW r \in Reqs, StartRun(r) PROVE PendingIsFresh'
  BY <1>0, <1>6 DEF StartRun, Goto, PendingIsFresh, FreshFor, TypeOK, Owning, rows
<1>7. ASSUME NEW r \in Reqs, Execute(r) \/ ExecuteRaises(r) PROVE PendingIsFresh'
  BY <1>0, <1>7 DEF Execute, ExecuteRaises, Goto, PendingIsFresh, FreshFor, TypeOK, Owning, rows
<1>8. ASSUME NEW r \in Reqs, FinishRunFailure(r) \/ FinishRunSuccess(r) PROVE PendingIsFresh'
  BY <1>0, <1>8
     DEF FinishRunFailure, FinishRunSuccess, Goto, PendingIsFresh, FreshFor, TypeOK, Owning, rows
<1>9. ASSUME NEW r \in Reqs, Finalize(r) PROVE PendingIsFresh'
  BY <1>0, <1>9 DEF Finalize, Goto, PendingIsFresh, FreshFor, TypeOK, Owning
<1>10. ASSUME NEW r \in Reqs, StorageFault(r) PROVE PendingIsFresh'
  BY <1>0, <1>10
     DEF StorageFault, CaughtByApprove, Goto, PendingIsFresh, FreshFor, TypeOK, Owning, rows
<1>11. CASE Restart
  BY <1>0, <1>11 DEF Restart, PendingIsFresh, FreshFor, TypeOK, Owning, InFlight, rows
<1>12. CASE Tick
  BY <1>0, <1>12 DEF Tick, PendingIsFresh, FreshFor, TypeOK, rows
<1>13. CASE UNCHANGED vars
  BY <1>13 DEF vars, PendingIsFresh, FreshFor
<1> QED BY <1>1, <1>2, <1>3, <1>4, <1>5, <1>6, <1>7, <1>8, <1>9, <1>10, <1>11, <1>12, <1>13
        DEF Next, Step

\* NoClaimOfStaleArrival for every number of requests and every expiry: what
\* _claim_pending_operation does not check again was not stale when the request
\* arrived.
THEOREM NoStaleClaim == Spec => []NoClaimOfStaleArrival
<1>1. Init => PendingIsFresh
  BY DEF Init, PendingIsFresh, Owning
<1>2. PendingIsFresh => NoClaimOfStaleArrival
  BY DEF PendingIsFresh, NoClaimOfStaleArrival, FreshFor
<1> QED BY <1>1, <1>2, Invariance, NextPreservesFreshness, PTL DEF Spec

\* Every transaction is one arrow of the reviewer's state machine, the one write
\* of a claim, or invisible to the reviewer.
LEMMA StepImplementsContract ==
  IndInv /\ [Next]_vars => [Contract!Next]_(Contract!vars)
<1> SUFFICES ASSUME IndInv, [Next]_vars
             PROVE  [Contract!Next]_(Contract!vars)
  OBVIOUS
<1> USE DEF IndInv, TypeOK, Contract!vars
<1>1. ASSUME NEW o \in Ops, CreatePending(o) PROVE Contract!Next
  BY <1>1 DEF CreatePending, history, Contract!Next, Contract!Move
<1>2. ASSUME NEW r \in Reqs, ExpireStale(r) PROVE [Contract!Next]_(Contract!vars)
  BY <1>2 DEF ExpireStale, Stale, history, Contract!Next, Contract!Move
<1>3. ASSUME NEW r \in Reqs, Claim(r) PROVE [Contract!Next]_(Contract!vars)
  BY <1>3 DEF Claim, history, Contract!Next, Contract!Move
<1>4. ASSUME NEW r \in Reqs, Reject(r) PROVE [Contract!Next]_(Contract!vars)
  BY <1>4 DEF Reject, history, Contract!Next, Contract!Move
<1>5. ASSUME NEW r \in Reqs, Execute(r) PROVE Contract!Next
  <2>1. status[target[r]] = "executing" /\ writes[target[r]] = 0
    BY <1>5 DEF Execute, ClaimIsExclusive, Owning, OwnerProgress
  <2>2. writes' = [writes EXCEPT ![target[r]] = 1]
    BY <1>5, <2>1 DEF Execute
  <2>3. Contract!Write(target[r])
    BY <1>5, <2>1, <2>2 DEF Execute, rows, Contract!Write
  <2> QED BY <2>3 DEF Contract!Next
<1>6. ASSUME NEW r \in Reqs, Finalize(r) PROVE Contract!Next
  <2>1. CASE pc[r] = "finalize_succeeded"
    <3>1. writes[target[r]] = 1
      BY <2>1 DEF OwnerProgress
    <3>2. Contract!Succeed(target[r])
      BY <1>6, <2>1, <3>1 DEF Finalize, history, Contract!Succeed, Contract!Move
    <3> QED BY <3>2 DEF Contract!Next
  <2>2. CASE pc[r] = "finalize_failed"
    <3>1. Contract!Move(target[r], "executing", "failed")
      BY <1>6, <2>2 DEF Finalize, history, Contract!Move
    <3> QED BY <3>1 DEF Contract!Next
  <2> QED BY <1>6, <2>1, <2>2 DEF Finalize
<1>7. ASSUME NEW r \in Reqs,
             \/ Request(r) \/ StartRun(r) \/ ExecuteRaises(r) \/ StorageFault(r)
             \/ FinishRunFailure(r) \/ FinishRunSuccess(r)
      PROVE  UNCHANGED Contract!vars
  BY <1>7 DEF Request, StartRun, ExecuteRaises, StorageFault, FinishRunFailure,
              FinishRunSuccess, rows, history
<1>8. CASE Restart \/ Tick \/ UNCHANGED vars
  BY <1>8 DEF Restart, Tick, vars, rows, history
<1> QED
  BY <1>1, <1>2, <1>3, <1>4, <1>5, <1>6, <1>7, <1>8 DEF Next, Step

\* The queue of transactions, faults and restarts implements the contract its
\* docstring draws.
THEOREM Refinement == Spec => ImplementsContract
<1>1. Init => Contract!Init
  BY DEF Init, Contract!Init
<1>2. IndInv /\ [Next]_vars => [Contract!Next]_(Contract!vars)
  BY StepImplementsContract
<1> QED
  BY Invariance, <1>1, <1>2, PTL DEF Spec, ImplementsContract, Contract!Spec

------------------------------------------------------------------------------
(* Composed tool runs (composition_runtime.py).                            *)

----------------------------------------------------------------------------
(* The greatest and the least number of a set.                             *)

\* A nonempty set of naturals has a least element, and Min is it.
LEMMA LeastOfNats ==
  ASSUME NEW S, S \subseteq Nat, S # {}
  PROVE  Min(S) \in S /\ \A y \in S : Min(S) <= y
<1>1. \E x \in S : \A y \in S : ~ (<<y, x>> \in OpToRel(<, Nat))
  BY NatLessThanWellFounded, WFMin
<1>2. \E x \in S : \A y \in S : x <= y
  <2>1. PICK x \in S : \A y \in S : ~ (<<y, x>> \in OpToRel(<, Nat))
    BY <1>1
  <2>2. ASSUME NEW y \in S PROVE x <= y
    <3>1. x \in Nat /\ y \in Nat
      OBVIOUS
    <3>2. CASE y < x
      <4>1. <<y, x>> \in Nat \X Nat /\ <<y, x>>[1] = y /\ <<y, x>>[2] = x
        BY <3>1
      <4>2. <<y, x>> \in OpToRel(<, Nat)
        BY <3>2, <4>1 DEF OpToRel
      <4> QED BY <2>1, <4>2
    <3> QED BY <3>1, <3>2
  <2> QED BY <2>2
<1> QED BY <1>2 DEF Min

\* And a greatest one when the set is bounded.
LEMMA GreatestOfBounded ==
  ASSUME NEW n \in Nat, NEW S, S \subseteq 0 .. n, S # {}
  PROVE  Max(S) \in S /\ \A y \in S : y <= Max(S)
<1> DEFINE T == {n - x : x \in S}
<1>0. \A x \in S : x \in Nat /\ x <= n /\ n - x \in Nat
  OBVIOUS
<1>1. T \subseteq Nat /\ T # {}
  BY <1>0
<1>2. PICK t \in T : \A u \in T : t <= u
  BY <1>1, LeastOfNats
<1>3. PICK x \in S : t = n - x
  OBVIOUS
<1>4. \A y \in S : x >= y
  BY <1>0, <1>2, <1>3
<1>5. \E z \in S : \A y \in S : z >= y
  BY <1>3, <1>4
<1>6. Max(S) \in S /\ \A y \in S : Max(S) >= y
  BY <1>5 DEF Max
<1> QED BY <1>6

\* How often a project was counted: not at all when it did not exist.
Count(counted, p) == IF p \in DOMAIN counted THEN counted[p] ELSE 0

\* _select_project returns a project that no other one beats.
LEMMA SelectedIsGreatest ==
  ASSUME NEW D, D \subseteq Nat, D # {}, NEW counted, NEW n \in Nat,
         \A p \in D : Count(counted, p) \in 0 .. n,
         NEW entries, entries = {[name |-> p, open |-> Count(counted, p)] : p \in D}
  PROVE  /\ SelectProject(entries) \in D
         /\ \A p \in D : Count(counted, p) <= Count(counted, SelectProject(entries))
<1> DEFINE opens == {e.open : e \in entries}
           greatest == Max(opens)
           best == {f \in entries : f.open = greatest}
           names == {e.name : e \in best}
<1>0. \A p \in D : [name |-> p, open |-> Count(counted, p)] \in entries
  OBVIOUS
<1>9. \A e \in entries : e.name \in D /\ e.open = Count(counted, e.name)
  OBVIOUS
<1> DEFINE count(p) == Count(counted, p)
<1>1. opens = {count(p) : p \in D}
  BY <1>0, <1>9
<1>2. opens \subseteq 0 .. n /\ opens # {}
  BY <1>1
<1>3. greatest \in opens /\ \A y \in opens : y <= greatest
  BY <1>2, GreatestOfBounded
<1> HIDE DEF greatest
<1>4. names = {p \in D : count(p) = greatest}
  <2>1. ASSUME NEW p \in names PROVE p \in D /\ count(p) = greatest
    <3>1. PICK e \in best : p = e.name
      OBVIOUS
    <3> QED BY <1>9, <3>1
  <2>2. ASSUME NEW p \in D, count(p) = greatest PROVE p \in names
    <3> DEFINE e == [name |-> p, open |-> count(p)]
    <3>1. e \in entries /\ e.open = greatest /\ e.name = p
      BY <1>0, <2>2
    <3> HIDE DEF e
    <3> QED BY <3>1
  <2> HIDE DEF names
  <2> QED BY <2>1, <2>2
<1>5. names # {} /\ names \subseteq Nat
  BY <1>1, <1>3, <1>4
<1>6. Min(names) \in names
  BY <1>5, LeastOfNats
<1>7. SelectProject(entries) = Min(names)
  BY DEF SelectProject, greatest
<1> QED BY <1>1, <1>3, <1>4, <1>6, <1>7

----------------------------------------------------------------------------
(* A step that is not blocked is a step of the planned mission.            *)

\* A function on 1 .. n is a sequence of length n.
LEMMA FiveSteps ==
  ASSUME NEW f, NEW n \in Nat, DOMAIN f = 1 .. n, f = [i \in 1 .. n |-> f[i]]
  PROVE  Len(f) = n
<1> DEFINE S == {f[i] : i \in 1 .. n}
<1>1. f \in [1 .. n -> S]
  OBVIOUS
<1> HIDE DEF S
<1>2. f \in Seq(S)
  BY <1>1, SeqDef
<1>3. Len(f) \in Nat /\ DOMAIN f = 1 .. Len(f)
  BY <1>2
<1> QED BY <1>3

\* A registry the plan matches offers the five tools of the mission, in order,
\* each at the version the plan bound (_registry_matches).
LEMMA PlannedStep ==
  ASSUME NEW proposal, NEW facts, NEW registered,
         RegistryMatches([proposal |-> proposal, facts |-> facts], registered)
  PROVE  /\ DOMAIN facts = 1 .. 5 /\ Len(facts) = 5
         /\ \A i \in 1 .. 5 :
              /\ proposal.steps[i].tool = BaselineToolOrder[i]
              /\ BaselineToolOrder[i] \in DOMAIN registered
              /\ facts[i] = registered[BaselineToolOrder[i]]
              /\ DOMAIN proposal.steps[i].bindings \subseteq DOMAIN facts[i].properties
<1>1. Resolves(proposal, registered) /\ facts = BoundFacts(proposal, registered)
  BY DEF RegistryMatches, BindFeasibility, Feasible
<1>2. [i \in DOMAIN proposal.steps |-> proposal.steps[i].tool] = BaselineToolOrder
  BY <1>1 DEF Resolves
<1>3. DOMAIN BaselineToolOrder = 1 .. 5
  BY DEF BaselineToolOrder
<1>4. DOMAIN proposal.steps = 1 .. 5
  BY <1>2, <1>3
<1>5. \A i \in 1 .. 5 : proposal.steps[i].tool = BaselineToolOrder[i]
  BY <1>2, <1>4
<1>6. facts = [i \in 1 .. 5 |-> registered[proposal.steps[i].tool]]
  BY <1>1, <1>4 DEF BoundFacts
<1>7. Len(facts) = 5
  <2>1. DOMAIN facts = 1 .. 5 /\ facts = [i \in 1 .. 5 |-> facts[i]]
    BY <1>6
  <2>2. \A n \in Nat : n = 5 => Len(facts) = n
    BY <2>1, FiveSteps
  <2> QED BY <2>2, 5 \in Nat
<1>8. \A i \in 1 .. 5 :
        /\ BaselineToolOrder[i] \in DOMAIN registered
        /\ StepFits(proposal.steps[i], registered[BaselineToolOrder[i]], proposal, registered)
  BY <1>1, <1>4, <1>5 DEF Resolves
<1>9. \A i \in 1 .. 5 : facts[i] = registered[BaselineToolOrder[i]]
  BY <1>5, <1>6
<1>10. \A i \in 1 .. 5 : DOMAIN proposal.steps[i].bindings \subseteq DOMAIN facts[i].properties
  BY <1>8, <1>9 DEF StepFits
<1> QED BY <1>5, <1>6, <1>7, <1>8, <1>9, <1>10

\* Which step a tool is.
LEMMA ToolOfStep ==
  /\ BaselineToolOrder[1] = "projects.overview"
  /\ BaselineToolOrder[2] = "tasks.status_summary"
  /\ BaselineToolOrder[3] = "tasks.list"
  /\ BaselineToolOrder[4] = "memory.search"
  /\ BaselineToolOrder[5] = "tasks.create"
BY DEF BaselineToolOrder

----------------------------------------------------------------------------
(* The inductive invariant.                                                *)

\* The fields of a mission run, the records of its steps and the statuses of
\* an approval operation.
RunFields ==
  {"status", "step", "results", "steps", "processed", "executed", "counted", "selected",
   "openCount"}
StepRecords ==
  [status : {"succeeded", "failed", "blocked", "pending"}, performed : BOOLEAN]
OpStatuses ==
  {"absent", "pending", "executing", "succeeded", "rejected", "failed", "expired"}

\* The steps before the current one were read.
Succeeded(steps, n) ==
  \A i \in 1 .. n : steps[i].status = "succeeded" /\ steps[i].performed = TRUE

\* How far a run is: not started, at a step with every earlier one read, or
\* ended at a step that was blocked, failed or left pending.
NotStarted(r) ==
  r.status = "none" /\ r.step = 0 /\ Len(r.steps) = 0 /\ r.executed = 0 /\ r.counted = << >>
InProgress(r) ==
  /\ r.status = "running" /\ r.step \in 1 .. 5
  /\ Len(r.steps) = r.step - 1 /\ r.executed = r.step - 1 /\ Succeeded(r.steps, r.step - 1)
EndedBlocked(r) ==
  /\ r.status = "blocked" /\ r.step \in 1 .. 5
  /\ r.executed = r.step - 1 /\ Succeeded(r.steps, r.step - 1)
  /\ \/ Len(r.steps) = r.step - 1
     \/ /\ Len(r.steps) = r.step
        /\ r.steps[r.step].status = "blocked" /\ r.steps[r.step].performed = FALSE
EndedFailed(r) ==
  /\ r.status = "failed" /\ r.step \in 1 .. 5
  /\ Len(r.steps) = r.step /\ Succeeded(r.steps, r.step - 1)
  /\ r.steps[r.step].status = "failed"
  /\ \/ r.steps[r.step].performed = TRUE /\ r.step < 5 /\ r.executed = r.step
     \/ r.steps[r.step].performed = FALSE /\ r.executed = r.step - 1
EndedPending(r) ==
  /\ r.status = "approval_pending" /\ r.step = 5
  /\ Len(r.steps) = r.step /\ r.executed = r.step - 1 /\ Succeeded(r.steps, r.step - 1)
  /\ r.steps[r.step].status = "pending" /\ r.steps[r.step].performed = FALSE

\* A run has one record for each step it took, and they agree with its end.
RunShape(r) ==
  /\ DOMAIN r = RunFields
  /\ r.steps \in Seq(StepRecords)
  /\ r.processed = Len(r.steps)
  /\ NotStarted(r) \/ InProgress(r) \/ EndedBlocked(r) \/ EndedFailed(r) \/ EndedPending(r)

\* The operation exists once the run is pending, is frozen at the version of
\* the plan's last step, and its tool wrote only at that version.
OperationInv ==
  /\ opStatus \in [{Write} -> OpStatuses]
  /\ opWrites \in [{Write} -> {0, 1}]
  /\ operation = NoCall <=> run.status # "approval_pending"
  /\ operation = NoCall <=> opStatus[Write] = "absent"
  /\ run.status # "none" => plan # NoPlan
  /\ operation # NoCall => operation.version = plan[Len(plan)].version
  /\ opWrites[Write] > 0 =>
       opStatus[Write] # "absent" /\ seen.ran.version = operation.version

\* Projects have names and bounded counts, and a registered tasks.list has the
\* limit of its schema.
WorldInv ==
  /\ DOMAIN open \subseteq ProjectNames
  /\ open \in [DOMAIN open -> 0 .. MaxOpen]
  /\ "tasks.list" \in DOMAIN tools => ListSchema(tools["tasks.list"])

\* What the comparison of tasks.list with the count lets through.
Agreed(list, limit, openCount) == list = openCount \/ (openCount = limit /\ list > limit)

\* What the run counted is what was there, and what it chose on it holds
\* from the step that chose it.
SeenInv ==
  /\ DOMAIN seen = {"overview", "list", "limit", "ran"}
  /\ run.counted = seen.overview
  /\ DOMAIN seen.overview \subseteq DOMAIN open
  /\ seen.overview \in [DOMAIN seen.overview -> 0 .. MaxOpen]
  /\ run.step > 1 =>
       \A p \in DOMAIN open : Count(seen.overview, p) <= Count(seen.overview, run.selected)
  /\ run.step > 3 => Agreed(seen.list, seen.limit, run.openCount)

\* The inductive invariant.
CompositionInv == RunShape(run) /\ OperationInv /\ WorldInv /\ SeenInv

\* A run's status says how far it is.
LEMMA MissionStatuses ==
  ASSUME NEW r, RunShape(r)
  PROVE  /\ r.status \in {"none", "running", "blocked", "failed", "approval_pending"}
         /\ r.step \in 0 .. 5
         /\ r.status = "running" => InProgress(r)
         /\ r.status = "none" => NotStarted(r)
         /\ r.status = "approval_pending" => EndedPending(r)
BY DEF RunShape, NotStarted, InProgress, EndedBlocked, EndedFailed, EndedPending

\* Recording a step leaves the earlier records as they are.
LEMMA AppendStep ==
  ASSUME NEW steps \in Seq(StepRecords), NEW x \in StepRecords, NEW k \in 1 .. 5,
         Len(steps) = k - 1, Succeeded(steps, k - 1)
  PROVE  /\ Append(steps, x) \in Seq(StepRecords) /\ Len(Append(steps, x)) = k
         /\ Append(steps, x)[k] = x /\ Succeeded(Append(steps, x), k - 1)
<1>1. /\ Append(steps, x) \in Seq(StepRecords) /\ Len(Append(steps, x)) = Len(steps) + 1
      /\ \A i \in 1 .. Len(steps) : Append(steps, x)[i] = steps[i]
      /\ Append(steps, x)[Len(steps) + 1] = x
  BY AppendProperties
<1>2. Len(steps) + 1 = k
  OBVIOUS
<1> QED BY <1>1, <1>2 DEF Succeeded

\* What recording a step changes.
LEMMA RecordedFields ==
  ASSUME DOMAIN run = RunFields, NEW outcome, NEW performed \in BOOLEAN, NEW q,
         q = Recorded(outcome, performed)
  PROVE  /\ DOMAIN q = RunFields
         /\ q.status = run.status /\ q.step = run.step /\ q.results = run.results
         /\ q.steps = Append(run.steps, [status |-> outcome, performed |-> performed])
         /\ q.processed = run.processed + 1
         /\ q.executed = IF performed THEN run.executed + 1 ELSE run.executed
         /\ q.counted = run.counted /\ q.selected = run.selected /\ q.openCount = run.openCount
BY DEF Recorded, RunFields

\* What a run may end with, at which step.
MayEnd(outcome, performed, final, step) ==
  \/ outcome = "failed" /\ final = "failed" /\ performed = TRUE /\ step < 5
  \/ outcome = "failed" /\ final = "failed" /\ performed = FALSE
  \/ outcome = "blocked" /\ final = "blocked" /\ performed = FALSE
  \/ outcome = "pending" /\ final = "approval_pending" /\ performed = FALSE /\ step = 5

\* The run that ends with a record of its step.
EndedRun(outcome, performed, final) ==
  [Recorded(outcome, performed) EXCEPT !.status = final]

\* Ending a run at the step it is at.
LEMMA EndAtStep ==
  ASSUME RunShape(run), InProgress(run), NEW outcome, NEW performed \in BOOLEAN, NEW final,
         NEW r, r = EndedRun(outcome, performed, final),
         MayEnd(outcome, performed, final, run.step)
  PROVE  /\ RunShape(r)
         /\ r.status = final /\ r.step = run.step
         /\ r.counted = run.counted /\ r.selected = run.selected /\ r.openCount = run.openCount
<1> DEFINE x == [status |-> outcome, performed |-> performed]
<1>1. x \in StepRecords /\ x.status = outcome /\ x.performed = performed
  BY DEF StepRecords, MayEnd
<1> HIDE DEF x
<1>2. /\ DOMAIN r = RunFields
      /\ r.status = final /\ r.step = run.step
      /\ r.steps = Append(run.steps, x)
      /\ r.processed = run.processed + 1
      /\ r.executed = IF performed THEN run.executed + 1 ELSE run.executed
      /\ r.counted = run.counted /\ r.selected = run.selected /\ r.openCount = run.openCount
  <2> DEFINE q == Recorded(outcome, performed)
  <2>1. /\ DOMAIN q = RunFields
        /\ q.step = run.step
        /\ q.steps = Append(run.steps, x)
        /\ q.processed = run.processed + 1
        /\ q.executed = IF performed THEN run.executed + 1 ELSE run.executed
        /\ q.counted = run.counted /\ q.selected = run.selected /\ q.openCount = run.openCount
    BY RecordedFields DEF RunShape, x
  <2> HIDE DEF q
  <2>2. r = [q EXCEPT !.status = final]
    BY DEF q, EndedRun
  <2> QED BY <2>1, <2>2 DEF RunFields
<1>3. /\ run.steps \in Seq(StepRecords) /\ run.processed = Len(run.steps)
      /\ run.step \in 1 .. 5 /\ Len(run.steps) = run.step - 1 /\ run.executed = run.step - 1
      /\ Succeeded(run.steps, run.step - 1)
  BY DEF RunShape, InProgress
<1>4. /\ r.steps \in Seq(StepRecords) /\ Len(r.steps) = run.step
      /\ r.steps[run.step] = x /\ Succeeded(r.steps, run.step - 1)
  <2>1. r.steps = Append(run.steps, x) /\ x \in StepRecords
    BY <1>1, <1>2
  <2> QED BY ONLY <1>3, <2>1, AppendStep
<1>5. EndedFailed(r) \/ EndedBlocked(r) \/ EndedPending(r)
  <2>1. CASE outcome = "failed" /\ final = "failed" /\ performed = TRUE /\ run.step < 5
    <3>1. r.executed = run.executed + 1
      BY ONLY <1>2, <2>1
    <3>3. r.executed = run.step
      BY ONLY <1>3, <3>1
    <3>2. r.steps[r.step].performed = TRUE /\ r.steps[r.step].status = "failed"
      BY <1>1, <1>2, <1>4, <2>1
    <3> QED BY <1>2, <1>3, <1>4, <2>1, <3>3, <3>2 DEF EndedFailed
  <2>2. CASE outcome = "failed" /\ final = "failed" /\ performed = FALSE
    BY <1>1, <1>2, <1>3, <1>4, <2>2 DEF EndedFailed
  <2>3. CASE outcome = "blocked" /\ final = "blocked" /\ performed = FALSE
    BY <1>1, <1>2, <1>3, <1>4, <2>3 DEF EndedBlocked
  <2>4. CASE outcome = "pending" /\ final = "approval_pending" /\ performed = FALSE /\ run.step = 5
    BY <1>1, <1>2, <1>3, <1>4, <2>4 DEF EndedPending
  <2> QED BY <2>1, <2>2, <2>3, <2>4 DEF MayEnd
<1>6. r.processed = Len(r.steps)
  BY <1>2, <1>3, <1>4
<1> QED BY <1>2, <1>4, <1>5, <1>6 DEF RunShape

\* Going on with the next step.
LEMMA GoOn ==
  ASSUME RunShape(run), InProgress(run), run.step < 5,
         NEW r, DOMAIN r = RunFields, r.status = "running", r.step = run.step + 1,
         r.steps = Append(run.steps, [status |-> "succeeded", performed |-> TRUE]),
         r.processed = run.processed + 1, r.executed = run.executed + 1
  PROVE  RunShape(r)
<1> DEFINE x == [status |-> "succeeded", performed |-> TRUE]
<1>1. x \in StepRecords /\ x.status = "succeeded" /\ x.performed = TRUE
  BY DEF StepRecords
<1>2. r.steps = Append(run.steps, x)
  OBVIOUS
<1> HIDE DEF x
<1>3. /\ run.steps \in Seq(StepRecords) /\ run.processed = Len(run.steps)
      /\ run.step \in 1 .. 5 /\ Len(run.steps) = run.step - 1 /\ run.executed = run.step - 1
      /\ Succeeded(run.steps, run.step - 1)
  BY DEF RunShape, InProgress
<1>4. /\ r.steps \in Seq(StepRecords) /\ Len(r.steps) = run.step
      /\ r.steps[run.step] = x /\ Succeeded(r.steps, run.step - 1)
  BY <1>1, <1>2, <1>3, AppendStep
<1>5. Succeeded(r.steps, run.step)
  BY <1>1, <1>3, <1>4 DEF Succeeded
<1>6. InProgress(r)
  BY <1>3, <1>4, <1>5 DEF InProgress
<1> QED BY <1>3, <1>4, <1>6 DEF RunShape

----------------------------------------------------------------------------
(* It is inductive.                                                        *)

\* Before a mission is proposed the invariant holds.
LEMMA CompositionInitial == CompositionInit => CompositionInv
<1> SUFFICES ASSUME CompositionInit PROVE CompositionInv
  OBVIOUS
<1>1. RunShape(run)
  <2>1. DOMAIN run = RunFields
    BY DEF CompositionInit, Idle, RunFields
  <2>2. run.steps = << >> /\ run.processed = 0 /\ run.executed = 0 /\ run.status = "none"
        /\ run.step = 0 /\ run.counted = << >>
    BY DEF CompositionInit, Idle
  <2>3. << >> \in Seq(StepRecords) /\ Len(<< >>) = 0
    OBVIOUS
  <2> QED BY <2>1, <2>2, <2>3 DEF RunShape, NotStarted
<1>2. OperationInv
  BY DEF CompositionInit, OperationInv, Idle, Queue!Init, OpStatuses
<1>3. WorldInv
  BY CompositionAssumption, RegistryAssumption DEF CompositionInit, WorldInv
<1>4. SeenInv
  BY DEF CompositionInit, SeenInv, Idle
<1> QED BY <1>1, <1>2, <1>3, <1>4 DEF CompositionInv

\* Each tool is at one step.
LEMMA StepOfTool ==
  ASSUME NEW i \in 1 .. 5
  PROVE  /\ BaselineToolOrder[i] = "projects.overview" => i = 1
         /\ BaselineToolOrder[i] = "tasks.status_summary" => i = 2
         /\ BaselineToolOrder[i] = "tasks.list" => i = 3
         /\ BaselineToolOrder[i] = "memory.search" => i = 4
         /\ BaselineToolOrder[i] = "tasks.create" => i = 5
<1>1. i = 1 \/ i = 2 \/ i = 3 \/ i = 4 \/ i = 5
  OBVIOUS
<1> QED BY <1>1, ToolOfStep

\* A step that is not blocked is the planned one, with the planned tool.
LEMMA ReadyStep ==
  ASSUME CompositionInv, Running, ~StepBlocked
  PROVE  /\ RunShape(run) /\ InProgress(run) /\ run.step \in 1 .. 5
         /\ Len(plan) = 5
         /\ Proposed.tool = BaselineToolOrder[run.step]
         /\ BaselineToolOrder[run.step] \in DOMAIN tools
         /\ Bound = tools[BaselineToolOrder[run.step]]
         /\ DOMAIN Proposed.bindings \subseteq DOMAIN Bound.properties
         /\ ArgumentsAreValid
<1>1. RunShape(run) /\ InProgress(run)
  BY MissionStatuses DEF CompositionInv, Running
<1>2. run.step \in 1 .. 5
  BY <1>1 DEF InProgress
<1>3. RegistryMatches([proposal |-> Proposals[mission], facts |-> plan], tools) /\ ArgumentsAreValid
  BY DEF StepBlocked, Plan
<1>4. /\ Len(plan) = 5
      /\ \A i \in 1 .. 5 :
           /\ Proposals[mission].steps[i].tool = BaselineToolOrder[i]
           /\ BaselineToolOrder[i] \in DOMAIN tools
           /\ plan[i] = tools[BaselineToolOrder[i]]
           /\ DOMAIN Proposals[mission].steps[i].bindings \subseteq DOMAIN plan[i].properties
  BY <1>3, PlannedStep
<1>5. Proposed = Proposals[mission].steps[run.step] /\ Bound = plan[run.step]
  BY DEF Proposed, Plan, Bound
<1> QED BY <1>1, <1>2, <1>3, <1>4, <1>5

\* A run that ends leaves everything else as it is.
LEMMA RunEnds ==
  ASSUME CompositionInv, Running, RunShape(run'), run'.status \in {"blocked", "failed"},
         run'.step = run.step, run'.counted = run.counted, run'.selected = run.selected,
         run'.openCount = run.openCount,
         UNCHANGED <<worldVars, tools, planVars, operationVars, seen>>
  PROVE  CompositionInv'
<1>1. OperationInv'
  BY DEF CompositionInv, OperationInv, Running, operationVars, planVars
<1>2. WorldInv'
  BY DEF CompositionInv, WorldInv, worldVars
<1>3. SeenInv'
  BY DEF CompositionInv, SeenInv, worldVars
<1> QED BY <1>1, <1>2, <1>3 DEF CompositionInv

\* A run that fails at its step, having read or not.
LEMMA FailsAtStep ==
  ASSUME CompositionInv, Running, NEW performed \in BOOLEAN, performed => run.step < 5,
         run' = [Recorded("failed", performed) EXCEPT !.status = "failed"]
  PROVE  /\ RunShape(run') /\ run'.status = "failed" /\ run'.step = run.step
         /\ run'.counted = run.counted /\ run'.selected = run.selected
         /\ run'.openCount = run.openCount
<1>1. RunShape(run) /\ InProgress(run)
  BY MissionStatuses DEF CompositionInv, Running
<1> DEFINE r == run'
<1>2. r = EndedRun("failed", performed, "failed")
  BY DEF EndedRun
<1> HIDE DEF r
<1>3. /\ RunShape(r) /\ r.status = "failed" /\ r.step = run.step
      /\ r.counted = run.counted /\ r.selected = run.selected /\ r.openCount = run.openCount
  <2>1. MayEnd("failed", performed, "failed", run.step)
    BY DEF MayEnd
  <2> QED BY ONLY <1>1, <1>2, <2>1, EndAtStep, performed \in BOOLEAN
<1> QED BY <1>3 DEF r

\* The run whose tool was read and contradicted an earlier one.
FailedReading == EndedRun("failed", TRUE, "failed")

\* Such a run has one more record, and is failed.
LEMMA FailsAfterReading ==
  ASSUME CompositionInv, Running, run.step < 5,
         run' = FailedReading
  PROVE  /\ RunShape(run') /\ run'.status = "failed" /\ run'.step = run.step
         /\ run'.counted = run.counted /\ run'.selected = run.selected
         /\ run'.openCount = run.openCount
<1>1. PICK b \in BOOLEAN : b = TRUE
  OBVIOUS
<1>2. run' = [Recorded("failed", b) EXCEPT !.status = "failed"]
  BY <1>1 DEF FailedReading, EndedRun
<1> QED BY <1>2, FailsAtStep

\* Tasks opened and closed, projects created, tools deployed or taken away and
\* plans proposed or bound meanwhile do not disturb it: a run keeps what it
\* counted, and the operation keeps the version it was frozen at.
LEMMA OthersMove ==
  ASSUME CompositionInv,
         \/ \E p \in DOMAIN open : OpenTask(p) \/ CloseTask(p)
         \/ \E p \in ProjectNames : CreateProject(p)
         \/ \E t \in DOMAIN Releases : Unregister(t) \/ \E d \in Releases[t] : Deploy(t, d)
         \/ \E m \in DOMAIN Proposals : ProposeMission(m)
         \/ BindMission
  PROVE  CompositionInv'
<1> USE CompositionAssumption
<1>0. run.step \in 0 .. 5
  BY MissionStatuses DEF CompositionInv
<1>1. ASSUME NEW p \in DOMAIN open, OpenTask(p) \/ CloseTask(p) PROVE CompositionInv'
  <2>1. /\ UNCHANGED <<tools, planVars, run, operationVars, seen>>
        /\ open' = [open EXCEPT ![p] = open'[p]] /\ open'[p] \in 0 .. MaxOpen
    BY <1>1 DEF OpenTask, CloseTask, CompositionInv, WorldInv
  <2>2. WorldInv' /\ DOMAIN open' = DOMAIN open
    BY <2>1 DEF CompositionInv, WorldInv
  <2>3. SeenInv'
    BY <2>1, <2>2 DEF CompositionInv, SeenInv
  <2>4. OperationInv'
    BY <2>1 DEF CompositionInv, OperationInv, operationVars, planVars
  <2> QED BY <2>1, <2>2, <2>3, <2>4 DEF CompositionInv
<1>2. ASSUME NEW p \in ProjectNames, CreateProject(p) PROVE CompositionInv'
  <2>1. /\ UNCHANGED <<tools, planVars, run, operationVars, seen>>
        /\ p \notin DOMAIN open /\ open' = Put(open, p, 0)
    BY <1>2 DEF CreateProject
  <2>2. WorldInv' /\ DOMAIN open' = DOMAIN open \cup {p}
    BY <2>1 DEF CompositionInv, WorldInv, Put
  <2>3. SeenInv'
    <3>1. /\ DOMAIN seen = {"overview", "list", "limit", "ran"} /\ run.counted = seen.overview
          /\ seen.overview \in [DOMAIN seen.overview -> 0 .. MaxOpen]
          /\ DOMAIN seen.overview \subseteq DOMAIN open
      BY DEF CompositionInv, SeenInv
    <3>2. /\ Count(seen.overview, p) = 0 /\ Count(seen.overview, run.selected) \in Nat
      BY <2>1, <3>1 DEF Count
    <3>3. run.step > 1 => \A q \in DOMAIN open' :
                            Count(seen.overview, q) <= Count(seen.overview, run.selected)
      BY <2>2, <3>2 DEF CompositionInv, SeenInv
    <3> QED BY <2>1, <2>2, <3>1, <3>3 DEF CompositionInv, SeenInv
  <2>4. OperationInv'
    BY <2>1 DEF CompositionInv, OperationInv, operationVars, planVars
  <2> QED BY <2>1, <2>2, <2>3, <2>4 DEF CompositionInv
<1>3. ASSUME NEW t \in DOMAIN Releases, Unregister(t) \/ \E d \in Releases[t] : Deploy(t, d)
      PROVE  CompositionInv'
  <2>1. UNCHANGED <<worldVars, planVars, run, operationVars, seen>>
    BY <1>3 DEF Unregister, Deploy
  <2>2. "tasks.list" \in DOMAIN tools' => ListSchema(tools'["tasks.list"])
    BY <1>3, RegistryAssumption DEF Unregister, Deploy, Put, CompositionInv, WorldInv
  <2>3. WorldInv'
    BY <2>1, <2>2 DEF CompositionInv, WorldInv, worldVars
  <2>4. OperationInv'
    BY <2>1 DEF CompositionInv, OperationInv, operationVars, planVars
  <2>5. SeenInv'
    BY <2>1 DEF CompositionInv, SeenInv, worldVars
  <2> QED BY <2>1, <2>3, <2>4, <2>5 DEF CompositionInv
<1>4. ASSUME NEW m \in DOMAIN Proposals, ProposeMission(m) PROVE CompositionInv'
  BY <1>4 DEF ProposeMission, CompositionInv, OperationInv, WorldInv, SeenInv, operationVars, worldVars
<1>5. CASE BindMission
  <2>1. plan = NoPlan /\ UNCHANGED <<worldVars, tools, run, operationVars, seen>>
    BY <1>5 DEF BindMission
  <2>2. run.status = "none" /\ operation = NoCall
    BY <2>1 DEF CompositionInv, OperationInv
  <2>3. OperationInv'
    BY <2>1, <2>2 DEF CompositionInv, OperationInv, operationVars
  <2> QED BY <2>1, <2>3 DEF CompositionInv, WorldInv, SeenInv, worldVars
<1> QED BY <1>1, <1>2, <1>3, <1>4, <1>5

\* A read that went well: the step it was at is recorded, the next one is due.
Onward(q, result) == [q EXCEPT !.results = Put(@, Proposed.id, result), !.step = @ + 1]

\* The next step is due after a read, and nothing of the choice is lost.
LEMMA ReadsOn ==
  ASSUME RunShape(run), InProgress(run), run.step < 5,
         NEW q, DOMAIN q = RunFields, q.status = run.status, q.step = run.step,
         q.steps = Append(run.steps, [status |-> "succeeded", performed |-> TRUE]),
         q.processed = run.processed + 1, q.executed = run.executed + 1,
         NEW result, NEW r, r = Onward(q, result)
  PROVE  /\ RunShape(r) /\ r.status = "running" /\ r.step = run.step + 1
         /\ r.counted = q.counted /\ r.selected = q.selected /\ r.openCount = q.openCount
<1>1. /\ DOMAIN r = RunFields /\ r.status = q.status /\ r.step = q.step + 1
      /\ r.steps = q.steps /\ r.processed = q.processed /\ r.executed = q.executed
      /\ r.counted = q.counted /\ r.selected = q.selected /\ r.openCount = q.openCount
  BY DEF Onward, RunFields
<1>2. run.status = "running" /\ run.step \in 1 .. 5
  BY DEF InProgress
<1>3. RunShape(r)
  BY <1>1, <1>2, GoOn
<1> QED BY <1>1, <1>2, <1>3

\* The fields of a run whose step was read.
LEMMA ReadFields ==
  ASSUME DOMAIN run = RunFields, NEW q, q = Recorded("succeeded", TRUE)
  PROVE  /\ DOMAIN q = RunFields /\ q.status = run.status /\ q.step = run.step
         /\ q.steps = Append(run.steps, [status |-> "succeeded", performed |-> TRUE])
         /\ q.processed = run.processed + 1 /\ q.executed = run.executed + 1
         /\ q.counted = run.counted /\ q.selected = run.selected /\ q.openCount = run.openCount
BY DEF Recorded, RunFields

\* A run blocked by a changed registry or by arguments that do not validate.
LEMMA BlockPreserves ==
  ASSUME CompositionInv, BlockMission
  PROVE  CompositionInv'
<1>1. RunShape(run) /\ InProgress(run)
  BY MissionStatuses DEF CompositionInv, Running, BlockMission
<1> DEFINE r == run'
<1>2. r = EndedRun("blocked", FALSE, "blocked") \/ r = [run EXCEPT !.status = "blocked"]
  BY DEF BlockMission, EndedRun
<1> HIDE DEF r
<1>3. /\ RunShape(r) /\ r.status = "blocked" /\ r.step = run.step
      /\ r.counted = run.counted /\ r.selected = run.selected /\ r.openCount = run.openCount
  <2>1. CASE r = EndedRun("blocked", FALSE, "blocked")
    <3>1. MayEnd("blocked", FALSE, "blocked", run.step)
      BY DEF MayEnd
    <3>2. PICK b \in BOOLEAN : b = FALSE
      OBVIOUS
    <3>3. r = EndedRun("blocked", b, "blocked") /\ MayEnd("blocked", b, "blocked", run.step)
      BY <2>1, <3>1, <3>2
    <3> QED BY ONLY <1>1, <3>3, EndAtStep, b \in BOOLEAN
  <2>2. CASE r = [run EXCEPT !.status = "blocked"]
    <3>1. /\ DOMAIN r = RunFields /\ r.status = "blocked" /\ r.step = run.step
          /\ r.steps = run.steps /\ r.processed = run.processed /\ r.executed = run.executed
          /\ r.counted = run.counted /\ r.selected = run.selected /\ r.openCount = run.openCount
      BY <1>1, <2>2 DEF RunShape, RunFields
    <3>2. EndedBlocked(r)
      BY <1>1, <3>1 DEF InProgress, EndedBlocked
    <3> QED BY <1>1, <3>1, <3>2 DEF RunShape
  <2> QED BY <1>2, <2>1, <2>2
<1> QED BY <1>3, RunEnds DEF BlockMission, r

\* A read tool that raises.
LEMMA ReadFailsPreserves ==
  ASSUME CompositionInv, ReadFails
  PROVE  CompositionInv'
<1>1. Running /\ ~StepBlocked /\ run' = [Recorded("failed", FALSE) EXCEPT !.status = "failed"]
  BY DEF ReadFails
<1>2. /\ RunShape(run') /\ run'.status = "failed" /\ run'.step = run.step
      /\ run'.counted = run.counted /\ run'.selected = run.selected
      /\ run'.openCount = run.openCount
  BY <1>1, FailsAtStep
<1> QED BY <1>1, <1>2, RunEnds DEF ReadFails

\* A write whose operation cannot be stored.
LEMMA FreezeFailsPreserves ==
  ASSUME CompositionInv, FreezeFails
  PROVE  CompositionInv'
<1>1. Running /\ ~StepBlocked /\ run' = [Recorded("failed", FALSE) EXCEPT !.status = "failed"]
  BY DEF FreezeFails, Ready
<1>2. /\ RunShape(run') /\ run'.status = "failed" /\ run'.step = run.step
      /\ run'.counted = run.counted /\ run'.selected = run.selected
      /\ run'.openCount = run.openCount
  BY <1>1, FailsAtStep
<1> QED BY <1>1, <1>2, RunEnds DEF FreezeFails

\* The queries of projects.overview, one project's open tasks after another's.
LEMMA CountPreserves ==
  ASSUME CompositionInv, CountTasks
  PROVE  CompositionInv'
<1>1. /\ RunShape(run) /\ InProgress(run) /\ run.step = 1
  BY ReadyStep, StepOfTool DEF CountTasks, Ready
<1>2. /\ run' = [run EXCEPT !.counted = open] /\ seen' = [seen EXCEPT !.overview = open]
      /\ UNCHANGED <<worldVars, tools, planVars, operationVars>>
  BY DEF CountTasks
<1> DEFINE r == run'
<1>3. /\ DOMAIN r = RunFields /\ r.status = run.status /\ r.step = run.step
      /\ r.steps = run.steps /\ r.processed = run.processed /\ r.executed = run.executed
      /\ r.counted = open
  BY <1>1, <1>2 DEF RunShape, RunFields
<1>4. DOMAIN seen' = DOMAIN seen /\ seen'.overview = open /\ seen'.ran = seen.ran
  BY <1>2 DEF CompositionInv, SeenInv
<1> HIDE DEF r
<1>5. RunShape(r)
  BY <1>1, <1>3 DEF RunShape, InProgress
<1>6. OperationInv'
  BY <1>2, <1>3, <1>4 DEF CompositionInv, OperationInv, operationVars, planVars, r
<1>7. WorldInv'
  BY <1>2 DEF CompositionInv, WorldInv, worldVars
<1>8. SeenInv'
  BY <1>1, <1>2, <1>3, <1>4 DEF CompositionInv, SeenInv, WorldInv, worldVars, r
<1> QED BY <1>5, <1>6, <1>7, <1>8 DEF CompositionInv, r

\* A consistent read moves on; what it leaves to show is the choice made.
LEMMA ReadPreserves ==
  ASSUME CompositionInv, Running, RunShape(run'), run'.status \in {"running", "failed"},
         run'.counted = run.counted,
         UNCHANGED <<worldVars, tools, planVars, operationVars>>,
         DOMAIN seen' = DOMAIN seen, seen'.overview = seen.overview, seen'.ran = seen.ran,
         run'.step > 1 =>
           \A p \in DOMAIN open : Count(seen.overview, p) <= Count(seen.overview, run'.selected),
         run'.step > 3 => Agreed(seen'.list, seen'.limit, run'.openCount)
  PROVE  CompositionInv'
<1>1. OperationInv'
  BY DEF CompositionInv, OperationInv, operationVars, planVars, Running
<1>2. WorldInv'
  BY DEF CompositionInv, WorldInv, worldVars
<1>3. SeenInv'
  BY DEF CompositionInv, SeenInv, worldVars
<1> QED BY <1>1, <1>2, <1>3 DEF CompositionInv

\* run_composition_mission starts at the first step with nothing counted.
LEMMA StartPreserves ==
  ASSUME CompositionInv, StartMission
  PROVE  CompositionInv'
<1>1. /\ run.status = "none" /\ plan # NoPlan /\ run' = [Idle EXCEPT !.status = "running", !.step = 1]
      /\ UNCHANGED <<worldVars, tools, planVars, operationVars, seen>>
  BY DEF StartMission
<1>2. NotStarted(run)
  BY <1>1, MissionStatuses DEF CompositionInv
<1> DEFINE r == run'
<1>3. /\ DOMAIN r = RunFields /\ r.status = "running" /\ r.step = 1 /\ r.steps = << >>
      /\ r.processed = 0 /\ r.executed = 0 /\ r.counted = << >>
  BY <1>1 DEF Idle, RunFields
<1> HIDE DEF r
<1>4. RunShape(r)
  <2>1. << >> \in Seq(StepRecords) /\ Len(<< >>) = 0
    OBVIOUS
  <2>2. InProgress(r)
    BY <1>3, <2>1 DEF InProgress, Succeeded
  <2> QED BY <1>3, <2>1, <2>2 DEF RunShape
<1>5. OperationInv'
  BY <1>1, <1>3 DEF CompositionInv, OperationInv, operationVars, planVars, r
<1>6. WorldInv'
  BY <1>1 DEF CompositionInv, WorldInv, worldVars
<1>7. SeenInv'
  BY <1>1, <1>2, <1>3 DEF CompositionInv, SeenInv, NotStarted, worldVars, r
<1> QED BY <1>4, <1>5, <1>6, <1>7 DEF CompositionInv, r

\* projects.overview has returned: the project selected is one nobody beats.
LEMMA OverviewPreserves ==
  ASSUME CompositionInv, ReadOverview
  PROVE  CompositionInv'
<1>1. /\ Running /\ RunShape(run) /\ InProgress(run) /\ run.step = 1
      /\ run.counted # << >> /\ UNCHANGED <<worldVars, tools, planVars, operationVars, seen>>
  BY ReadyStep, StepOfTool DEF ReadOverview, Ready
<1>2. /\ run.counted = seen.overview /\ DOMAIN run.counted \subseteq DOMAIN open
      /\ run.counted \in [DOMAIN run.counted -> 0 .. MaxOpen]
      /\ DOMAIN open \subseteq Nat
  BY CompositionAssumption DEF CompositionInv, SeenInv, WorldInv
<1> DEFINE selected == SelectProject(OverviewEntries)
<1>3. \A p \in DOMAIN open : Count(run.counted, p) <= Count(run.counted, selected)
  <2>1. DOMAIN open # {}
    <3>1. DOMAIN run.counted # {}
      <4> SUFFICES ASSUME DOMAIN run.counted = {} PROVE FALSE
        OBVIOUS
      <4>1. run.counted \in [1 .. 0 -> {}]
        BY <1>2
      <4>2. run.counted \in Seq({})
        BY <4>1, SeqDef
      <4>3. Len(run.counted) = 0
        BY <4>1, <4>2
      <4> QED BY <1>1, <4>2, <4>3, EmptySeq
    <3> QED BY <1>2, <3>1
  <2>2. MaxOpen \in Nat /\ \A p \in DOMAIN open : Count(run.counted, p) \in 0 .. MaxOpen
    BY <1>2, CompositionAssumption DEF Count
  <2>3. OverviewEntries = {[name |-> p, open |-> Count(run.counted, p)] : p \in DOMAIN open}
    BY DEF OverviewEntries, Count
  <2> QED BY <1>2, <2>1, <2>2, <2>3, SelectedIsGreatest
<1> DEFINE q == [Recorded("succeeded", TRUE) EXCEPT !.selected = selected]
<1>4. \/ run' = Onward(q, [projects |-> OverviewEntries])
      \/ run' = FailedReading
  BY DEF ReadOverview, ReadDone, Onward, FailedReading, EndedRun
<1>5. /\ DOMAIN q = RunFields /\ q.status = run.status /\ q.step = run.step
      /\ q.steps = Append(run.steps, [status |-> "succeeded", performed |-> TRUE])
      /\ q.processed = run.processed + 1 /\ q.executed = run.executed + 1
      /\ q.counted = run.counted /\ q.selected = selected
  <2> DEFINE b == Recorded("succeeded", TRUE)
  <2>1. /\ DOMAIN b = RunFields /\ b.status = run.status /\ b.step = run.step
        /\ b.steps = Append(run.steps, [status |-> "succeeded", performed |-> TRUE])
        /\ b.processed = run.processed + 1 /\ b.executed = run.executed + 1
        /\ b.counted = run.counted
    BY <1>1, ReadFields DEF RunShape
  <2>2. q = [b EXCEPT !.selected = selected]
    OBVIOUS
  <2> HIDE DEF b, q, selected
  <2> QED BY <2>1, <2>2 DEF RunFields
<1> HIDE DEF q, selected
<1>6. CASE run' = Onward(q, [projects |-> OverviewEntries])
  <2> DEFINE r == run'
             result == [projects |-> OverviewEntries]
  <2>1. r = Onward(q, result)
    BY <1>6
  <2> HIDE DEF r, result
  <2>2. /\ RunShape(r) /\ r.status = "running" /\ r.step = run.step + 1
        /\ r.counted = q.counted /\ r.selected = q.selected
    BY <1>1, <1>5, <2>1, ReadsOn
  <2>3. ~(r.step > 3)
    BY <1>1, <2>2
  <2>4. \A p \in DOMAIN open : Count(seen.overview, p) <= Count(seen.overview, r.selected)
    BY <1>2, <1>3, <1>5, <2>2
  <2> QED BY <1>1, <1>5, <2>2, <2>3, <2>4, ReadPreserves DEF r
<1>7. CASE run' = FailedReading
  BY <1>1, <1>7, FailsAfterReading, RunEnds
<1> QED BY <1>4, <1>6, <1>7

\* tasks.status_summary: the open count is the run's from here on.
LEMMA SummaryPreserves ==
  ASSUME CompositionInv, ReadStatusSummary
  PROVE  CompositionInv'
<1>1. /\ Running /\ RunShape(run) /\ InProgress(run) /\ run.step = 2
      /\ UNCHANGED <<worldVars, tools, planVars, operationVars, seen>>
  BY ReadyStep, StepOfTool DEF ReadStatusSummary, Ready
<1> DEFINE openCount == open[ProjectArgument]
           q == [Recorded("succeeded", TRUE) EXCEPT !.openCount = openCount]
           result == [open |-> openCount]
<1>2. \/ run' = Onward(q, result)
      \/ run' = FailedReading
  BY DEF ReadStatusSummary, ReadDone, Onward, FailedReading, EndedRun
<1>3. /\ DOMAIN q = RunFields /\ q.status = run.status /\ q.step = run.step
      /\ q.steps = Append(run.steps, [status |-> "succeeded", performed |-> TRUE])
      /\ q.processed = run.processed + 1 /\ q.executed = run.executed + 1
      /\ q.counted = run.counted /\ q.selected = run.selected
  <2> DEFINE b == Recorded("succeeded", TRUE)
  <2>1. /\ DOMAIN b = RunFields /\ b.status = run.status /\ b.step = run.step
        /\ b.steps = Append(run.steps, [status |-> "succeeded", performed |-> TRUE])
        /\ b.processed = run.processed + 1 /\ b.executed = run.executed + 1
        /\ b.counted = run.counted /\ b.selected = run.selected
    BY <1>1, ReadFields DEF RunShape
  <2>2. q = [b EXCEPT !.openCount = openCount]
    OBVIOUS
  <2> HIDE DEF b, q, openCount
  <2> QED BY <2>1, <2>2 DEF RunFields
<1> HIDE DEF q, result, openCount
<1>4. CASE run' = Onward(q, result)
  <2> DEFINE r == run'
  <2>1. r = Onward(q, result)
    BY <1>4
  <2> HIDE DEF r
  <2>2. /\ RunShape(r) /\ r.status = "running" /\ r.step = run.step + 1
        /\ r.counted = q.counted /\ r.selected = q.selected
    BY <1>1, <1>3, <2>1, ReadsOn
  <2>3. ~(r.step > 3)
    BY <1>1, <2>2
  <2>4. \A p \in DOMAIN open : Count(seen.overview, p) <= Count(seen.overview, r.selected)
    BY <1>1, <1>3, <2>2 DEF CompositionInv, SeenInv
  <2> QED BY <1>1, <1>3, <2>2, <2>3, <2>4, ReadPreserves DEF r
<1>5. CASE run' = FailedReading
  BY <1>1, <1>5, FailsAfterReading, RunEnds
<1> QED BY <1>2, <1>4, <1>5

\* memory.search leaves the choice alone.
LEMMA SearchPreserves ==
  ASSUME CompositionInv, ReadMemorySearch
  PROVE  CompositionInv'
<1>1. /\ Running /\ RunShape(run) /\ InProgress(run) /\ run.step = 4
      /\ UNCHANGED <<worldVars, tools, planVars, operationVars, seen>>
  BY ReadyStep, StepOfTool DEF ReadMemorySearch, Ready
<1> DEFINE q == Recorded("succeeded", TRUE)
           result == [count |-> 0]
<1>2. \/ run' = Onward(q, result)
      \/ run' = FailedReading
  BY DEF ReadMemorySearch, ReadDone, Onward, FailedReading, EndedRun
<1>3. /\ DOMAIN q = RunFields /\ q.status = run.status /\ q.step = run.step
      /\ q.steps = Append(run.steps, [status |-> "succeeded", performed |-> TRUE])
      /\ q.processed = run.processed + 1 /\ q.executed = run.executed + 1
      /\ q.counted = run.counted /\ q.selected = run.selected /\ q.openCount = run.openCount
  BY <1>1, ReadFields DEF RunShape
<1> HIDE DEF q, result
<1>4. CASE run' = Onward(q, result)
  <2> DEFINE r == run'
  <2>1. r = Onward(q, result)
    BY <1>4
  <2> HIDE DEF r
  <2>2. /\ RunShape(r) /\ r.status = "running" /\ r.step = run.step + 1
        /\ r.counted = q.counted /\ r.selected = q.selected /\ r.openCount = q.openCount
    BY <1>1, <1>3, <2>1, ReadsOn
  <2>3. Agreed(seen.list, seen.limit, r.openCount)
    BY <1>1, <1>3, <2>2 DEF CompositionInv, SeenInv
  <2>4. \A p \in DOMAIN open : Count(seen.overview, p) <= Count(seen.overview, r.selected)
    BY <1>1, <1>3, <2>2 DEF CompositionInv, SeenInv
  <2> QED BY <1>1, <1>3, <2>2, <2>3, <2>4, ReadPreserves DEF r
<1>5. CASE run' = FailedReading
  BY <1>1, <1>5, FailsAfterReading, RunEnds
<1> QED BY <1>2, <1>4, <1>5

\* The limit of a list is a number: validate_arguments saw to it.
LEMMA LimitIsNatural ==
  ASSUME CompositionInv, Running, ~StepBlocked, run.step = 3
  PROVE  LimitArgument \in Nat
<1>1. /\ "tasks.list" \in DOMAIN tools /\ Bound = tools["tasks.list"] /\ ArgumentsAreValid
      /\ DOMAIN Proposed.bindings \subseteq DOMAIN Bound.properties
  BY ReadyStep, ToolOfStep
<1>2. ListSchema(Bound)
  BY <1>1 DEF CompositionInv, WorldInv
<1>3. CASE "limit" \in DOMAIN Proposed.bindings
  <2>1. LimitArgument = Argument(Proposed.bindings["limit"])
    BY <1>3 DEF LimitArgument, MaterializeArguments
  <2>2. Bound.properties["limit"] = "integer" /\ Bound.maximum \in Nat
    BY <1>1, <1>2, <1>3 DEF ListSchema
  <2>3. Argument(Proposed.bindings["limit"]) \in 1 .. Bound.maximum
    BY <1>1, <1>3, <2>2 DEF ArgumentsAreValid
  <2> QED BY <2>1, <2>2, <2>3
<1>4. CASE "limit" \notin DOMAIN Proposed.bindings
  BY <1>4, CompositionAssumption DEF LimitArgument, MaterializeArguments
<1> QED BY <1>3, <1>4

\* tasks.list: the list agrees with the open count, or the run fails.
LEMMA ListPreserves ==
  ASSUME CompositionInv, ReadTaskList
  PROVE  CompositionInv'
<1>1. /\ Running /\ ~StepBlocked /\ RunShape(run) /\ InProgress(run) /\ run.step = 3
      /\ UNCHANGED <<worldVars, tools, planVars, operationVars>>
  BY ReadyStep, StepOfTool DEF ReadTaskList, Ready
<1> DEFINE tasks == open[ProjectArgument]
           listed == Min({tasks, LimitArgument})
           result == [count |-> listed]
           q == Recorded("succeeded", TRUE)
<1>2. tasks \in Nat /\ LimitArgument \in Nat
  BY <1>1, LimitIsNatural, CompositionAssumption
     DEF ReadTaskList, ProjectExists, CompositionInv, WorldInv
<1>3. listed \in {tasks, LimitArgument} /\ listed <= tasks /\ listed <= LimitArgument
  BY <1>2, LeastOfNats
<1>4. \/ ListAgrees(listed) /\ run' = Onward(q, result)
      \/ run' = FailedReading
  BY DEF ReadTaskList, ReadDone, Onward, FailedReading, EndedRun
<1>5. seen' = [seen EXCEPT !.list = tasks, !.limit = LimitArgument]
  BY DEF ReadTaskList
<1>6. /\ DOMAIN seen' = DOMAIN seen /\ seen'.overview = seen.overview /\ seen'.ran = seen.ran
      /\ seen'.list = tasks /\ seen'.limit = LimitArgument
  <2> HIDE DEF tasks
  <2> QED BY <1>5 DEF CompositionInv, SeenInv
<1>7. /\ DOMAIN q = RunFields /\ q.status = run.status /\ q.step = run.step
      /\ q.steps = Append(run.steps, [status |-> "succeeded", performed |-> TRUE])
      /\ q.processed = run.processed + 1 /\ q.executed = run.executed + 1
      /\ q.counted = run.counted /\ q.selected = run.selected /\ q.openCount = run.openCount
  BY <1>1, ReadFields DEF RunShape
<1> HIDE DEF q, result, listed, tasks
<1>8. \A p \in DOMAIN open : Count(seen.overview, p) <= Count(seen.overview, run.selected)
  BY <1>1 DEF CompositionInv, SeenInv
<1>9. CASE ListAgrees(listed) /\ run' = Onward(q, result)
  <2> DEFINE r == run'
  <2>1. r = Onward(q, result)
    BY <1>9
  <2> HIDE DEF r
  <2>2. /\ RunShape(r) /\ r.status = "running" /\ r.step = run.step + 1
        /\ r.counted = q.counted /\ r.selected = q.selected /\ r.openCount = q.openCount
    BY <1>1, <1>7, <2>1, ReadsOn
  <2>3. Agreed(seen'.list, seen'.limit, r.openCount)
    BY <1>2, <1>3, <1>6, <1>7, <1>9, <2>2 DEF ListAgrees, Agreed
  <2> QED BY <1>1, <1>6, <1>7, <1>8, <2>2, <2>3, ReadPreserves DEF r
<1>10. CASE run' = FailedReading
  <2>1. /\ RunShape(run') /\ run'.status = "failed" /\ run'.step = run.step
        /\ run'.counted = run.counted /\ run'.selected = run.selected
    BY <1>1, <1>10, FailsAfterReading
  <2> QED BY <1>1, <1>6, <1>8, <2>1, ReadPreserves
<1> QED BY <1>4, <1>9, <1>10

\* The write is frozen as a pending operation at the planned version.
LEMMA FreezePreserves ==
  ASSUME CompositionInv, FreezeWrite
  PROVE  CompositionInv'
<1>1. /\ Running /\ RunShape(run) /\ InProgress(run) /\ run.step = 5 /\ Len(plan) = 5
      /\ Proposed.tool = Write
      /\ UNCHANGED <<worldVars, tools, planVars, seen>>
  BY ReadyStep, StepOfTool DEF FreezeWrite, Ready, Write
<1>2. /\ opStatus[Write] = "absent" /\ opStatus' = [opStatus EXCEPT ![Write] = "pending"]
      /\ UNCHANGED opWrites /\ operation' = FrozenCall
  BY DEF FreezeWrite, Queue!Move
<1>3. operation'.tool = Write /\ operation'.version = plan[5].version
  BY <1>1, <1>2 DEF FrozenCall, Bound
<1>4. operation' # NoCall
  BY <1>3 DEF NoCall, Write
<1> DEFINE r == run'
<1>5. r = EndedRun("pending", FALSE, "approval_pending")
  BY DEF FreezeWrite, EndedRun
<1> HIDE DEF r
<1>6. /\ RunShape(r) /\ r.status = "approval_pending" /\ r.step = run.step
      /\ r.counted = run.counted /\ r.selected = run.selected /\ r.openCount = run.openCount
  <2>1. PICK b \in BOOLEAN : b = FALSE
    OBVIOUS
  <2>2. /\ r = EndedRun("pending", b, "approval_pending")
        /\ MayEnd("pending", b, "approval_pending", run.step)
    BY <1>1, <1>5, <2>1 DEF MayEnd
  <2> QED BY ONLY <1>1, <2>2, EndAtStep, b \in BOOLEAN
<1>7. OperationInv'
  <2>1. opStatus' \in [{Write} -> OpStatuses] /\ opStatus'[Write] = "pending"
    BY <1>2 DEF CompositionInv, OperationInv, OpStatuses
  <2>2. opWrites' = opWrites /\ opWrites[Write] = 0
    BY <1>2 DEF CompositionInv, OperationInv
  <2>3. plan' = plan /\ plan # NoPlan
    BY <1>1 DEF CompositionInv, OperationInv, Running, planVars
  <2> QED BY <1>1, <1>3, <1>4, <1>6, <2>1, <2>2, <2>3 DEF CompositionInv, OperationInv, r
<1>8. WorldInv'
  BY <1>1 DEF CompositionInv, WorldInv, worldVars
<1>9. SeenInv'
  BY <1>1, <1>6 DEF CompositionInv, SeenInv, worldVars, r
<1> QED BY <1>6, <1>7, <1>8, <1>9 DEF CompositionInv, r

\* The reviewer decides and the operation runs: the tool writes only when its
\* registered version is still the frozen one.
LEMMA DecisionPreserves ==
  ASSUME CompositionInv,
         RejectOrExpire \/ ClaimWrite \/ ExecuteWrite \/ FailOperation \/ SucceedOperation
         \/ CreateReceipt
  PROVE  CompositionInv'
<1>1. ASSUME NEW from \in OpStatuses \ {"absent"}, NEW to \in OpStatuses \ {"absent"},
             Decide(from, to)
      PROVE  CompositionInv'
  BY <1>1 DEF Decide, Queue!Move, CompositionInv, OperationInv, WorldInv, SeenInv, worldVars, planVars
<1>2. CASE ExecuteWrite
  <2>1. /\ opStatus[Write] = "executing" /\ opWrites' = [opWrites EXCEPT ![Write] = 1]
        /\ seen' = [seen EXCEPT !.ran = tools[operation.tool]]
        /\ tools[operation.tool].version = operation.version
        /\ UNCHANGED <<opStatus, worldVars, tools, planVars, run, operation>>
    BY <1>2 DEF ExecuteWrite, Queue!Write, LiveToolMatches
  <2>2. /\ DOMAIN seen' = DOMAIN seen /\ seen'.overview = seen.overview
        /\ seen'.list = seen.list /\ seen'.limit = seen.limit
        /\ seen'.ran.version = operation.version
    BY <2>1 DEF CompositionInv, SeenInv
  <2>3. OperationInv'
    BY <2>1, <2>2 DEF CompositionInv, OperationInv, planVars
  <2>4. SeenInv'
    BY <2>1, <2>2 DEF CompositionInv, SeenInv, worldVars
  <2> QED BY <2>1, <2>3, <2>4 DEF CompositionInv, WorldInv, worldVars
<1>3. CASE SucceedOperation
  <2>1. Decide("executing", "succeeded")
    BY <1>3 DEF SucceedOperation, Queue!Succeed, Decide
  <2> QED BY <1>1, <2>1 DEF OpStatuses
<1>4. CASE RejectOrExpire \/ ClaimWrite \/ FailOperation
  BY <1>1, <1>4 DEF RejectOrExpire, ClaimWrite, FailOperation, OpStatuses
<1>5. CASE CreateReceipt
  BY <1>5 DEF CreateReceipt, CompositionInv, OperationInv, WorldInv, SeenInv, worldVars, planVars,
              operationVars
<1> QED BY <1>2, <1>3, <1>4, <1>5

\* Every step of the run and of everyone else preserves the invariant.
LEMMA CompositionInductive ==
  CompositionInv /\ [CompositionNext]_compositionVars => CompositionInv'
<1> SUFFICES ASSUME CompositionInv, [CompositionNext]_compositionVars PROVE CompositionInv'
  OBVIOUS
<1>1. CASE MissionStep
  BY <1>1, BlockPreserves, ReadFailsPreserves, CountPreserves, OverviewPreserves,
     SummaryPreserves, ListPreserves, SearchPreserves, FreezePreserves, FreezeFailsPreserves
     DEF MissionStep
<1>2. CASE UNCHANGED compositionVars
  BY <1>2 DEF compositionVars, CompositionInv, OperationInv, WorldInv, SeenInv
<1> QED BY <1>1, <1>2, OthersMove, StartPreserves, DecisionPreserves DEF CompositionNext

----------------------------------------------------------------------------
(* The theorems.                                                           *)

\* The tool that wrote is the version the mission was planned and frozen with,
\* however the registry was redeployed in between (run_composition_mission,
\* approve_operation).
THEOREM PlannedVersionWrites == CompositionSpec => []OnlyPlannedVersionWrites
<1>1. CompositionInv => OnlyPlannedVersionWrites
  BY DEF CompositionInv, OperationInv, OnlyPlannedVersionWrites
<1> QED BY <1>1, CompositionInitial, CompositionInductive, PTL DEF CompositionSpec

\* What a frozen write names was really seen: no project had more open tasks in
\* the overview than the selected one, and the list agrees with the count, while
\* others open and close tasks between the reads (run_composition_mission).
THEOREM FrozenWritesWereSeen == CompositionSpec => []FrozenWriteWasSeen
<1>1. CompositionInv => FrozenWriteWasSeen
  <2> SUFFICES ASSUME CompositionInv, operation # NoCall
               PROVE  /\ \A p \in DOMAIN open :
                           Count(seen.overview, p) <= Count(seen.overview, run.selected)
                      /\ Agreed(seen.list, seen.limit, run.openCount)
    BY DEF FrozenWriteWasSeen, Count, Agreed
  <2>1. run.step = 5
    BY MissionStatuses DEF CompositionInv, OperationInv, EndedPending
  <2> QED BY <2>1 DEF CompositionInv, SeenInv
<1> QED BY <1>1, CompositionInitial, CompositionInductive, PTL DEF CompositionSpec

\* The first k steps were performed and no other.
FirstPerformed(steps, k) ==
  /\ k <= Len(steps)
  /\ \A i \in 1 .. k : steps[i].performed = TRUE
  /\ \A i \in 1 .. Len(steps) : i > k => steps[i].performed = FALSE

\* How many steps performed something, when the first k did and no other.
LEMMA PerformedSteps ==
  ASSUME NEW steps \in Seq(StepRecords), NEW k \in Nat, FirstPerformed(steps, k)
  PROVE  Cardinality({i \in DOMAIN steps : steps[i].performed}) = k
<1>1. DOMAIN steps = 1 .. Len(steps) /\ Len(steps) \in Nat
  OBVIOUS
<1>2. {i \in DOMAIN steps : steps[i].performed} = 1 .. k
  <2>1. ASSUME NEW i \in DOMAIN steps, steps[i].performed PROVE i \in 1 .. k
    BY <1>1, <2>1 DEF FirstPerformed
  <2>2. ASSUME NEW i \in 1 .. k PROVE i \in DOMAIN steps /\ steps[i].performed
    BY <1>1 DEF FirstPerformed
  <2> QED BY <2>1, <2>2
<1>3. Cardinality(1 .. k) = k
  <2>1. 1 \in Int /\ k \in Int /\ ~(1 > k) => Cardinality(1 .. k) = k - 1 + 1
    BY FS_Interval
  <2>2. 1 > k => Cardinality(1 .. k) = 0 /\ k = 0
    BY FS_Interval
  <2> QED BY <2>1, <2>2
<1> QED BY <1>2, <1>3

\* The receipt of an ended run accounts for its steps: processed and executed
\* counts, the records, and where it stopped (CompositionMissionRun).
THEOREM RunsAccountForTheirSteps == CompositionSpec => []RunAccountsForItsSteps
<1>1. CompositionInv => RunAccountsForItsSteps
  <2> SUFFICES ASSUME CompositionInv, Ended PROVE RunAccountsForItsSteps
    BY DEF RunAccountsForItsSteps
  <2> DEFINE performed == {i \in DOMAIN run.steps : run.steps[i].performed}
             failed == \E i \in DOMAIN run.steps : run.steps[i].status = "failed"
  <2>1. /\ run.steps \in Seq(StepRecords) /\ run.processed = Len(run.steps)
        /\ Len(run.steps) \in Nat /\ DOMAIN run.steps = 1 .. Len(run.steps)
        /\ run.step \in 0 .. 5
    BY MissionStatuses DEF CompositionInv, RunShape
  <2>2. EndedBlocked(run) \/ EndedFailed(run) \/ EndedPending(run)
    BY DEF CompositionInv, RunShape, Ended, NotStarted, InProgress
  <2>3. run.status = "approval_pending" <=> operation # NoCall
    BY DEF CompositionInv, OperationInv
  <2>4. CASE EndedBlocked(run)
    <3>1. Cardinality(performed) = run.step - 1
      <4>1. run.step - 1 \in Nat /\ FirstPerformed(run.steps, run.step - 1)
        BY <2>1, <2>4 DEF EndedBlocked, Succeeded, FirstPerformed
      <4> QED BY ONLY <2>1, <4>1, PerformedSteps
    <3>2. ~failed
      BY <2>1, <2>4 DEF EndedBlocked, Succeeded
    <3> HIDE DEF performed, failed
    <3>3. /\ run.status = "blocked" /\ run.executed = run.step - 1 /\ run.step \in 1 .. 5
          /\ Len(run.steps) <= run.step
      BY <2>1, <2>4 DEF EndedBlocked
    <3>4. /\ run.executed = Cardinality(performed) /\ run.executed <= 4 /\ run.processed <= 5
          /\ run.status = "failed" <=> failed
      BY <2>1, <3>1, <3>2, <3>3
    <3> QED BY <2>1, <2>3, <3>3, <3>4 DEF RunAccountsForItsSteps, performed, failed
  <2>5. CASE EndedFailed(run)
    <3>1. /\ run.status = "failed" /\ run.step \in 1 .. 5 /\ Len(run.steps) = run.step
          /\ run.steps[run.step].status = "failed" /\ Succeeded(run.steps, run.step - 1)
      BY <2>5 DEF EndedFailed
    <3>2. run.executed = Cardinality(performed) /\ run.executed <= 4
      <4>1. CASE run.steps[run.step].performed = TRUE /\ run.step < 5 /\ run.executed = run.step
        <5>1. \A i \in 1 .. run.step : run.steps[i].performed = TRUE
          BY <3>1, <4>1 DEF Succeeded
        <5>2. Cardinality(performed) = run.step
          <6>1. run.step \in Nat /\ FirstPerformed(run.steps, run.step)
            BY <2>1, <3>1, <5>1 DEF FirstPerformed
          <6> QED BY ONLY <2>1, <6>1, PerformedSteps
        <5> QED BY <4>1, <5>2, <3>1
      <4>2. CASE run.steps[run.step].performed = FALSE /\ run.executed = run.step - 1
        <5>1. Cardinality(performed) = run.step - 1
          <6>1. run.step - 1 \in Nat /\ FirstPerformed(run.steps, run.step - 1)
            BY <2>1, <3>1, <4>2 DEF FirstPerformed, Succeeded
          <6> QED BY ONLY <2>1, <6>1, PerformedSteps
        <5> QED BY <4>2, <5>1, <3>1
      <4> QED BY <2>5, <4>1, <4>2 DEF EndedFailed
    <3>3. failed
      BY <2>1, <3>1
    <3> HIDE DEF performed, failed
    <3>4. run.processed <= 5 /\ (run.status = "failed" <=> failed)
      BY <2>1, <3>1, <3>3
    <3> QED BY <2>1, <2>3, <3>1, <3>2, <3>4 DEF RunAccountsForItsSteps, performed, failed
  <2>6. CASE EndedPending(run)
    <3>1. /\ run.status = "approval_pending" /\ run.step = 5 /\ Len(run.steps) = run.step
          /\ run.executed = run.step - 1 /\ Succeeded(run.steps, run.step - 1)
          /\ run.steps[run.step].status = "pending" /\ run.steps[run.step].performed = FALSE
      BY <2>6 DEF EndedPending
    <3>2. Cardinality(performed) = run.step - 1
      <4>1. run.step - 1 \in Nat /\ FirstPerformed(run.steps, run.step - 1)
        BY <2>1, <3>1 DEF FirstPerformed, Succeeded
      <4> QED BY ONLY <2>1, <4>1, PerformedSteps
    <3>3. ~failed
      BY <2>1, <3>1 DEF Succeeded
    <3>4. \A i \in 1 .. 4 : run.steps[i].status = "succeeded"
      BY <3>1 DEF Succeeded
    <3> HIDE DEF performed, failed
    <3>5. /\ run.executed = Cardinality(performed) /\ run.executed = 4 /\ run.processed = 5
          /\ run.status = "failed" <=> failed
      BY <2>1, <3>1, <3>2, <3>3
    <3> QED BY <2>1, <2>3, <3>1, <3>4, <3>5 DEF RunAccountsForItsSteps, performed, failed
  <2> QED BY <2>2, <2>4, <2>5, <2>6
<1> QED BY <1>1, CompositionInitial, CompositionInductive, PTL DEF CompositionSpec

------------------------------------------------------------------------------
(* Database, migrations and backup (database.py, backup.py).               *)

\* The tables and columns that migrations make, and databases of them.
Tables ==
  {"projects", "memories", "conversations", "messages", "runs", "tasks", "tool_operations",
   "blueprints", "slices", "events", "attempts", "leases", "idempotency", "artifacts",
   "reconciliations"}

Columns ==
  {"memories.status", "memories.links", "runs.tool", "leases.identity", "events.attempt"}

Databases ==
  [version : 0 .. 7, tables : SUBSET Tables, columns : SUBSET Columns, events : Nat, bare : Nat]

\* A recorded version stands for the whole of its schema.
Whole(d) == d.version > 0 => VerifySchema(d, d.version)

\* The type invariant.
StartupTypeOK ==
  /\ db \in Databases
  /\ lock \in Procs \cup {"free"}
  /\ proc \in [Procs -> {"down", "connecting", "migrating", "serving", "refused"}]
  /\ tx \in [Procs -> Databases]
  /\ backup \in [state : {"absent", "copied", "verified", "failed"}, db : Databases]
  /\ acked \in Nat

\* Who migrates holds the lock, and works on a copy that has kept every row.
MigratorsHoldTheLock ==
  \A p \in Procs :
    proc[p] = "migrating" =>
      lock = p /\ tx[p].events = db.events /\ db.version <= tx[p].version

\* The inductive invariant.
StartupInv ==
  /\ StartupTypeOK
  /\ Whole(db) /\ db.events = acked
  /\ Whole(backup.db)
  /\ MigratorsHoldTheLock
  /\ \A p \in Procs : proc[p] = "serving" => Latest[p] <= db.version

\* A statement of a migration leaves a database of these tables and columns.
LEMMA ApplyType ==
  ASSUME NEW d \in Databases, NEW v \in 1 .. 7
  PROVE  /\ Apply(v, d) \in Databases
         /\ Apply(v, d).version = d.version
         /\ Apply(v, d).events = d.events
<1>1. CASE v = 1
  BY <1>1 DEF Databases, Tables, Columns, Apply, InitialSchema
<1>2. CASE v = 2
  <2> DEFINE c == {"memories.status", "memories.links"}
             e == [d EXCEPT !.columns = @ \cup c]
  <2>1. Apply(v, d) = [e EXCEPT !.bare = 0]
    BY <1>2 DEF Apply, MemoryLifecycle
  <2>2. c \in SUBSET Columns
    BY DEF Columns
  <2> HIDE DEF c
  <2>3. e \in Databases /\ e.version = d.version /\ e.events = d.events
    BY <2>2 DEF Databases
  <2> HIDE DEF e
  <2> QED BY <2>1, <2>3 DEF Databases
<1>3. CASE v = 3
  BY <1>3 DEF Databases, Tables, Columns, Apply, ModelRuns
<1>4. CASE v = 4
  BY <1>4 DEF Databases, Tables, Columns, Apply, TasksTable
<1>5. CASE v = 5
  <2> DEFINE t == {"tool_operations"}
             c == {"runs.tool"}
  <2>1. Apply(v, d) = [d EXCEPT !.tables = @ \cup t, !.columns = @ \cup c]
    BY <1>5 DEF Apply, ToolSystem
  <2>2. t \in SUBSET Tables /\ c \in SUBSET Columns
    BY DEF Tables, Columns
  <2> HIDE DEF t, c
  <2> QED BY <2>1, <2>2 DEF Databases
<1>6. CASE v = 6
  BY <1>6 DEF Databases, Tables, Columns, Apply, BuilderState
<1>7. CASE v = 7
  <2> DEFINE t == {"reconciliations"}
             c == {"leases.identity", "events.attempt"}
  <2>1. Apply(v, d) = [d EXCEPT !.columns = @ \cup c, !.tables = @ \cup t]
    BY <1>7 DEF Apply, BuilderHardening
  <2>2. t \in SUBSET Tables /\ c \in SUBSET Columns
    BY DEF Tables, Columns
  <2> HIDE DEF t, c
  <2> QED BY <2>1, <2>2 DEF Databases
<1> QED BY <1>1, <1>2, <1>3, <1>4, <1>5, <1>6, <1>7

\* So does a schema.
LEMMA SchemaType ==
  ASSUME NEW v \in 0 .. 7
  PROVE  /\ Schema(v) \in Databases /\ Schema(v).events = 0 /\ Whole(Schema(v))
         /\ NoDatabase \in Databases /\ Whole(NoDatabase)
<1>1. NoDatabase \in Databases
  BY DEF NoDatabase, Databases
<1>2. \A k \in 1 .. v : Apply(k, NoDatabase) \in Databases
  BY <1>1, ApplyType
<1>3. \A k \in 1 .. v : Apply(k, NoDatabase).tables \subseteq Tables
                     /\ Apply(k, NoDatabase).columns \subseteq Columns
  BY <1>2 DEF Databases
<1>4. Schema(v) \in Databases
  BY <1>3 DEF Schema, Databases
<1>5. Whole(Schema(v)) /\ Schema(v).events = 0
  BY DEF Schema, Whole, VerifySchema
<1>6. Whole(NoDatabase)
  BY DEF Whole, NoDatabase
<1> QED BY <1>1, <1>4, <1>5, <1>6

\* A schema holds what every earlier one holds.
LEMMA LaterSchemaSuffices ==
  ASSUME NEW d, NEW v \in 0 .. 7, NEW u \in 0 .. v, VerifySchema(d, v)
  PROVE  VerifySchema(d, u)
<1>1. 1 .. u \subseteq 1 .. v
  OBVIOUS
<1>2. Schema(u).tables \subseteq Schema(v).tables /\ Schema(u).columns \subseteq Schema(v).columns
  BY <1>1 DEF Schema
<1> QED BY <1>2 DEF VerifySchema

\* An empty database, or one an earlier release left, satisfies the invariant.
LEMMA StartupInitial == StartupInit => StartupInv
<1> SUFFICES ASSUME StartupInit PROVE StartupInv
  OBVIOUS
<1>1. Unversioned \in Databases /\ Whole(Unversioned) /\ Unversioned.events = 0
  <2>1. NoDatabase \in Databases /\ NoDatabase.version = 0 /\ NoDatabase.events = 0
    BY DEF NoDatabase, Databases
  <2>2. /\ InitialSchema(NoDatabase) \in Databases /\ InitialSchema(NoDatabase).version = 0
        /\ InitialSchema(NoDatabase).events = 0
    BY <2>1, ApplyType, 1 \in 1 .. 7 DEF Apply
  <2> DEFINE d == InitialSchema(NoDatabase)
  <2>3. Unversioned = [d EXCEPT !.bare = 1]
    BY DEF Unversioned
  <2> HIDE DEF d
  <2>4. Unversioned \in Databases /\ Unversioned.version = 0 /\ Unversioned.events = 0
    BY <2>2, <2>3 DEF Databases, d
  <2> QED BY <2>4 DEF Whole
<1>2. db \in Databases /\ Whole(db) /\ db.events = 0
  BY <1>1, SchemaType, StartupAssumption DEF StartupInit
<1>3. NoDatabase \in Databases /\ Whole(NoDatabase)
  BY SchemaType, 0 \in 0 .. 7
<1>4. StartupTypeOK
  BY <1>2, <1>3 DEF StartupInit, StartupTypeOK
<1> QED BY <1>2, <1>3, <1>4 DEF StartupInit, StartupInv, MigratorsHoldTheLock

\* Migrations, crashes in the middle of them, writes, backups and restores
\* preserve the invariant: only the holder of the write lock migrates, and its
\* transaction is there whole or not at all.
LEMMA StartupInductive == StartupInv /\ [StartupNext]_startupVars => StartupInv'
<1> SUFFICES ASSUME StartupInv, [StartupNext]_startupVars PROVE StartupInv'
  OBVIOUS
<1> USE StartupAssumption
<1>1. ASSUME NEW p \in Procs, NEW e \in Environments, Boot(p, e) PROVE StartupInv'
  BY <1>1 DEF Boot, StartupInv, StartupTypeOK, MigratorsHoldTheLock, bounds
<1>2. ASSUME NEW p \in Procs, Locked(p) PROVE StartupInv'
  BY <1>2 DEF Locked, StartupInv, StartupTypeOK, MigratorsHoldTheLock, bounds
<1>3. ASSUME NEW p \in Procs, BeginImmediate(p) PROVE StartupInv'
  BY <1>3 DEF BeginImmediate, StartupInv, StartupTypeOK, MigratorsHoldTheLock, bounds, Databases
<1>4. ASSUME NEW p \in Procs, ApplyNext(p) PROVE StartupInv'
  <2> DEFINE d == tx[p]
             next == Migrated(d)
  <2>1. d \in Databases /\ d.version \in 0 .. 6 /\ d.version + 1 \in 1 .. 7
    BY <1>4 DEF ApplyNext, StartupInv, StartupTypeOK, Databases
  <2>2. /\ Apply(d.version + 1, d) \in Databases
        /\ Apply(d.version + 1, d).version = d.version
        /\ Apply(d.version + 1, d).events = d.events
    BY <2>1, ApplyType
  <2>3. next \in Databases /\ next.events = d.events /\ next.version = d.version + 1
    <3> DEFINE a == Apply(d.version + 1, d)
    <3>1. a \in Databases /\ a.version = d.version /\ a.events = d.events /\ d.version \in 0 .. 6
      BY <2>1, <2>2
    <3>2. next = [a EXCEPT !.version = d.version + 1]
      BY DEF Migrated
    <3> HIDE DEF a, next, d
    <3> QED BY <3>1, <3>2 DEF Databases
  <2>4. tx' = [tx EXCEPT ![p] = next] /\ UNCHANGED <<db, lock, proc, backup, acked>>
    BY <1>4 DEF ApplyNext
  <2> HIDE DEF next
  <2>5. StartupTypeOK'
    BY <2>3, <2>4 DEF StartupInv, StartupTypeOK
  <2>6. MigratorsHoldTheLock'
    BY <2>1, <2>3, <2>4 DEF StartupInv, StartupTypeOK, MigratorsHoldTheLock, Databases
  <2> QED BY <2>4, <2>5, <2>6 DEF StartupInv
<1>5. ASSUME NEW p \in Procs, Finish(p) PROVE StartupInv'
  <2>1. /\ lock = p /\ tx[p].events = db.events /\ db.version <= tx[p].version
        /\ tx[p].version = Latest[p]
    BY <1>5 DEF Finish, StartupInv, MigratorsHoldTheLock
  <2>2. \A q \in Procs : proc'[q] # "migrating"
    BY <1>5, <2>1 DEF Finish, StartupInv, StartupTypeOK, MigratorsHoldTheLock
  <2>3. StartupTypeOK'
    BY <1>5 DEF Finish, StartupInv, StartupTypeOK, bounds
  <2>4. CASE VerifySchema(tx[p], Latest[p])
    <3>1. db' = tx[p] /\ proc' = [proc EXCEPT ![p] = "serving"] /\ UNCHANGED <<backup, acked>>
      BY <1>5, <2>4 DEF Finish
    <3>2. Whole(db') /\ db'.events = acked'
      BY <2>1, <2>4, <3>1 DEF StartupInv, Whole
    <3>3. \A q \in Procs : proc'[q] = "serving" => Latest[q] <= db'.version
      BY <2>1, <3>1 DEF StartupInv, StartupTypeOK, Databases
    <3> QED BY <2>2, <2>3, <3>1, <3>2, <3>3 DEF StartupInv, MigratorsHoldTheLock
  <2>5. CASE ~VerifySchema(tx[p], Latest[p])
    BY <1>5, <2>2, <2>3, <2>5 DEF Finish, StartupInv, StartupTypeOK, MigratorsHoldTheLock
  <2> QED BY <2>4, <2>5
<1>14. ASSUME NEW p \in Procs, MigrationFails(p) PROVE StartupInv'
  BY <1>14 DEF MigrationFails, StartupInv, StartupTypeOK, MigratorsHoldTheLock, bounds
<1>6. ASSUME NEW p \in Procs, Crash(p) PROVE StartupInv'
  BY <1>6 DEF Crash, StartupInv, StartupTypeOK, MigratorsHoldTheLock
<1>7. ASSUME NEW p \in Procs, WriteEvent(p) PROVE StartupInv'
  <2> DEFINE next == [db EXCEPT !.events = @ + 1]
  <2>1. db' = next /\ acked' = acked + 1 /\ lock = "free" /\ UNCHANGED <<lock, proc, tx, backup>>
    BY <1>7 DEF WriteEvent
  <2>2. /\ next \in Databases /\ next.events = db.events + 1 /\ next.version = db.version
        /\ next.tables = db.tables /\ next.columns = db.columns /\ next.bare = db.bare
    BY DEF StartupInv, StartupTypeOK, Databases
  <2> HIDE DEF next
  <2>3. Whole(next)
    BY <2>2 DEF StartupInv, Whole, VerifySchema
  <2>4. \A q \in Procs : proc[q] # "migrating"
    BY <2>1 DEF StartupInv, MigratorsHoldTheLock
  <2>5. StartupTypeOK'
    BY <2>1, <2>2 DEF StartupInv, StartupTypeOK
  <2> QED BY <2>1, <2>2, <2>3, <2>4, <2>5 DEF StartupInv, MigratorsHoldTheLock
<1>8. ASSUME NEW p \in Procs, RetireUnready(p) PROVE StartupInv'
  BY <1>8 DEF RetireUnready, StartupInv, StartupTypeOK, MigratorsHoldTheLock
<1>9. CASE CopyBackup
  BY <1>9 DEF CopyBackup, StartupInv, StartupTypeOK, MigratorsHoldTheLock
<1>10. CASE VerifyBackup
  BY <1>10 DEF VerifyBackup, StartupInv, StartupTypeOK, MigratorsHoldTheLock
<1>11. CASE ConfirmBackup
  BY <1>11 DEF ConfirmBackup, StartupInv, StartupTypeOK, MigratorsHoldTheLock
<1>12. CASE RestoreBackup
  BY <1>12 DEF RestoreBackup, StartupInv, StartupTypeOK, MigratorsHoldTheLock, Databases
<1>13. CASE UNCHANGED startupVars
  BY <1>13 DEF startupVars, StartupInv, StartupTypeOK, MigratorsHoldTheLock
<1> QED BY <1>1, <1>2, <1>3, <1>4, <1>5, <1>6, <1>7, <1>8, <1>9, <1>10, <1>11, <1>12, <1>13,
           <1>14 DEF StartupNext, BootStep

\* A recorded schema version stands for all its tables and columns, after any
\* crashes, concurrent starts of old and new releases, backups and restores
\* (run_migrations, restore_sqlite_backup).
THEOREM SchemasAreWhole == StartupSpec => []SchemaIsWhole
<1>1. StartupInv => SchemaIsWhole
  BY DEF StartupInv, SchemaIsWhole, Whole
<1> QED BY <1>1, StartupInitial, StartupInductive, PTL DEF StartupSpec

\* A process that serves finds every table and column its release uses: a
\* database only ever moves to later versions while it is served.
THEOREM ServersFindTheirSchema == StartupSpec => []ServedSchemaSuffices
<1>1. StartupInv => ServedSchemaSuffices
  <2> SUFFICES ASSUME StartupInv, NEW p \in Procs, proc[p] = "serving"
               PROVE  VerifySchema(db, Latest[p])
    BY DEF ServedSchemaSuffices
  <2>1. db.version \in 0 .. 7 /\ Latest[p] \in 1 .. db.version
    BY StartupAssumption DEF StartupInv, StartupTypeOK, Databases
  <2>2. VerifySchema(db, db.version)
    BY <2>1 DEF StartupInv, Whole
  <2> QED BY <2>1, <2>2, LaterSchemaSuffices
<1> QED BY <1>1, StartupInitial, StartupInductive, PTL DEF StartupSpec
==============================================================================
