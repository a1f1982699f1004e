------------------------------ MODULE BuildJob ------------------------------
(***************************************************************************)
(* The build job of scripts/capability_build/job.py: an immutable record   *)
(* whose history is replayed by every construction, kept in                *)
(* build_jobs/<job_id>/job.json, which save_job overwrites in place, and   *)
(* the workspace directory of workspace.py.  Several sessions of the       *)
(* offline tooling work on one job; a session may die in the middle of a   *)
(* save.                                                                   *)
(***************************************************************************)
EXTENDS Naturals, Sequences, SequencesExt

CONSTANTS
    Sessions,       \* processes of the tooling
    MaxSaves,       \* bound: saves begun in a behaviour
    MaxEvents       \* bound: events in one history

VARIABLES
    held,           \* per session: the history of the job value it holds, or NoJob
    file,           \* job.json: absent, the text of a history, or the torn text of a save
    saving,         \* the sessions in the middle of a save of the job they hold
    workspaceDir,   \* build_jobs/<job_id>/workspace exists
    saves,          \* the number of saves begun
    written         \* history variable: the histories whose save completed

jobVars == <<held, file, saving, workspaceDir, saves, written>>

FORWARD_STATES ==
    <<"drafted", "dispatched", "returned", "validated", "verified", "reviewed", "ready_for_pr">>
TERMINAL_STATES == {"needs_human", "cancelled"}
BUILD_JOB_STATES == Range(FORWARD_STATES) \cup TERMINAL_STATES
MAX_FIX_ROUNDS == 2
NoReason == "none"
RetryReason(state) ==
    CASE state = "verified" -> "verification_failure"
      [] state = "reviewed" -> "blocking_finding"
      [] OTHER -> NoReason

\* BuildJobEvent; actor, note and timestamp are required text and no more.
Event(from, to, round, reason) == [from |-> from, to |-> to, fix_round |-> round, reason |-> reason]
FirstEvent == Event("none", "drafted", 0, NoReason)

Successor(state) ==
    LET i == CHOOSE k \in DOMAIN FORWARD_STATES : FORWARD_STATES[k] = state IN
    IF i < Len(FORWARD_STATES) THEN FORWARD_STATES[i + 1] ELSE NoReason

\* _replay_event: the events that may follow a state and a fix round.
ReplayEvent(state, round, event) ==
    /\ state \notin TERMINAL_STATES
    /\ \/ event.to \in TERMINAL_STATES /\ event.reason = NoReason /\ event.fix_round = round
       \/ event.to = Successor(state) /\ event.reason = NoReason /\ event.fix_round = round
       \/ /\ event.to = "dispatched" /\ state \notin TERMINAL_STATES /\ event.to # Successor(state)
          /\ RetryReason(state) # NoReason /\ event.reason = RetryReason(state)
          /\ round < MAX_FIX_ROUNDS /\ event.fix_round = round + 1

\* _validate_history: what BuildJob(...) accepts.  The state and the fix round
\* of a job are those of its last event.
Replays(history) ==
    /\ history # <<>> /\ history[1] = FirstEvent
    /\ \A i \in 2..Len(history) :
           /\ history[i].from = history[i - 1].to
           /\ ReplayEvent(history[i - 1].to, history[i - 1].fix_round, history[i])

NoJob == <<>>
State(history) == Last(history).to
FixRound(history) == Last(history).fix_round

\* job.json as bytes, and the session whose text they begin with: nothing, a
\* whole text, or the beginning of one with or without the rest of another.
\* The content hash of job_from_dict tells a whole text from every other.
Absent == [whole |-> FALSE, text |-> <<>>, present |-> FALSE, by |-> "nobody"]
Whole(s, history) == [whole |-> TRUE, text |-> history, present |-> TRUE, by |-> s]
Torn(s, history) == [whole |-> FALSE, text |-> history, present |-> TRUE, by |-> s]

JobInit ==
    /\ held = [s \in Sessions |-> NoJob]
    /\ saving = {}
    /\ file = Absent /\ workspaceDir = FALSE /\ saves = 0 /\ written = {}

Idle(s) == s \notin saving

\* new_job
NewJob(s) ==
    /\ Idle(s) /\ held[s] = NoJob /\ file = Absent
    /\ held' = [held EXCEPT ![s] = <<FirstEvent>>]
    /\ UNCHANGED <<file, saving, workspaceDir, saves, written>>

\* _with_event: the new value is validated again, and an invalid one raises.
WithEvent(s, event) ==
    /\ Len(held[s]) < MaxEvents
    /\ Replays(Append(held[s], event))
    /\ held' = [held EXCEPT ![s] = Append(@, event)]
    /\ UNCHANGED <<file, saving, workspaceDir, saves, written>>

\* transition: one step forward, or one of the two escape states.
Transition(s, new) ==
    LET state == State(held[s]) IN
    /\ Idle(s) /\ held[s] # NoJob /\ state \notin TERMINAL_STATES
    /\ new \in TERMINAL_STATES \/ new = Successor(state)
    /\ WithEvent(s, Event(state, new, FixRound(held[s]), NoReason))

\* retry: the one edge back, for the one reason its state knows.
Retry(s, reason) ==
    LET state == State(held[s]) IN
    /\ Idle(s) /\ held[s] # NoJob /\ state \notin TERMINAL_STATES
    /\ RetryReason(state) # NoReason /\ reason = RetryReason(state)
    /\ FixRound(held[s]) < MAX_FIX_ROUNDS
    /\ WithEvent(s, Event(state, "dispatched", FixRound(held[s]) + 1, reason))

\* save_job, first half: write_text opens the file and truncates it.
BeginSave(s) ==
    /\ Idle(s) /\ held[s] # NoJob /\ saves < MaxSaves
    /\ saving' = saving \cup {s}
    /\ file' = Torn(s, held[s])
    /\ saves' = saves + 1
    /\ UNCHANGED <<held, workspaceDir, written>>

\* save_job, second half: the text is written from the start of the file, over
\* what another session wrote there since.  Notes and names decide which text
\* is longer: the rest of a longer one remains, and the file is no JSON text
\* any more.
EndSave(s) ==
    /\ ~Idle(s)
    /\ \/ file' = Whole(s, held[s]) /\ written' = written \cup {held[s]}
       \/ file.by # s /\ file' = Torn(s, held[s]) /\ UNCHANGED written
    /\ saving' = saving \ {s}
    /\ UNCHANGED <<held, workspaceDir, saves>>

\* A mutant: the content hash and the history of the file are not checked.
LoadUnchecked(s) ==
    /\ Idle(s) /\ file.present
    /\ held' = [held EXCEPT ![s] = file.text]
    /\ UNCHANGED <<file, saving, workspaceDir, saves, written>>

\* load_job and job_from_dict; a torn or an invalid file raises.
Load(s) ==
    /\ Idle(s) /\ file.whole /\ Replays(file.text)
    /\ held' = [held EXCEPT ![s] = file.text]
    /\ UNCHANGED <<file, saving, workspaceDir, saves, written>>

\* create_workspace_dirs: a workspace is created once.
CreateWorkspace(s) ==
    /\ Idle(s) /\ held[s] # NoJob /\ ~workspaceDir
    /\ workspaceDir' = TRUE
    /\ UNCHANGED <<held, file, saving, saves, written>>

\* A session ends or dies; a save it was in the middle of stays torn.
Exit(s) ==
    /\ held[s] # NoJob
    /\ held' = [held EXCEPT ![s] = NoJob]
    /\ saving' = saving \ {s}
    /\ UNCHANGED <<file, workspaceDir, saves, written>>

JobNext ==
    \E s \in Sessions :
        \/ NewJob(s)
        \/ \E new \in BUILD_JOB_STATES : Transition(s, new)
        \/ \E reason \in {"verification_failure", "blocking_finding"} : Retry(s, reason)
        \/ BeginSave(s)
        \/ EndSave(s)
        \/ Load(s)
        \/ CreateWorkspace(s)
        \/ Exit(s)

JobSpec == JobInit /\ [][JobNext]_jobVars

-----------------------------------------------------------------------------
\* What a session can load is a job some save wrote to the end: a crash in the
\* middle of save_job costs the job, but never yields half of one, although the
\* file is overwritten in place by any number of sessions (job.py:515-595).
LoadedWasSaved ==
    [][\A s \in Sessions :
           (held[s] = NoJob /\ held'[s] # NoJob) => held'[s] = <<FirstEvent>> \/ held'[s] \in written]_jobVars
=============================================================================
