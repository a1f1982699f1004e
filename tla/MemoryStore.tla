----------------------------- MODULE MemoryStore -----------------------------
(***************************************************************************)
(* Long-term memory and tasks: backend/memory.py, the chat commands that   *)
(* write them (backend/chat_memory.py, backend/chat_task.py), the profile  *)
(* import (backend/bootstrap_profile.py) and backend/tasks.py.             *)
(*                                                                         *)
(* Each writing operation is one transaction and so one action; a refused  *)
(* one changes nothing.  (All but the plain INSERTs of a memory or a task  *)
(* take SQLite's write lock before their first read; those two only look   *)
(* up a project, and projects are never renamed or removed.)               *)
(* get_memory_history opens no transaction: each of its SELECTs is a step  *)
(* of its own, and writers commit between them.                            *)
(*                                                                         *)
(* A memory's id is its place in the order of insertion (0 is NULL).  A    *)
(* content stands for one text; a name for all the spellings SQLite's      *)
(* NOCASE takes for the same project.                                      *)
(***************************************************************************)
EXTENDS Naturals, Sequences, FiniteSets

CONSTANTS Contents,     \* texts a memory can hold
          Normal,       \* _normalize_content of each text
          Words,        \* tokenize_keywords of each text
          Names,        \* project names
          Fold,         \* str.casefold of each name; coarser than NOCASE
          NameOrder,    \* ORDER BY name COLLATE NOCASE
          Convs,        \* conversation ids
          Readers,      \* history requests in flight
          MaxRows,      \* bound on the rows ever inserted, memories and tasks together
          MaxEntries,   \* MAX_BOOTSTRAP_PROFILE_ENTRIES
          None,         \* the global scope (project IS NULL)
          Absent        \* no such row

ASSUME MaxRowsAssumption == MaxRows \in Nat \ {0}
ASSUME MaxEntriesAssumption == MaxEntries \in Nat \ {0}
ASSUME NoneAssumption == None \notin Names

VARIABLES
  projects,   \* projects.name
  memories,   \* the table memories, Absent where a row was deleted
  convs,      \* conversations.project, Absent before the INSERT
  told,       \* confirmations of memory commands: <<conversation, what, id>>
  tasks,      \* the table tasks, in the order of insertion
  toldTasks,  \* confirmations of task commands: <<conversation, task>>
  walks       \* the local variables of each get_memory_history

vars == <<projects, memories, convs, told, tasks, toldTasks, walks>>

Scopes == Names \cup {None}
Ids == 1..MaxRows

\* origin tells the rows of the profile import from all others; memory_type does
\* not, for POST /memories accepts the import's label too.
Row == [content: Contents, project: Scopes, origin: {"import", "other"},
        status: {"active", "superseded", "archived"},
        replaces: 0..MaxRows, superseded_by: 0..MaxRows]
ASSUME AbsentAssumption == Absent \notin Scopes \cup Row

Task == [status: {"open", "completed", "cancelled"}, project: Scopes]
Finished == {"completed", "cancelled"}

\* seen is cleared between the two loops of get_memory_history: behind is its
\* value in the first one, seen in the second.
Walk == [phase: {"idle", "back", "forward", "done", "broken"},
         ask: 0..MaxRows, id: 0..MaxRows, row: Row \cup {Absent},
         behind: SUBSET Ids, seen: SUBSET Ids,
         out: Seq([id: Ids, status: {"active", "superseded", "archived"}])]

NoWalk == [phase |-> "idle", ask |-> 0, id |-> 0, row |-> Absent,
           behind |-> {}, seen |-> {}, out |-> <<>>]

Init ==
  /\ projects = {}
  /\ memories = <<>>
  /\ convs = [k \in Convs |-> Absent]
  /\ told = {}
  /\ tasks = <<>>
  /\ toldTasks = {}
  /\ walks = [r \in Readers |-> NoWalk]

\* The bound MaxRows leaves room for k more rows.
Room(k) == Len(memories) + Len(tasks) + k <= MaxRows

\* _get_memory finds the row.
Stored(m) == m \in 1..Len(memories) /\ memories[m] # Absent

\* _get_project finds the name.
Known(p) == p = None \/ p \in projects

ScopeKey(p) == IF p = None THEN None ELSE Fold[p]
Key(c, p) == <<ScopeKey(p), Normal[c]>>
RowKey(m) == Key(memories[m].content, memories[m].project)

-----------------------------------------------------------------------------
(* Mutants: operations of the next sections with a plausible mistake in    *)
(* them.  No action uses them; each shows that a property can fail.        *)

\* delete_memory that checks the status only.
DeleteAnyActive(m) ==
  /\ Stored(m)
  /\ memories[m].status = "active"
  /\ memories' = [memories EXCEPT ![m] = Absent]
  /\ UNCHANGED <<projects, convs, told, tasks, toldTasks, walks>>

\* The import compares with the rows a listing shows.
MatchesListed(e) ==
  {m \in 1..Len(memories) : /\ Stored(m)
                            /\ memories[m].status \in {"active", "archived"}
                            /\ RowKey(m) = Key(e.content, e.project)}

\* A correction looks for its target in every project.
ActiveAnywhere(p) == {m \in 1..Len(memories) : Stored(m) /\ memories[m].status = "active"}

\* get_memory_history that lists forward from the version asked for.
OldestReachedAtOnce(w) == w.phase \in {"back", "forward"}

-----------------------------------------------------------------------------
(* Projects and memories: backend/memory.py.                               *)

NewRow(c, p, from, old) ==
  [content |-> c, project |-> p, origin |-> from, status |-> "active",
   replaces |-> old, superseded_by |-> 0]

\* The table after correct_memory_in_connection.
Corrected(m, c) ==
  Append([memories EXCEPT ![m] = [@ EXCEPT !.status = "superseded",
                                           !.superseded_by = Len(memories) + 1]],
         NewRow(c, memories[m].project, memories[m].origin, m))

CreateProject(n) ==
  /\ n \notin projects
  /\ projects' = projects \cup {n}
  /\ UNCHANGED <<memories, convs, told, tasks, toldTasks, walks>>

CreateMemory(c, p) ==
  /\ Known(p)
  /\ Room(1)
  /\ memories' = Append(memories, NewRow(c, p, "other", 0))
  /\ UNCHANGED <<projects, convs, told, tasks, toldTasks, walks>>

CanCorrect(m, c) ==
  /\ Room(1)
  /\ Stored(m)
  /\ memories[m].status = "active"
  /\ memories[m].content # c

CorrectMemory(m, c) ==
  /\ CanCorrect(m, c)
  /\ memories' = Corrected(m, c)
  /\ UNCHANGED <<projects, convs, told, tasks, toldTasks, walks>>

ArchiveMemory(m) ==
  /\ Stored(m)
  /\ memories[m].status = "active" /\ memories[m].superseded_by = 0
  /\ memories' = [memories EXCEPT ![m].status = "archived"]
  /\ UNCHANGED <<projects, convs, told, tasks, toldTasks, walks>>

RestoreMemory(m) ==
  /\ Stored(m)
  /\ memories[m].status = "archived" /\ memories[m].superseded_by = 0
  /\ memories' = [memories EXCEPT ![m].status = "active"]
  /\ UNCHANGED <<projects, convs, told, tasks, toldTasks, walks>>

DeleteMemory(m) ==
  /\ Stored(m)
  /\ memories[m].replaces = 0
  /\ memories[m].superseded_by = 0
  /\ memories[m].status \notin {"superseded", "archived"}
  /\ memories' = [memories EXCEPT ![m] = Absent]
  /\ UNCHANGED <<projects, convs, told, tasks, toldTasks, walks>>

-----------------------------------------------------------------------------
(* The profile import: backend/bootstrap_profile.py.  A manifest is a set  *)
(* of entries; q numbers the ready ones in the order they are inserted.    *)
(* With none ready the import, like a refused one, changes nothing.        *)

Entries == [content: Contents, project: Scopes]
Manifests == {E \in SUBSET Entries : Cardinality(E) \in 1..MaxEntries}

\* The name _load_project_names keeps for p: the last one that folds alike.
IsCanonical(p, n) ==
  \/ p = None /\ n = None
  \/ /\ p # None
     /\ n \in projects /\ Fold[n] = Fold[p]
     /\ \A o \in projects : Fold[o] = Fold[p] => NameOrder[o] <= NameOrder[n]

ValidManifest(E) ==
  /\ \A e \in E : \E n \in Scopes : IsCanonical(e.project, n)
  /\ \A e, f \in E : Key(e.content, e.project) = Key(f.content, f.project)
                       => e = f

Matches(e) ==
  {m \in 1..Len(memories) : Stored(m) /\ RowKey(m) = Key(e.content, e.project)}

Blocked(e) ==
  \E m \in Matches(e) : memories[m].status \in {"archived", "superseded"}

Ready(E) == {e \in E : Matches(e) = {}}

ImportProfile(E) ==
  /\ ValidManifest(E)
  /\ \A e \in E : ~Blocked(e)
  /\ \E k \in {j \in 1..MaxEntries : Room(j)} :
     \E q \in [1..k -> Ready(E)], n \in [1..k -> Scopes] :
       /\ \A e \in Ready(E) : \E i \in 1..k : q[i] = e
       /\ \A i, j \in 1..k : q[i] = q[j] => i = j
       /\ \A i \in 1..k : IsCanonical(q[i].project, n[i])
       /\ memories' = memories \o
            [i \in 1..k |-> NewRow(q[i].content, n[i], "import", 0)]
  /\ UNCHANGED <<projects, convs, told, tasks, toldTasks, walks>>

-----------------------------------------------------------------------------
(* Chat commands: backend/chat_memory.py and backend/chat_task.py.  Each   *)
(* is one transaction over the conversation, its two messages and the row. *)

\* The command runs in conversation k with project scope.
ResolveConversation(k, p, scope) ==
  /\ \/ /\ convs[k] # Absent
        /\ p = None \/ ScopeKey(p) = ScopeKey(convs[k])
        /\ scope = convs[k]
     \/ convs[k] = Absent /\ Known(p) /\ scope = p
  /\ convs' = [convs EXCEPT ![k] = scope]

ActiveInScope(p) ==
  {m \in 1..Len(memories) : /\ Stored(m)
                            /\ memories[m].status = "active"
                            /\ memories[m].project \in {None, p}}

\* What a correction to c may replace.  rank_memories only orders these: a
\* strong match shares a word with the query.
Candidates(c, p) ==
  {m \in ActiveInScope(p) :
     LET shared == Cardinality(Words[c] \cap Words[memories[m].content])
     IN  shared >= 2 \/ (shared = 1 /\ Cardinality(Words[c]) <= 2)}

SaveMemoryChat(k, p, c) ==
  \E scope \in Scopes :
    /\ Room(1)
    /\ ResolveConversation(k, p, scope)
    /\ memories' = Append(memories, NewRow(c, scope, "other", 0))
    /\ told' = told \cup {<<k, "saved", Len(memories) + 1>>}
    /\ UNCHANGED <<projects, tasks, toldTasks, walks>>

CorrectMemoryChat(k, p, c) ==
  \E scope \in Scopes :
    /\ ResolveConversation(k, p, scope)
    /\ \E m \in Candidates(c, scope) :
         /\ Candidates(c, scope) = {m}
         /\ CanCorrect(m, c)
         /\ memories' = Corrected(m, c)
         /\ told' = told \cup {<<k, "updated", Len(memories) + 1>>}
    /\ UNCHANGED <<projects, tasks, toldTasks, walks>>

\* No target, several, or the same text: the turn asks for clarification.
ClarifyChat(k, p, c) ==
  \E scope \in Scopes :
    /\ ResolveConversation(k, p, scope)
    /\ ~ \E m \in Candidates(c, scope) :
           Candidates(c, scope) = {m} /\ memories[m].content # c
    /\ UNCHANGED <<projects, memories, told, tasks, toldTasks, walks>>

CreateTaskChat(k, p) ==
  \E scope \in Scopes :
    /\ Room(1)
    /\ ResolveConversation(k, p, scope)
    /\ tasks' = Append(tasks, [status |-> "open", project |-> scope])
    /\ toldTasks' = toldTasks \cup {<<k, Len(tasks) + 1>>}
    /\ UNCHANGED <<projects, memories, told, walks>>

-----------------------------------------------------------------------------
(* Tasks: backend/tasks.py.                                                *)

CreateTask(p) ==
  /\ Known(p)
  /\ Room(1)
  /\ tasks' = Append(tasks, [status |-> "open", project |-> p])
  /\ UNCHANGED <<projects, memories, convs, told, toldTasks, walks>>

FinishTask(t, target) ==
  /\ t \in 1..Len(tasks)
  /\ tasks[t].status = "open"
  /\ tasks' = [tasks EXCEPT ![t].status = target]
  /\ UNCHANGED <<projects, memories, convs, told, toldTasks, walks>>

-----------------------------------------------------------------------------
(* get_memory_history: one action per SELECT.                              *)

UnchangedTables == UNCHANGED <<projects, memories, convs, told, tasks, toldTasks>>

AskHistory(r, m) ==
  /\ walks[r].phase = "idle"
  /\ Stored(m)
  /\ walks' = [walks EXCEPT ![r] =
       [phase |-> "back", ask |-> m, id |-> m, row |-> memories[m],
        behind |-> {}, seen |-> {}, out |-> <<>>]]
  /\ UnchangedTables

\* One turn of the loop along replaces_memory_id.
ReadPrevious(r) ==
  LET w == walks[r]
      previous == w.row.replaces
  IN
  /\ w.phase = "back" /\ previous # 0
  /\ walks' = [walks EXCEPT ![r] =
       IF w.id \in w.behind \/ ~Stored(previous)
       THEN [w EXCEPT !.phase = "broken"]
       ELSE [w EXCEPT !.behind = @ \cup {w.id}, !.id = previous,
                      !.row = memories[previous]]]
  /\ UnchangedTables

OldestReached(w) ==
  w.phase = "forward" \/ (w.phase = "back" /\ w.row.replaces = 0)

\* One turn of the loop along superseded_by_id: the row at hand is listed as
\* it was read, then the next one is read.
ReadNext(r) ==
  LET w == walks[r]
      next == w.row.superseded_by
      seen == w.seen \cup {w.id}
      listed == [w EXCEPT !.seen = seen,
                          !.out = Append(@, [id |-> w.id,
                                             status |-> w.row.status])]
  IN
  /\ OldestReached(w)
  /\ walks' = [walks EXCEPT ![r] =
       IF ~Stored(next) THEN [listed EXCEPT !.phase = "done"]
       ELSE [listed EXCEPT !.phase = IF next \in seen THEN "broken"
                                                      ELSE "forward",
                           !.id = next, !.row = memories[next]]]
  /\ UnchangedTables

\* The answer is sent; the thread takes another request.
AnswerHistory(r) ==
  /\ walks[r].phase \in {"done", "broken"}
  /\ walks' = [walks EXCEPT ![r] = NoWalk]
  /\ UnchangedTables

-----------------------------------------------------------------------------
MemoryStep ==
  \/ \E c \in Contents, p \in Scopes : CreateMemory(c, p)
  \/ \E m \in Ids, c \in Contents : CorrectMemory(m, c)
  \/ \E m \in Ids : ArchiveMemory(m) \/ RestoreMemory(m) \/ DeleteMemory(m)

ChatStep ==
  \E k \in Convs, p \in Scopes :
    \/ \E c \in Contents : \/ SaveMemoryChat(k, p, c)
                           \/ CorrectMemoryChat(k, p, c)
                           \/ ClarifyChat(k, p, c)
    \/ CreateTaskChat(k, p)

TaskStep ==
  \/ \E p \in Scopes : CreateTask(p)
  \/ \E t \in Ids, target \in Finished : FinishTask(t, target)

HistoryStep ==
  \E r \in Readers : \/ \E m \in Ids : AskHistory(r, m)
                     \/ ReadPrevious(r) \/ ReadNext(r) \/ AnswerHistory(r)

Next ==
  \/ \E n \in Names : CreateProject(n)
  \/ MemoryStep
  \/ \E E \in Manifests : ImportProfile(E)
  \/ ChatStep
  \/ TaskStep
  \/ HistoryStep

Spec == Init /\ [][Next]_vars

-----------------------------------------------------------------------------
(* Properties.                                                             *)

\* Every variable holds a value its tables or locals can hold.
TypeOK ==
  /\ projects \subseteq Names
  /\ memories \in Seq(Row \cup {Absent}) /\ tasks \in Seq(Task) /\ Room(0)
  /\ convs \in [Convs -> Scopes \cup {Absent}]
  /\ told \subseteq Convs \X {"saved", "updated"} \X Ids
  /\ toldTasks \subseteq Convs \X Ids
  /\ walks \in [Readers -> Walk]

\* Whatever sequence of corrections, archives, restores, deletes and imports
\* ran, the versions of a memory form one chain: the two links of a correction
\* agree, lead from older to newer rows that are both still stored, and exactly
\* the rows with a successor are superseded, so that each chain has one current
\* version.
LinksAgree ==
  \A m \in 1..Len(memories) :
    LET row == memories[m] IN
    row # Absent =>
      /\ row.replaces # 0 =>
           /\ row.replaces < m
           /\ Stored(row.replaces)
           /\ memories[row.replaces].superseded_by = m
      /\ row.superseded_by # 0 =>
           /\ row.superseded_by > m
           /\ Stored(row.superseded_by)
           /\ memories[row.superseded_by].replaces = m
      /\ (row.superseded_by # 0) <=> (row.status = "superseded")

\* An imported row is new: no row inserted before it that is still stored, of
\* whatever status and origin, holds equivalent text in an equivalent scope.
\* So an import neither doubles a memory nor undoes a forget or a correction.
ImportAddsOnlyNew ==
  \A n \in 1..Len(memories) :
    Stored(n) /\ memories[n].origin = "import" /\ memories[n].replaces = 0 =>
      \A m \in 1..(n - 1) : Stored(m) => RowKey(m) # RowKey(n)

\* What a command told the user is so: a saved memory or a created task lies
\* in the conversation's project; an updated memory is global or in that
\* project, and the version it replaced is kept as superseded by it.
ConfirmedInScope ==
  /\ \A k \in Convs, m \in Ids :
       /\ <<k, "saved", m>> \in told /\ Stored(m) =>
            memories[m].project = convs[k]
       /\ <<k, "updated", m>> \in told =>
            /\ Stored(m)
            /\ memories[m].project \in {None, convs[k]}
            /\ Stored(memories[m].replaces)
            /\ memories[memories[m].replaces].superseded_by = m
  /\ \A k \in Convs, t \in Ids :
       <<k, t>> \in toldTasks =>
         t \in 1..Len(tasks) /\ tasks[t].project = convs[k]

\* Though other requests write between its reads, get_memory_history never
\* finds a missing version or a cycle, and what it answers is one whole chain:
\* it starts with a first version, each version is followed by the one that
\* superseded it, the version asked for is among them, and only the last was
\* read as current.
HistoryComplete ==
  \A r \in Readers :
    LET w == walks[r] IN
    /\ w.phase # "broken"
    /\ w.phase = "done" =>
      /\ Len(w.out) > 0
      /\ Stored(w.out[1].id) => memories[w.out[1].id].replaces = 0
      /\ \A i \in 1..(Len(w.out) - 1) :
           /\ memories[w.out[i].id].superseded_by = w.out[i + 1].id
           /\ w.out[i].status = "superseded"
      /\ w.out[Len(w.out)].status # "superseded"
      /\ \E i \in 1..Len(w.out) : w.out[i].id = w.ask

\* What a step may do to the rows that were there before it.
KeepsPast ==
  /\ Len(memories') >= Len(memories)
  /\ \A m \in 1..Len(memories) :
       IF ~Stored(m) THEN memories'[m] = Absent
       ELSE \/ /\ memories'[m] = Absent
               /\ memories[m].status = "active" /\ memories[m].replaces = 0
            \/ /\ memories'[m] # Absent
               /\ memories'[m].content = memories[m].content
               /\ memories'[m].project = memories[m].project
               /\ memories'[m].origin = memories[m].origin
               /\ memories'[m].replaces = memories[m].replaces
               /\ memories[m].status = "superseded" =>
                    memories'[m] = memories[m]
  /\ \A t \in 1..Len(tasks) :
       tasks[t].status # "open" => tasks'[t] = tasks[t]

\* No operation rewrites the past: a row's text, scope and predecessor never
\* change; a superseded, archived or linked row is never lost; a superseded
\* row and a finished task never change at all.
PastIsKept == [][KeepsPast]_vars

-----------------------------------------------------------------------------
(* The inductive invariant: the properties above, that a confirmation names *)
(* a row and a conversation that exist, and how far each walk has come.    *)

ToldOfInserted ==
  /\ \A k \in Convs, m \in Ids, what \in {"saved", "updated"} :
       <<k, what, m>> \in told => convs[k] # Absent /\ m <= Len(memories)
  /\ \A k \in Convs, t \in Ids : <<k, t>> \in toldTasks => convs[k] # Absent

\* The row at hand is out of date at most in its status: links stay.
RowAtHand(w) ==
  /\ w.id \in 1..Len(memories)
  /\ w.row \in Row
  /\ w.row.replaces # 0 => Stored(w.id)
  /\ Stored(w.id) => memories[w.id].replaces = w.row.replaces
  /\ w.row.superseded_by # 0 => memories[w.id] = w.row
  /\ (w.row.superseded_by # 0) <=> (w.row.status = "superseded")

\* The rows walked over backwards lead, by their successors, to the one asked.
LeadsToAsked(w) ==
  /\ \A x \in w.behind :
       x # w.ask => Stored(x) /\ memories[x].superseded_by \in w.behind
  /\ (w.phase = "back" \/ w.id \in w.behind) /\ w.id # w.ask =>
       w.row.superseded_by # 0

Backward(w) ==
  /\ w.out = <<>> /\ w.seen = {}
  /\ w.ask = w.id \/ w.ask \in w.behind
  /\ w.id # w.ask => w.row.superseded_by \in w.behind
  /\ \A x \in w.behind : x > w.id

\* The versions listed so far are consecutive, and superseded but for the last.
Listed(w) ==
  /\ Len(w.out) > 0
  /\ \A i \in 1..Len(w.out) : w.out[i].id \in 1..Len(memories)
  /\ Stored(w.out[1].id) => memories[w.out[1].id].replaces = 0
  /\ \A i \in 1..(Len(w.out) - 1) :
       /\ Stored(w.out[i].id)
       /\ memories[w.out[i].id].superseded_by = w.out[i + 1].id
       /\ w.out[i].status = "superseded"

Forward(w) ==
  /\ Listed(w)
  /\ Stored(w.out[Len(w.out)].id)
  /\ memories[w.out[Len(w.out)].id].superseded_by = w.id
  /\ w.out[Len(w.out)].status = "superseded"
  /\ \A x \in w.seen : x < w.id
  /\ \/ \E i \in 1..Len(w.out) : w.out[i].id = w.ask
     \/ w.id \in w.behind /\ w.ask \in w.behind

Complete(w) ==
  /\ Listed(w)
  /\ w.out[Len(w.out)].status # "superseded"
  /\ \E i \in 1..Len(w.out) : w.out[i].id = w.ask

WalkInv(w) ==
  /\ w.phase # "broken"
  /\ w.phase \in {"back", "forward"} => RowAtHand(w) /\ LeadsToAsked(w)
  /\ w.phase = "back" => Backward(w)
  /\ w.phase = "forward" => Forward(w)
  /\ w.phase = "done" => Complete(w)

WalksFollowLinks == \A r \in Readers : WalkInv(walks[r])

IndInv ==
  /\ TypeOK /\ LinksAgree /\ ImportAddsOnlyNew /\ ConfirmedInScope
  /\ ToldOfInserted /\ WalksFollowLinks
=============================================================================
