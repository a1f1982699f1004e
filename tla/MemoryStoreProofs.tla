------------------------- MODULE MemoryStoreProofs -------------------------
(***************************************************************************)
(* Proofs, for any texts, projects, conversations and requests and any     *)
(* number of rows, that the versions of a memory form one chain, that an   *)
(* import adds only what is new, and that a history read while others      *)
(* write is a whole chain.                                                 *)
(***************************************************************************)
EXTENDS MemoryStore, SequenceTheorems, TLAPS

Table == Row \cup {Absent}

\* The five ways a step changes the table memories.
InsertStep ==
  \E c \in Contents, p \in Scopes :
    Room(1) /\ memories' = Append(memories, NewRow(c, p, "other", 0))
CorrectStep ==
  \E m \in Ids, c \in Contents : CanCorrect(m, c) /\ memories' = Corrected(m, c)
FlipStep ==
  \E m \in Ids, s \in {"active", "archived"} :
    /\ Stored(m)
    /\ memories[m].status \in {"active", "archived"}
    /\ memories[m].superseded_by = 0
    /\ memories' = [memories EXCEPT ![m].status = s]
DeleteStep == \E m \in Ids : DeleteMemory(m)
ImportStep == \E E \in Manifests : ImportProfile(E)

\* A new row is a row.
LEMMA NewRowType ==
  ASSUME NEW c \in Contents, NEW p \in Scopes, NEW from \in {"import", "other"},
         NEW old \in 0..MaxRows
  PROVE  /\ NewRow(c, p, from, old) \in Row
         /\ NewRow(c, p, from, old) # Absent
BY MaxRowsAssumption, AbsentAssumption DEF NewRow, Row

\* The rows of the table, one by one.
LEMMA Rows ==
  ASSUME TypeOK
  PROVE  /\ Len(memories) \in Nat /\ Len(tasks) \in Nat
         /\ Len(memories) + Len(tasks) <= MaxRows
         /\ \A m \in 1..Len(memories) : m \in Ids /\ memories[m] \in Table
         /\ \A m : Stored(m) => m \in 1..Len(memories) /\ memories[m] \in Row
         /\ \A t \in 1..Len(tasks) : tasks[t] \in Task
         /\ Absent \notin Row
BY MaxRowsAssumption, AbsentAssumption
   DEF TypeOK, Room, Stored, Ids, Table

\* Inserting one row.
LEMMA InsertFacts ==
  ASSUME TypeOK, NEW row \in Row, memories' = Append(memories, row)
  PROVE  /\ memories' \in Seq(Table)
         /\ Len(memories') = Len(memories) + 1
         /\ \A i \in 1..Len(memories) : memories'[i] = memories[i]
         /\ memories'[Len(memories) + 1] = row
BY AppendProperties DEF TypeOK, Table

\* Overwriting one row.
LEMMA UpdateFacts ==
  ASSUME TypeOK, NEW m \in 1..Len(memories), NEW row \in Table,
         memories' = [memories EXCEPT ![m] = row]
  PROVE  /\ memories' \in Seq(Table)
         /\ Len(memories') = Len(memories)
         /\ \A i \in 1..Len(memories) : i # m => memories'[i] = memories[i]
         /\ memories'[m] = row
BY ExceptSeq DEF TypeOK, Table

\* A correction.
LEMMA CorrectFacts ==
  ASSUME TypeOK, NEW m \in Ids, NEW c \in Contents, CanCorrect(m, c),
         memories' = Corrected(m, c)
  PROVE  LET next == Len(memories) + 1
             new == NewRow(c, memories[m].project, memories[m].origin, m)
             old == [memories[m] EXCEPT !.status = "superseded",
                                        !.superseded_by = next]
         IN  /\ memories' \in Seq(Table)
             /\ Len(memories') = next
             /\ next \in Ids
             /\ m \in 1..Len(memories)
             /\ \A i \in 1..Len(memories) : i # m => memories'[i] = memories[i]
             /\ memories'[m] = old /\ old \in Row
             /\ memories'[next] = new /\ new \in Row
<1> DEFINE next == Len(memories) + 1
           new == NewRow(c, memories[m].project, memories[m].origin, m)
           old == [memories[m] EXCEPT !.status = "superseded",
                                      !.superseded_by = next]
           upd == [memories EXCEPT ![m] = old]
<1>1. /\ m \in 1..Len(memories) /\ memories[m] \in Row /\ next \in Ids
      /\ Len(memories) \in Nat
  BY Rows, MaxRowsAssumption DEF CanCorrect, Room, Ids
<1>2. old \in Row
  <2>1. next \in 0..MaxRows
    BY <1>1, MaxRowsAssumption DEF Ids
  <2> HIDE DEF next
  <2> QED BY <1>1, <2>1 DEF Row
<1>3. new \in Row
  <2>1. /\ memories[m].project \in Scopes
        /\ memories[m].origin \in {"import", "other"} /\ m \in 0..MaxRows
    BY <1>1 DEF Row, Ids
  <2> QED BY <2>1, NewRowType
<1>4. /\ upd \in Seq(Table) /\ Len(upd) = Len(memories)
      /\ \A i \in 1..Len(memories) : upd[i] = IF i = m THEN old ELSE memories[i]
  BY <1>1, <1>2, ExceptSeq DEF TypeOK, Table
<1>5. memories' = Append(upd, new)
  BY DEF Corrected
<1>6. /\ memories' \in Seq(Table) /\ Len(memories') = Len(upd) + 1
      /\ \A i \in 1..Len(upd) : memories'[i] = upd[i]
      /\ memories'[Len(upd) + 1] = new
  <2> HIDE DEF upd, new
  <2> QED BY <1>3, <1>4, <1>5, AppendProperties DEF Table
<1> QED BY <1>1, <1>2, <1>3, <1>4, <1>6

\* An import: every inserted row comes from an entry no stored row matches,
\* and no two of them from equivalent entries.
LEMMA ImportFacts ==
  ASSUME TypeOK, NEW E \in Manifests, ImportProfile(E)
  PROVE  LET last == Len(memories) IN
         /\ memories' \in Seq(Table)
         /\ Len(memories') \in Nat /\ Len(memories') >= last
         /\ Len(memories') + Len(tasks) <= MaxRows
         /\ \A i \in 1..last : memories'[i] = memories[i]
         /\ \A i \in (last + 1)..Len(memories') :
              /\ memories'[i] \in Row
              /\ memories'[i].replaces = 0 /\ memories'[i].superseded_by = 0
              /\ memories'[i].status = "active"
              /\ \A m \in 1..last : Stored(m) =>
                   RowKey(m) # Key(memories'[i].content, memories'[i].project)
              /\ \A j \in (last + 1)..Len(memories') : j # i =>
                   Key(memories'[j].content, memories'[j].project)
                     # Key(memories'[i].content, memories'[i].project)
<1> DEFINE last == Len(memories)
<1>0. PICK k \in 1..MaxEntries :
        /\ Room(k)
        /\ \E q \in [1..k -> Ready(E)], n \in [1..k -> Scopes] :
             /\ \A e \in Ready(E) : \E i \in 1..k : q[i] = e
             /\ \A i, j \in 1..k : q[i] = q[j] => i = j
             /\ \A i \in 1..k : IsCanonical(q[i].project, n[i])
             /\ memories' = memories \o
                  [i \in 1..k |-> NewRow(q[i].content, n[i], "import", 0)]
  BY DEF ImportProfile
<1>1. PICK q \in [1..k -> Ready(E)], n \in [1..k -> Scopes] :
        /\ \A e \in Ready(E) : \E i \in 1..k : q[i] = e
        /\ \A i, j \in 1..k : q[i] = q[j] => i = j
        /\ \A i \in 1..k : IsCanonical(q[i].project, n[i])
        /\ memories' = memories \o
             [i \in 1..k |-> NewRow(q[i].content, n[i], "import", 0)]
  BY <1>0, Zenon
<1> DEFINE rows == [i \in 1..k |-> NewRow(q[i].content, n[i], "import", 0)]
<1>2. k \in Nat /\ last \in Nat
  BY MaxEntriesAssumption, Rows
<1>3. \A i \in 1..k : /\ q[i] \in E
                      /\ q[i].content \in Contents /\ q[i].project \in Scopes
                      /\ Matches(q[i]) = {}
                      /\ rows[i] \in Row
  <2> TAKE i \in 1..k
  <2>1. q[i] \in E /\ Matches(q[i]) = {} /\ E \subseteq Entries
    BY DEF Ready, Manifests
  <2>2. q[i].content \in Contents /\ q[i].project \in Scopes
    BY <2>1 DEF Entries
  <2>3. rows[i] \in Row
    BY <2>2, NewRowType, MaxRowsAssumption
  <2> QED BY <2>1, <2>2, <2>3
<1>4. rows \in Seq(Table) /\ Len(rows) = k
  BY <1>2, <1>3 DEF Table
<1>5. /\ memories' \in Seq(Table) /\ Len(memories') = last + k
      /\ \A i \in 1..(last + k) :
           memories'[i] = IF i <= last THEN memories[i] ELSE rows[i - last]
  <2>1. memories' = memories \o rows
    BY <1>1
  <2>2. memories \in Seq(Table)
    BY DEF TypeOK, Table
  <2> HIDE DEF rows
  <2> QED BY <1>4, <2>1, <2>2, ConcatProperties
<1>6. \A i \in 1..k : Key(rows[i].content, rows[i].project)
                        = Key(q[i].content, q[i].project)
  <2> TAKE i \in 1..k
  <2>1. ScopeKey(n[i]) = ScopeKey(q[i].project)
    <3>1. IsCanonical(q[i].project, n[i]) /\ projects \subseteq Names
      BY <1>1 DEF TypeOK
    <3>2. \/ q[i].project = None /\ n[i] = None
          \/ q[i].project # None /\ n[i] # None /\ Fold[n[i]] = Fold[q[i].project]
      BY <3>1, NoneAssumption DEF IsCanonical
    <3> QED BY <3>2 DEF ScopeKey
  <2>2. rows[i].content = q[i].content /\ rows[i].project = n[i]
    BY DEF NewRow
  <2> QED BY <2>1, <2>2 DEF Key
<1>7. \A i, j \in 1..k : i # j => Key(q[i].content, q[i].project)
                                    # Key(q[j].content, q[j].project)
  BY <1>1, <1>3 DEF ImportProfile, ValidManifest
<1>8. \A i \in 1..k, m \in 1..last :
        Stored(m) => RowKey(m) # Key(q[i].content, q[i].project)
  BY <1>3 DEF Matches
<1>9. \A i \in 1..k : /\ rows[i].replaces = 0 /\ rows[i].superseded_by = 0
                      /\ rows[i].status = "active"
  BY DEF NewRow
<1>10. \A i \in (last + 1)..(last + k) : i - last \in 1..k /\ memories'[i] = rows[i - last]
  <2> HIDE DEF rows
  <2> TAKE i \in (last + 1)..(last + k)
  <2>1. i \in 1..(last + k) /\ ~(i <= last) /\ i - last \in 1..k
    BY <1>2
  <2> QED BY <1>5, <2>1
<1>11. last + k + Len(tasks) <= MaxRows
  BY <1>0, <1>2, Rows DEF Room
<1> HIDE DEF rows
<1> QED
  <2> SUFFICES ASSUME NEW i \in (last + 1)..Len(memories')
               PROVE  /\ memories'[i] \in Row
                      /\ memories'[i].replaces = 0 /\ memories'[i].superseded_by = 0
                      /\ memories'[i].status = "active"
                      /\ \A m \in 1..last : Stored(m) =>
                           RowKey(m) # Key(memories'[i].content, memories'[i].project)
                      /\ \A j \in (last + 1)..Len(memories') : j # i =>
                           Key(memories'[j].content, memories'[j].project)
                             # Key(memories'[i].content, memories'[i].project)
    BY <1>2, <1>5, <1>11
  <2>1. i - last \in 1..k /\ memories'[i] = rows[i - last]
    BY <1>5, <1>10
  <2>2. ASSUME NEW j \in (last + 1)..Len(memories'), j # i
        PROVE  Key(memories'[j].content, memories'[j].project)
                 # Key(memories'[i].content, memories'[i].project)
    <3>1. j - last \in 1..k /\ memories'[j] = rows[j - last] /\ j - last # i - last
      BY <1>2, <1>5, <1>10, <2>2
    <3> QED BY <2>1, <3>1, <1>6, <1>7
  <2> QED BY <2>1, <2>2, <1>3, <1>6, <1>8, <1>9

-----------------------------------------------------------------------------
\* Every step changes the table in one of the five ways or not at all.
LEMMA StepCases ==
  ASSUME TypeOK, [Next]_vars
  PROVE  InsertStep \/ CorrectStep \/ FlipStep \/ DeleteStep \/ ImportStep
           \/ UNCHANGED memories
<1>1. CASE UNCHANGED vars
  BY <1>1 DEF vars
<1>2. ASSUME NEW n \in Names, CreateProject(n) PROVE UNCHANGED memories
  BY <1>2 DEF CreateProject
<1>3. CASE MemoryStep
  <2>1. ASSUME NEW c \in Contents, NEW p \in Scopes, CreateMemory(c, p)
        PROVE  InsertStep
    BY <2>1 DEF CreateMemory, InsertStep
  <2>2. ASSUME NEW m \in Ids, NEW c \in Contents, CorrectMemory(m, c)
        PROVE  CorrectStep
    BY <2>2 DEF CorrectMemory, CorrectStep
  <2>3. ASSUME NEW m \in Ids, ArchiveMemory(m) \/ RestoreMemory(m)
        PROVE  FlipStep
    BY <2>3 DEF ArchiveMemory, RestoreMemory, FlipStep
  <2> QED BY <1>3, <2>1, <2>2, <2>3 DEF MemoryStep, DeleteStep
<1>4. CASE \E E \in Manifests : ImportProfile(E)
  BY <1>4 DEF ImportStep
<1>5. CASE ChatStep
  <2>1. ASSUME NEW k \in Convs, NEW p \in Scopes, NEW c \in Contents,
               SaveMemoryChat(k, p, c)
        PROVE  InsertStep
    BY <2>1 DEF SaveMemoryChat, InsertStep
  <2>2. ASSUME NEW k \in Convs, NEW p \in Scopes, NEW c \in Contents,
               CorrectMemoryChat(k, p, c)
        PROVE  CorrectStep
    <3>1. PICK scope \in Scopes : \E m \in Candidates(c, scope) :
             CanCorrect(m, c) /\ memories' = Corrected(m, c)
      BY <2>2 DEF CorrectMemoryChat
    <3>2. PICK m \in Candidates(c, scope) :
             CanCorrect(m, c) /\ memories' = Corrected(m, c)
      BY <3>1
    <3>3. m \in Ids
      BY <3>2, Rows DEF CanCorrect
    <3> QED BY <3>2, <3>3 DEF CorrectStep
  <2>3. ASSUME NEW k \in Convs, NEW p \in Scopes, NEW c \in Contents,
               ClarifyChat(k, p, c)
        PROVE  UNCHANGED memories
    BY <2>3 DEF ClarifyChat
  <2>4. ASSUME NEW k \in Convs, NEW p \in Scopes, CreateTaskChat(k, p)
        PROVE  UNCHANGED memories
    BY <2>4 DEF CreateTaskChat
  <2> QED BY <1>5, <2>1, <2>2, <2>3, <2>4 DEF ChatStep
<1>6. CASE TaskStep
  BY <1>6 DEF TaskStep, CreateTask, FinishTask
<1>7. CASE HistoryStep
  BY <1>7 DEF HistoryStep, AskHistory, ReadPrevious, ReadNext, AnswerHistory,
     UnchangedTables
<1> QED BY <1>1, <1>2, <1>3, <1>4, <1>5, <1>6, <1>7 DEF Next

\* Archiving or restoring one row.
LEMMA FlipFacts ==
  ASSUME TypeOK, NEW m \in Ids, NEW s \in {"active", "archived"}, Stored(m),
         memories' = [memories EXCEPT ![m].status = s]
  PROVE  /\ memories' \in Seq(Table)
         /\ Len(memories') = Len(memories)
         /\ m \in 1..Len(memories)
         /\ \A i \in 1..Len(memories) : i # m => memories'[i] = memories[i]
         /\ memories'[m] = [memories[m] EXCEPT !.status = s]
         /\ memories'[m] \in Row
<1>1. m \in 1..Len(memories) /\ memories[m] \in Row
  BY Rows
<1>2. [memories[m] EXCEPT !.status = s] \in Row
  BY <1>1 DEF Row
<1>3. memories' = [memories EXCEPT ![m] = [memories[m] EXCEPT !.status = s]]
  OBVIOUS
<1> QED BY <1>1, <1>2, <1>3, UpdateFacts DEF Table

\* Deleting one row.
LEMMA DeleteFacts ==
  ASSUME TypeOK, NEW m \in Ids, DeleteMemory(m)
  PROVE  /\ memories' \in Seq(Table)
         /\ Len(memories') = Len(memories)
         /\ m \in 1..Len(memories) /\ memories[m] \in Row
         /\ memories[m].replaces = 0 /\ memories[m].superseded_by = 0
         /\ memories[m].status = "active"
         /\ \A i \in 1..Len(memories) : i # m => memories'[i] = memories[i]
         /\ memories'[m] = Absent
<1>1. m \in 1..Len(memories) /\ memories[m] \in Row
  BY Rows DEF DeleteMemory
<1>2. memories[m].status = "active"
  BY <1>1 DEF DeleteMemory, Row
<1> QED BY <1>1, <1>2, UpdateFacts DEF DeleteMemory, Table

\* A step changes no row that was there but in the allowed ways.
LEMMA TableKept ==
  ASSUME TypeOK, LinksAgree, [Next]_vars
  PROVE  /\ memories' \in Seq(Table)
         /\ Len(memories') \in Nat /\ Len(memories') >= Len(memories)
         /\ \A m \in 1..Len(memories) :
              IF ~Stored(m) THEN memories'[m] = Absent
              ELSE \/ /\ memories'[m] = Absent
                      /\ memories[m].status = "active"
                      /\ memories[m].replaces = 0
                   \/ /\ memories'[m] # Absent
                      /\ memories'[m].content = memories[m].content
                      /\ memories'[m].project = memories[m].project
                      /\ memories'[m].origin = memories[m].origin
                      /\ memories'[m].replaces = memories[m].replaces
                      /\ memories[m].status = "superseded" =>
                           memories'[m] = memories[m]
<1> DEFINE Allowed(m) ==
      IF ~Stored(m) THEN memories'[m] = Absent
      ELSE \/ /\ memories'[m] = Absent
              /\ memories[m].status = "active"
              /\ memories[m].replaces = 0
           \/ /\ memories'[m] # Absent
              /\ memories'[m].content = memories[m].content
              /\ memories'[m].project = memories[m].project
              /\ memories'[m].origin = memories[m].origin
              /\ memories'[m].replaces = memories[m].replaces
              /\ memories[m].status = "superseded" =>
                   memories'[m] = memories[m]
<1> SUFFICES /\ memories' \in Seq(Table)
             /\ Len(memories') \in Nat /\ Len(memories') >= Len(memories)
             /\ \A m \in 1..Len(memories) : Allowed(m)
  OBVIOUS
<1>0. /\ Len(memories) \in Nat /\ Absent \notin Row
      /\ \A m \in 1..Len(memories) : Stored(m) => memories[m] \in Row
      /\ \A m \in 1..Len(memories) : ~Stored(m) => memories[m] = Absent
  BY Rows DEF Stored
<1>1. \A m \in 1..Len(memories) : memories'[m] = memories[m] => Allowed(m)
  BY <1>0 DEF Stored
<1>2. CASE InsertStep
  <2>1. PICK c \in Contents, p \in Scopes :
          memories' = Append(memories, NewRow(c, p, "other", 0))
    BY <1>2 DEF InsertStep
  <2>2. NewRow(c, p, "other", 0) \in Row
    BY NewRowType, MaxRowsAssumption
  <2> QED BY <1>0, <1>1, <2>1, <2>2, InsertFacts
<1>3. CASE CorrectStep
  <2>1. PICK m \in Ids, c \in Contents : CanCorrect(m, c) /\ memories' = Corrected(m, c)
    BY <1>3 DEF CorrectStep
  <2>2. Allowed(m)
    <3>1. /\ memories'[m] = [memories[m] EXCEPT !.status = "superseded",
                                    !.superseded_by = Len(memories) + 1]
          /\ memories'[m] \in Row /\ memories[m] \in Row
          /\ Stored(m) /\ memories[m].status = "active"
      BY <2>1, CorrectFacts, Rows DEF CanCorrect
    <3>2. /\ memories'[m].content = memories[m].content
          /\ memories'[m].project = memories[m].project
          /\ memories'[m].origin = memories[m].origin
          /\ memories'[m].replaces = memories[m].replaces
      BY <3>1 DEF Row
    <3> QED BY <3>1, <3>2, <1>0
  <2>3. /\ memories' \in Seq(Table)
        /\ Len(memories') = Len(memories) + 1
        /\ \A i \in 1..Len(memories) : i # m => memories'[i] = memories[i]
    BY <2>1, CorrectFacts, Zenon
  <2> HIDE DEF Allowed
  <2> QED BY <1>0, <1>1, <2>2, <2>3
<1>4. CASE FlipStep
  <2>1. PICK m \in Ids, s \in {"active", "archived"} :
          /\ Stored(m)
          /\ memories[m].status \in {"active", "archived"}
          /\ memories' = [memories EXCEPT ![m].status = s]
    BY <1>4 DEF FlipStep
  <2>2. Allowed(m)
    <3>1. /\ memories'[m] = [memories[m] EXCEPT !.status = s]
          /\ memories'[m] \in Row /\ memories[m] \in Row
      BY <2>1, FlipFacts, Rows
    <3>2. /\ memories'[m].content = memories[m].content
          /\ memories'[m].project = memories[m].project
          /\ memories'[m].origin = memories[m].origin
          /\ memories'[m].replaces = memories[m].replaces
      BY <3>1 DEF Row
    <3> QED BY <2>1, <3>1, <3>2, <1>0
  <2>3. /\ memories' \in Seq(Table)
        /\ Len(memories') = Len(memories)
        /\ \A i \in 1..Len(memories) : i # m => memories'[i] = memories[i]
    BY <2>1, FlipFacts, Zenon
  <2> HIDE DEF Allowed
  <2> QED BY <1>0, <1>1, <2>2, <2>3
<1>5. CASE DeleteStep
  <2>1. PICK m \in Ids : DeleteMemory(m)
    BY <1>5 DEF DeleteStep
  <2>2. Allowed(m)
    BY <2>1, DeleteFacts DEF DeleteMemory
  <2>3. /\ memories' \in Seq(Table)
        /\ Len(memories') \in Nat /\ Len(memories') >= Len(memories)
        /\ \A i \in 1..Len(memories) : i # m => memories'[i] = memories[i]
    BY <1>0, <2>1, DeleteFacts
  <2> HIDE DEF Allowed
  <2> QED BY <1>0, <1>1, <2>2, <2>3
<1>6. CASE ImportStep
  <2>1. PICK E \in Manifests : ImportProfile(E)
    BY <1>6 DEF ImportStep
  <2> HIDE DEF Allowed
  <2> QED BY <1>0, <1>1, <2>1, ImportFacts
<1>7. CASE UNCHANGED memories
  BY <1>0, <1>1, <1>7 DEF TypeOK, Table
<1> QED BY <1>2, <1>3, <1>4, <1>5, <1>6, <1>7, StepCases

\* The links of the rows agree after every step.
LEMMA LinksKept ==
  ASSUME TypeOK, LinksAgree, [Next]_vars
  PROVE  LinksAgree'
<1> DEFINE Links(tbl, m) ==
      tbl[m] # Absent =>
        /\ tbl[m].replaces # 0 =>
             /\ tbl[m].replaces < m
             /\ tbl[m].replaces \in 1..Len(tbl) /\ tbl[tbl[m].replaces] # Absent
             /\ tbl[tbl[m].replaces].superseded_by = m
        /\ tbl[m].superseded_by # 0 =>
             /\ tbl[m].superseded_by > m
             /\ tbl[m].superseded_by \in 1..Len(tbl)
             /\ tbl[tbl[m].superseded_by] # Absent
             /\ tbl[tbl[m].superseded_by].replaces = m
        /\ (tbl[m].superseded_by # 0) <=> (tbl[m].status = "superseded")
<1>0. /\ Len(memories) \in Nat /\ Absent \notin Row
      /\ \A m \in 1..Len(memories) : memories[m] # Absent => memories[m] \in Row
      /\ \A m : Stored(m) <=> m \in 1..Len(memories) /\ memories[m] # Absent
  BY Rows DEF Stored, Table
<1>1. \A m \in 1..Len(memories) : Links(memories, m)
  BY DEF LinksAgree, Stored
<1> SUFFICES ASSUME NEW i \in 1..Len(memories') PROVE Links(memories', i)
  BY DEF LinksAgree, Stored
<1>2. CASE InsertStep
  <2>1. PICK c \in Contents, p \in Scopes :
          memories' = Append(memories, NewRow(c, p, "other", 0))
    BY <1>2 DEF InsertStep
  <2>2. NewRow(c, p, "other", 0) \in Row
    BY NewRowType, MaxRowsAssumption
  <2>3. /\ Len(memories') = Len(memories) + 1
        /\ \A j \in 1..Len(memories) : memories'[j] = memories[j]
        /\ memories'[Len(memories) + 1] = NewRow(c, p, "other", 0)
    BY <2>1, <2>2, InsertFacts
  <2>4. CASE i = Len(memories) + 1
    BY <2>3, <2>4 DEF NewRow
  <2>5. CASE i # Len(memories) + 1
    BY <1>0, <1>1, <2>3, <2>5
  <2> QED BY <2>4, <2>5
<1>3. CASE CorrectStep
  <2>1. PICK m \in Ids, c \in Contents : CanCorrect(m, c) /\ memories' = Corrected(m, c)
    BY <1>3 DEF CorrectStep
  <2> DEFINE next == Len(memories) + 1
             new == NewRow(c, memories[m].project, memories[m].origin, m)
             old == [memories[m] EXCEPT !.status = "superseded",
                                        !.superseded_by = next]
  <2>2. /\ Len(memories') = next /\ m \in 1..Len(memories)
        /\ \A j \in 1..Len(memories) : j # m => memories'[j] = memories[j]
        /\ memories'[m] = old /\ old \in Row
        /\ memories'[next] = new /\ new \in Row
    BY <2>1, CorrectFacts, Zenon
  <2>3. /\ memories[m] \in Row /\ memories[m].status = "active"
        /\ memories[m] # Absent /\ memories[m].superseded_by = 0
    <3>1. m \in 1..Len(memories) /\ memories[m] # Absent
          /\ memories[m].status = "active"
      BY <1>0, <2>1 DEF CanCorrect
    <3> QED BY <1>0, <1>1, <3>1
  <2>4. /\ new.replaces = m /\ new.superseded_by = 0 /\ new.status = "active"
        /\ old.replaces = memories[m].replaces /\ old.superseded_by = next
        /\ old.status = "superseded"
    BY <2>3 DEF NewRow, Row
  <2> HIDE DEF new, old
  <2>5. CASE i = next
    BY <1>0, <2>2, <2>4, <2>5
  <2>6. CASE i = m
    BY <1>0, <1>1, <2>2, <2>3, <2>4, <2>6
  <2>7. CASE i # next /\ i # m
    <3>1. i \in 1..Len(memories) /\ memories'[i] = memories[i] /\ Links(memories, i)
      BY <1>0, <1>1, <2>2, <2>7
    <3>2. ASSUME memories[i] # Absent, memories[i].replaces # 0
          PROVE  /\ memories[i].replaces \in 1..Len(memories')
                 /\ memories'[memories[i].replaces] = memories[memories[i].replaces]
      <4>1. memories[i].replaces # m
        BY <1>0, <2>3, <3>1, <3>2
      <4> QED BY <1>0, <2>2, <3>1, <3>2, <4>1
    <3>3. ASSUME memories[i] # Absent, memories[i].superseded_by # 0
          PROVE  /\ memories[i].superseded_by \in 1..Len(memories')
                 /\ memories'[memories[i].superseded_by] # Absent
                 /\ memories'[memories[i].superseded_by].replaces
                      = memories[memories[i].superseded_by].replaces
      <4>1. memories[i].superseded_by \in 1..Len(memories)
        BY <3>1, <3>3
      <4>2. CASE memories[i].superseded_by = m
        BY <1>0, <2>2, <2>4, <4>1, <4>2
      <4>3. CASE memories[i].superseded_by # m
        BY <1>0, <2>2, <3>1, <3>3, <4>1, <4>3
      <4> QED BY <4>2, <4>3
    <3> QED BY <3>1, <3>2, <3>3
  <2> QED BY <2>5, <2>6, <2>7
<1>4. CASE FlipStep
  <2>1. PICK m \in Ids, s \in {"active", "archived"} :
          /\ Stored(m)
          /\ memories[m].status \in {"active", "archived"}
          /\ memories[m].superseded_by = 0
          /\ memories' = [memories EXCEPT ![m].status = s]
    BY <1>4 DEF FlipStep
  <2>2. /\ Len(memories') = Len(memories) /\ m \in 1..Len(memories)
        /\ \A j \in 1..Len(memories) : j # m => memories'[j] = memories[j]
        /\ memories'[m] = [memories[m] EXCEPT !.status = s]
        /\ memories'[m] \in Row
    BY <2>1, FlipFacts, Zenon
  <2>3. /\ memories'[m].replaces = memories[m].replaces
        /\ memories'[m].superseded_by = 0 /\ memories'[m].status = s
        /\ memories[m] # Absent /\ memories'[m] # Absent
    BY <1>0, <2>1, <2>2 DEF Row
  <2> QED BY <1>0, <1>1, <2>1, <2>2, <2>3
<1>5. CASE DeleteStep
  <2>1. PICK m \in Ids : DeleteMemory(m)
    BY <1>5 DEF DeleteStep
  <2>2. /\ Len(memories') = Len(memories) /\ m \in 1..Len(memories)
        /\ memories[m] \in Row /\ memories[m] # Absent
        /\ memories[m].replaces = 0 /\ memories[m].superseded_by = 0
        /\ \A j \in 1..Len(memories) : j # m => memories'[j] = memories[j]
        /\ memories'[m] = Absent
    BY <1>0, <2>1, DeleteFacts
  <2> QED BY <1>0, <1>1, <2>2
<1>6. CASE ImportStep
  <2>1. PICK E \in Manifests : ImportProfile(E)
    BY <1>6 DEF ImportStep
  <2>2. /\ Len(memories') \in Nat /\ Len(memories') >= Len(memories)
        /\ \A j \in 1..Len(memories) : memories'[j] = memories[j]
        /\ \A j \in (Len(memories) + 1)..Len(memories') :
             /\ memories'[j].replaces = 0 /\ memories'[j].superseded_by = 0
             /\ memories'[j].status = "active"
    BY <2>1, ImportFacts
  <2>3. CASE i > Len(memories)
    BY <1>0, <2>2, <2>3
  <2>4. CASE i <= Len(memories)
    BY <1>0, <1>1, <2>2, <2>4
  <2> QED BY <1>0, <2>2, <2>3, <2>4
<1>7. CASE UNCHANGED memories
  BY <1>1, <1>7
<1> QED BY <1>2, <1>3, <1>4, <1>5, <1>6, <1>7, StepCases

\* No import, and no other step, puts an imported row after an equivalent one.
LEMMA ImportsKept ==
  ASSUME TypeOK, LinksAgree, ImportAddsOnlyNew, [Next]_vars
  PROVE  ImportAddsOnlyNew'
<1> DEFINE KeyOf(tbl, m) == Key(tbl[m].content, tbl[m].project)
<1>0. /\ Len(memories) \in Nat /\ Absent \notin Row
      /\ \A m \in 1..Len(memories) : memories[m] # Absent => memories[m] \in Row
      /\ \A m : Stored(m) <=> m \in 1..Len(memories) /\ memories[m] # Absent
  BY Rows DEF Stored, Table
<1>1. /\ Len(memories') \in Nat /\ Len(memories') >= Len(memories)
      /\ \A m \in 1..Len(memories) : memories'[m] # Absent =>
           /\ memories[m] # Absent
           /\ memories'[m].content = memories[m].content
           /\ memories'[m].project = memories[m].project
           /\ memories'[m].origin = memories[m].origin
           /\ memories'[m].replaces = memories[m].replaces
  BY TableKept, <1>0
<1> SUFFICES ASSUME NEW n \in 1..Len(memories'), memories'[n] # Absent,
                    memories'[n].origin = "import", memories'[n].replaces = 0,
                    NEW m \in 1..(n - 1), memories'[m] # Absent
             PROVE  KeyOf(memories', m) # KeyOf(memories', n)
  BY DEF ImportAddsOnlyNew, Stored, RowKey
<1>2. CASE n <= Len(memories)
  <2>1. n \in 1..Len(memories) /\ m \in 1..Len(memories)
    BY <1>0, <1>1, <1>2
  <2>2. KeyOf(memories, m) # KeyOf(memories, n)
    BY <1>0, <1>1, <2>1 DEF ImportAddsOnlyNew, RowKey
  <2> QED BY <1>1, <2>1, <2>2
<1>3. CASE n > Len(memories)
  <2>1. CASE InsertStep
    <3>1. PICK c \in Contents, p \in Scopes :
            memories' = Append(memories, NewRow(c, p, "other", 0))
      BY <2>1 DEF InsertStep
    <3>2. NewRow(c, p, "other", 0) \in Row
      BY NewRowType, MaxRowsAssumption
    <3>3. memories'[n] = NewRow(c, p, "other", 0)
      BY <1>0, <1>3, <3>1, <3>2, InsertFacts
    <3> QED BY <3>3 DEF NewRow
  <2>2. CASE CorrectStep
    <3>1. PICK o \in Ids, c \in Contents :
            CanCorrect(o, c) /\ memories' = Corrected(o, c)
      BY <2>2 DEF CorrectStep
    <3>2. /\ Len(memories') = Len(memories) + 1
          /\ memories'[Len(memories) + 1] =
               NewRow(c, memories[o].project, memories[o].origin, o)
      BY <3>1, CorrectFacts, Zenon
    <3> QED BY <1>0, <1>3, <3>2, MaxRowsAssumption DEF NewRow, Ids
  <2>3. CASE FlipStep
    <3>1. PICK o \in Ids, s \in {"active", "archived"} :
            Stored(o) /\ memories' = [memories EXCEPT ![o].status = s]
      BY <2>3 DEF FlipStep
    <3>2. Len(memories') = Len(memories)
      BY <3>1, FlipFacts, Zenon
    <3> QED BY <1>0, <1>3, <3>2
  <2>4. CASE DeleteStep
    <3>1. Len(memories') = Len(memories)
      BY <2>4, DeleteFacts DEF DeleteStep
    <3> QED BY <1>0, <1>3, <3>1
  <2>5. CASE ImportStep
    <3>1. PICK E \in Manifests : ImportProfile(E)
      BY <2>5 DEF ImportStep
    <3>2. n \in (Len(memories) + 1)..Len(memories')
      BY <1>0, <1>1, <1>3
    <3>3. CASE m <= Len(memories)
      <4>1. m \in 1..Len(memories) /\ Stored(m)
        BY <1>0, <1>1, <3>3
      <4>2. RowKey(m) # KeyOf(memories', n)
        BY <3>1, <3>2, <4>1, ImportFacts
      <4> QED BY <1>1, <4>1, <4>2 DEF RowKey
    <3>4. CASE m > Len(memories)
      <4>1. m \in (Len(memories) + 1)..Len(memories') /\ m # n
        BY <1>0, <1>1, <3>2, <3>4
      <4> QED BY <3>1, <3>2, <4>1, ImportFacts
    <3> QED BY <1>0, <3>3, <3>4
  <2>6. CASE UNCHANGED memories
    BY <1>0, <1>3, <2>6
  <2> QED BY <2>1, <2>2, <2>3, <2>4, <2>5, <2>6, StepCases
<1> QED BY <1>0, <1>1, <1>2, <1>3

-----------------------------------------------------------------------------
\* What a history request holds after its first read.
LEMMA AskFacts ==
  ASSUME TypeOK, NEW m \in Ids, Stored(m)
  PROVE  [phase |-> "back", ask |-> m, id |-> m, row |-> memories[m],
          behind |-> {}, seen |-> {}, out |-> <<>>] \in Walk
<1>1. memories[m] \in Row /\ m \in 0..MaxRows
  BY Rows, MaxRowsAssumption DEF Ids
<1>2. <<>> \in Seq([id: Ids, status: {"active", "superseded", "archived"}])
  OBVIOUS
<1> QED BY <1>1, <1>2 DEF Walk

\* What it holds after a read of the previous version.
LEMMA PreviousFacts ==
  ASSUME TypeOK, NEW w \in Walk, w.id \in Ids, NEW x \in Ids, Stored(x)
  PROVE  LET v == [w EXCEPT !.behind = @ \cup {w.id}, !.id = x,
                            !.row = memories[x]]
         IN  /\ v \in Walk
             /\ v.phase = w.phase /\ v.ask = w.ask /\ v.id = x
             /\ v.row = memories[x] /\ v.behind = w.behind \cup {w.id}
             /\ v.seen = w.seen /\ v.out = w.out
<1>1. memories[x] \in Row /\ x \in 0..MaxRows
  BY Rows, MaxRowsAssumption DEF Ids
<1>2. w.behind \cup {w.id} \in SUBSET Ids
  BY DEF Walk
<1> QED BY <1>1, <1>2 DEF Walk

\* ReadNext lists the row at hand.
Listing(w) ==
  [w EXCEPT !.seen = w.seen \cup {w.id},
            !.out = Append(@, [id |-> w.id, status |-> w.row.status])]

\* What it holds once the row at hand is listed.
LEMMA ListingFacts ==
  ASSUME NEW w \in Walk, w.id \in Ids, w.row \in Row
  PROVE  /\ Listing(w) \in Walk
         /\ Listing(w).phase = w.phase /\ Listing(w).ask = w.ask
         /\ Listing(w).behind = w.behind
         /\ Listing(w).seen = w.seen \cup {w.id}
         /\ Len(w.out) \in Nat
         /\ Len(Listing(w).out) = Len(w.out) + 1
         /\ \A i \in 1..Len(w.out) : Listing(w).out[i] = w.out[i]
         /\ Listing(w).out[Len(w.out) + 1].id = w.id
         /\ Listing(w).out[Len(w.out) + 1].status = w.row.status
<1> DEFINE Line == [id: Ids, status: {"active", "superseded", "archived"}]
           line == [id |-> w.id, status |-> w.row.status]
<1>1. line \in Line /\ w.out \in Seq(Line)
  BY DEF Row, Walk
<1>2. line.id = w.id /\ line.status = w.row.status
  OBVIOUS
<1>3. /\ Append(w.out, line) \in Seq(Line)
      /\ Len(Append(w.out, line)) = Len(w.out) + 1 /\ Len(w.out) \in Nat
      /\ \A i \in 1..Len(w.out) : Append(w.out, line)[i] = w.out[i]
      /\ Append(w.out, line)[Len(w.out) + 1] = line
  <2> HIDE DEF line, Line
  <2> QED BY <1>1, AppendProperties, LenProperties
<1>4. w.seen \cup {w.id} \in SUBSET Ids
  BY DEF Walk
<1>5. /\ Listing(w).out = Append(w.out, line)
      /\ Listing(w).phase = w.phase /\ Listing(w).ask = w.ask
      /\ Listing(w).behind = w.behind
      /\ Listing(w).seen = w.seen \cup {w.id}
  BY DEF Listing, Walk
<1>6. Listing(w) \in Walk
  <2>1. Append(w.out, line) \in Seq(Line)
    BY <1>3
  <2> HIDE DEF line
  <2> QED BY <1>4, <2>1 DEF Listing, Walk, line
<1> HIDE DEF line
<1> QED BY <1>2, <1>3, <1>5, <1>6

\* The three outcomes of a read of the next version.
LEMMA NextFacts ==
  ASSUME TypeOK, NEW w \in Walk, w.id \in Ids, w.row \in Row
  PROVE  /\ LET v == [Listing(w) EXCEPT !.phase = "done"]
            IN  /\ v \in Walk /\ v.phase = "done" /\ v.ask = w.ask
                /\ v.out = Listing(w).out
         /\ \A x \in Ids : \A to \in {"broken", "forward"} : Stored(x) =>
              LET v == [Listing(w) EXCEPT !.phase = to, !.id = x,
                                          !.row = memories[x]]
              IN  /\ v \in Walk /\ v.phase = to /\ v.ask = w.ask
                  /\ v.id = x /\ v.row = memories[x]
                  /\ v.behind = w.behind
                  /\ v.seen = w.seen \cup {w.id}
                  /\ v.out = Listing(w).out
<1>1. /\ Listing(w) \in Walk /\ Listing(w).ask = w.ask
      /\ Listing(w).behind = w.behind /\ Listing(w).seen = w.seen \cup {w.id}
  BY ListingFacts
<1>2. \A x \in Ids : Stored(x) => memories[x] \in Row /\ x \in 0..MaxRows
  BY Rows, MaxRowsAssumption DEF Ids
<1>3. LET v == [Listing(w) EXCEPT !.phase = "done"]
      IN  /\ v \in Walk /\ v.phase = "done" /\ v.ask = w.ask
          /\ v.out = Listing(w).out
  BY <1>1 DEF Walk
<1>4. ASSUME NEW x \in Ids, NEW to \in {"broken", "forward"}, Stored(x)
      PROVE  LET v == [Listing(w) EXCEPT !.phase = to, !.id = x,
                                         !.row = memories[x]]
             IN  /\ v \in Walk /\ v.phase = to /\ v.ask = w.ask
                 /\ v.id = x /\ v.row = memories[x]
                 /\ v.behind = w.behind
                 /\ v.seen = w.seen \cup {w.id}
                 /\ v.out = Listing(w).out
  BY <1>1, <1>2, <1>4 DEF Walk
<1> QED BY <1>3, <1>4

\* What the other requests write leaves a history request's findings true.
LEMMA WalkSurvives ==
  ASSUME TypeOK, LinksAgree, [Next]_vars, NEW r \in Readers,
         WalkInv(walks[r]), walks'[r] = walks[r]
  PROVE  WalkInv(walks[r])'
<1> DEFINE w == walks[r]
<1>0. /\ Len(memories) \in Nat /\ Len(memories') \in Nat
      /\ Len(memories') >= Len(memories) /\ Absent \notin Row
      /\ w \in Walk
  BY TableKept, Rows DEF TypeOK
<1>1. \A x \in 1..Len(memories) :
        /\ Stored(x)' => Stored(x) /\ memories'[x].replaces = memories[x].replaces
        /\ Stored(x) /\ memories[x].replaces # 0 => Stored(x)'
        /\ Stored(x) /\ memories[x].superseded_by # 0 =>
             Stored(x)' /\ memories'[x] = memories[x]
  <2> TAKE x \in 1..Len(memories)
  <2>1. Stored(x) => memories[x] # Absent
    BY DEF Stored
  <2>2. x \in 1..Len(memories')
    BY <1>0
  <2>3. Stored(x)' <=> memories'[x] # Absent
    BY <2>2 DEF Stored
  <2>4. Stored(x) /\ memories[x].superseded_by # 0 => memories[x].status = "superseded"
    BY <2>1 DEF LinksAgree
  <2> QED BY <2>1, <2>3, <2>4, TableKept
<1>2. \A x : Stored(x) => x \in 1..Len(memories)
  BY DEF Stored
<1>3. ASSUME RowAtHand(w) PROVE RowAtHand(w)'
  <2>1. w.id \in 1..Len(memories) /\ w.id \in 1..Len(memories') /\ w.row \in Row
    BY <1>0, <1>3 DEF RowAtHand
  <2>2. w.row.superseded_by # 0 => memories'[w.id] = w.row
    <3> HAVE w.row.superseded_by # 0
    <3>1. memories[w.id] = w.row /\ Stored(w.id)
      BY <1>0, <1>3, <2>1 DEF RowAtHand, Stored
    <3> QED BY <1>1, <2>1, <3>1
  <2>3. w.row.replaces # 0 => Stored(w.id)'
    <3> HAVE w.row.replaces # 0
    <3>1. Stored(w.id) /\ memories[w.id].replaces # 0
      BY <1>3 DEF RowAtHand
    <3> QED BY <1>1, <2>1, <3>1
  <2>4. Stored(w.id)' => memories'[w.id].replaces = w.row.replaces
    BY <1>1, <1>3, <2>1 DEF RowAtHand
  <2> QED BY <1>3, <2>1, <2>2, <2>3, <2>4 DEF RowAtHand
<1>4. ASSUME LeadsToAsked(w) PROVE LeadsToAsked(w)'
  <2>1. ASSUME NEW x \in w.behind, x # w.ask
        PROVE  Stored(x)' /\ memories'[x].superseded_by \in w.behind
    <3>1. Stored(x) /\ memories[x].superseded_by \in w.behind
      BY <1>4, <2>1 DEF LeadsToAsked
    <3>2. memories[x].superseded_by # 0
      BY <1>0, <3>1, MaxRowsAssumption DEF Walk, Ids
    <3> QED BY <1>1, <1>2, <3>1, <3>2
  <2> QED BY <1>4, <2>1 DEF LeadsToAsked
<1>5. ASSUME Listed(w) PROVE Listed(w)'
  <2>1. w.out \in Seq([id: Ids, status: {"active", "superseded", "archived"}])
    BY <1>0 DEF Walk
  <2>2. /\ Len(w.out) \in Nat /\ Len(w.out) > 0
        /\ \A i \in 1..Len(w.out) : w.out[i].id \in 1..Len(memories) /\ w.out[i].id \in Ids
    <3> DEFINE Line == [id: Ids, status: {"active", "superseded", "archived"}]
    <3>0. Len(w.out) \in Nat /\ \A i \in 1..Len(w.out) : w.out[i] \in Line
      <4>1. w.out \in Seq(Line)
        BY <2>1
      <4> HIDE DEF Line
      <4> QED BY <4>1, ElementOfSeq, LenProperties
    <3>1. Len(w.out) \in Nat /\ \A i \in 1..Len(w.out) : w.out[i].id \in Ids
      BY <3>0
    <3> QED BY <1>5, <3>1 DEF Listed
  <2>3. \A i \in 1..Len(w.out) : w.out[i].id \in 1..Len(memories')
    BY <1>0, <2>2
  <2>4. Stored(w.out[1].id)' => memories'[w.out[1].id].replaces = 0
    BY <1>1, <1>5, <2>2 DEF Listed
  <2>5. ASSUME NEW i \in 1..(Len(w.out) - 1)
        PROVE  /\ Stored(w.out[i].id)'
               /\ memories'[w.out[i].id].superseded_by = w.out[i + 1].id
    <3>1. /\ Stored(w.out[i].id)
          /\ memories[w.out[i].id].superseded_by = w.out[i + 1].id
      BY <1>5 DEF Listed
    <3>2. i + 1 \in 1..Len(w.out) /\ i \in 1..Len(w.out)
      BY <2>2
    <3>3. w.out[i + 1].id # 0
      BY <2>2, <3>2, MaxRowsAssumption DEF Ids
    <3> QED BY <1>1, <1>2, <3>1, <3>3
  <2> QED BY <1>5, <2>2, <2>3, <2>4, <2>5 DEF Listed
<1>6. ASSUME Forward(w), RowAtHand(w) PROVE Forward(w)'
  <2>1. /\ Stored(w.out[Len(w.out)].id)
        /\ memories[w.out[Len(w.out)].id].superseded_by = w.id /\ w.id # 0
    BY <1>0, <1>6 DEF Forward, RowAtHand
  <2>2. /\ Stored(w.out[Len(w.out)].id)'
        /\ memories'[w.out[Len(w.out)].id].superseded_by = w.id
    BY <1>1, <1>2, <2>1
  <2> QED BY <1>5, <1>6, <2>2 DEF Forward
<1>7. Backward(w) => Backward(w)'
  BY DEF Backward
<1>8. Complete(w) => Complete(w)'
  BY <1>5 DEF Complete
<1> QED BY <1>3, <1>4, <1>6, <1>7, <1>8 DEF WalkInv

-----------------------------------------------------------------------------
\* A request starts with the row it asked for.
LEMMA AskInv ==
  ASSUME TypeOK, LinksAgree, NEW m \in Ids, Stored(m)
  PROVE  WalkInv([phase |-> "back", ask |-> m, id |-> m, row |-> memories[m],
                  behind |-> {}, seen |-> {}, out |-> <<>>])
<1> DEFINE v == [phase |-> "back", ask |-> m, id |-> m, row |-> memories[m],
                 behind |-> {}, seen |-> {}, out |-> <<>>]
<1>1. /\ v.phase = "back" /\ v.ask = m /\ v.id = m /\ v.row = memories[m]
      /\ v.behind = {} /\ v.seen = {} /\ v.out = <<>>
  OBVIOUS
<1>2. /\ m \in 1..Len(memories) /\ memories[m] \in Row
      /\ (memories[m].superseded_by # 0) <=> (memories[m].status = "superseded")
  BY Rows DEF LinksAgree
<1> HIDE DEF v
<1>3. RowAtHand(v)
  BY <1>1, <1>2 DEF RowAtHand
<1>4. LeadsToAsked(v) /\ Backward(v)
  BY <1>1 DEF LeadsToAsked, Backward
<1>5. WalkInv(v)
  BY <1>1, <1>3, <1>4 DEF WalkInv
<1> QED BY <1>5 DEF v

\* The version before the row at hand is stored, was not visited yet, and
\* leads on to the row asked for.
LEMMA PreviousInv ==
  ASSUME TypeOK, LinksAgree, NEW w \in Walk, WalkInv(w),
         w.phase = "back", w.row.replaces # 0
  PROVE  /\ w.id \in Ids /\ w.id \notin w.behind
         /\ w.row.replaces \in Ids /\ Stored(w.row.replaces)
         /\ WalkInv([w EXCEPT !.behind = @ \cup {w.id}, !.id = w.row.replaces,
                              !.row = memories[w.row.replaces]])
<1> DEFINE x == w.row.replaces
           v == [w EXCEPT !.behind = @ \cup {w.id}, !.id = x,
                          !.row = memories[x]]
<1>1. RowAtHand(w) /\ LeadsToAsked(w) /\ Backward(w)
  BY DEF WalkInv
<1>2. /\ w.id \in 1..Len(memories) /\ Stored(w.id) /\ memories[w.id] # Absent
      /\ memories[w.id].replaces = x /\ w.row \in Row
  BY <1>1 DEF RowAtHand, Stored
<1>3. /\ x < w.id /\ Stored(x) /\ memories[x].superseded_by = w.id
  BY <1>2 DEF LinksAgree
<1>4. /\ x \in 1..Len(memories) /\ memories[x] \in Row /\ memories[x] # Absent
      /\ x \in Ids /\ w.id \in Ids /\ w.id # 0
      /\ (memories[x].superseded_by # 0) <=> (memories[x].status = "superseded")
  BY <1>2, <1>3, Rows DEF LinksAgree, Stored, Ids
<1>5. w.id \notin w.behind
  BY <1>1, <1>4 DEF Backward, Ids
<1>6. /\ v.phase = "back" /\ v.ask = w.ask /\ v.id = x
      /\ v.row = memories[x] /\ v.behind = w.behind \cup {w.id}
      /\ v.seen = w.seen /\ v.out = w.out
  BY <1>3, <1>4, PreviousFacts
<1> HIDE DEF v
<1>7. RowAtHand(v)
  BY <1>3, <1>4, <1>6 DEF RowAtHand
<1>8. w.id # w.ask => /\ memories[w.id].superseded_by \in w.behind
  BY <1>1 DEF LeadsToAsked, Backward, RowAtHand
<1>9. LeadsToAsked(v)
  BY <1>1, <1>2, <1>3, <1>4, <1>6, <1>8 DEF LeadsToAsked
<1>10. Backward(v)
  <2>1. \A y \in w.behind : y > x
    <3>1. w.behind \subseteq Ids
      BY DEF Walk
    <3> QED BY <1>1, <1>3, <1>4, <3>1 DEF Backward, Ids
  <2> QED BY <1>1, <1>3, <1>6, <2>1 DEF Backward
<1>11. WalkInv(v)
  BY <1>6, <1>7, <1>9, <1>10 DEF WalkInv
<1> QED BY <1>3, <1>4, <1>5, <1>11 DEF v

\* The row at hand is listed, and what follows it in the table is what the
\* next read finds: nothing, or a version that was not listed yet.
LEMMA NextInv ==
  ASSUME TypeOK, LinksAgree, NEW w \in Walk, WalkInv(w), OldestReached(w)
  PROVE  LET x == w.row.superseded_by IN
         /\ w.id \in Ids /\ w.row \in Row
         /\ ~Stored(x) => WalkInv([Listing(w) EXCEPT !.phase = "done"])
         /\ Stored(x) =>
              /\ x \in Ids /\ x \notin w.seen \cup {w.id}
              /\ WalkInv([Listing(w) EXCEPT !.phase = "forward", !.id = x,
                                            !.row = memories[x]])
<1> DEFINE x == w.row.superseded_by
           out == Listing(w).out
           n == Len(w.out)
           last == w.out[Len(w.out)]
<1>1. /\ w.phase \in {"back", "forward"} /\ RowAtHand(w) /\ LeadsToAsked(w)
      /\ w.phase = "back" => Backward(w) /\ w.row.replaces = 0
      /\ w.phase = "forward" => Forward(w)
  BY DEF WalkInv, OldestReached
<1>2. /\ w.id \in 1..Len(memories) /\ w.row \in Row /\ w.id \in Ids /\ w.id # 0
      /\ w.behind \subseteq Ids /\ w.seen \subseteq Ids /\ Absent \notin Row
      /\ Len(memories) \in Nat /\ x \in 0..MaxRows
  BY <1>1, Rows DEF RowAtHand, Walk, Ids, Row
<1>3. x # 0 => /\ Stored(w.id) /\ memories[w.id] = w.row
               /\ w.row.status = "superseded"
               /\ x > w.id /\ Stored(x) /\ memories[x].replaces = w.id
               /\ x \in 1..Len(memories) /\ memories[x] \in Row
  <2> HAVE x # 0
  <2>1. memories[w.id] = w.row /\ memories[w.id] # Absent
    BY <1>1, <1>2 DEF RowAtHand
  <2>2. /\ w.row.status = "superseded" /\ Stored(w.id)
        /\ x > w.id /\ Stored(x) /\ memories[x].replaces = w.id
    BY <1>2, <2>1 DEF LinksAgree, Stored
  <2> QED BY <2>1, <2>2, Rows
<1>4. ~Stored(0)
  BY <1>2 DEF Stored
<1>5. /\ n \in Nat /\ Len(out) = n + 1
      /\ \A i \in 1..n : out[i] = w.out[i]
      /\ out[n + 1].id = w.id /\ out[n + 1].status = w.row.status
  BY <1>2, ListingFacts
<1>6. w.phase = "back" => n = 0
  BY <1>1 DEF Backward
<1>7. w.phase = "forward" =>
        /\ n > 0 /\ n \in 1..n
        /\ Listed(w) /\ Stored(w.out[n].id)
        /\ memories[w.out[n].id].superseded_by = w.id
        /\ w.out[n].status = "superseded"
  BY <1>1, <1>5 DEF Forward, Listed
<1> HIDE DEF out, n
<1>8. /\ Len(out) > 0
      /\ \A i \in 1..Len(out) : out[i].id \in 1..Len(memories)
      /\ Stored(out[1].id) => memories[out[1].id].replaces = 0
      /\ \A i \in 1..(Len(out) - 1) :
           /\ Stored(out[i].id)
           /\ memories[out[i].id].superseded_by = out[i + 1].id
           /\ out[i].status = "superseded"
  <2>1. CASE w.phase = "back"
    <3>1. Len(out) = 1 /\ out[1].id = w.id
      BY <1>5, <1>6, <2>1
    <3>2. Stored(w.id) => memories[w.id].replaces = 0
      BY <1>1, <2>1 DEF RowAtHand
    <3> QED BY <1>2, <3>1, <3>2
  <2>2. CASE w.phase = "forward"
    <3>1. /\ \A i \in 1..n : w.out[i].id \in 1..Len(memories)
          /\ Stored(w.out[1].id) => memories[w.out[1].id].replaces = 0
          /\ \A i \in 1..(n - 1) :
               /\ Stored(w.out[i].id)
               /\ memories[w.out[i].id].superseded_by = w.out[i + 1].id
               /\ w.out[i].status = "superseded"
      BY <1>7, <2>2 DEF Listed, n
    <3>2. \A i \in 1..Len(out) : out[i].id \in 1..Len(memories)
      <4> TAKE i \in 1..Len(out)
      <4>1. CASE i = n + 1
        BY <1>2, <1>5, <4>1
      <4>2. CASE i # n + 1
        <5>1. i \in 1..n
          BY <1>5, <4>2
        <5> QED BY <1>5, <3>1, <5>1
      <4> QED BY <4>1, <4>2
    <3>3. Stored(out[1].id) => memories[out[1].id].replaces = 0
      <4>1. 1 \in 1..n
        BY <1>5, <1>7, <2>2
      <4> QED BY <1>5, <3>1, <4>1
    <3>4. ASSUME NEW i \in 1..(Len(out) - 1)
          PROVE  /\ Stored(out[i].id)
                 /\ memories[out[i].id].superseded_by = out[i + 1].id
                 /\ out[i].status = "superseded"
      <4>1. i \in 1..n /\ out[i] = w.out[i]
        BY <1>5
      <4>2. CASE i = n
        BY <1>5, <1>7, <2>2, <4>1, <4>2
      <4>3. CASE i # n
        <5>1. i \in 1..(n - 1) /\ i + 1 \in 1..n
          BY <1>5, <4>1, <4>3
        <5> QED BY <1>5, <3>1, <4>1, <5>1
      <4> QED BY <4>2, <4>3
    <3> QED BY <1>5, <3>2, <3>3, <3>4
  <2> QED BY <1>1, <2>1, <2>2
<1>9. \/ \E i \in 1..Len(out) : out[i].id = w.ask
      \/ /\ x # 0 /\ x \in w.behind /\ w.ask \in w.behind
  <2>0. n + 1 \in 1..Len(out)
    BY <1>5
  <2>1. CASE w.id = w.ask
    BY <1>5, <2>0, <2>1
  <2>2. CASE w.id # w.ask /\ w.phase = "back"
    BY <1>1, <2>2 DEF Backward, LeadsToAsked
  <2>3. CASE w.id # w.ask /\ w.phase = "forward"
    <3>1. CASE \E i \in 1..Len(w.out) : w.out[i].id = w.ask
      <4>1. PICK i \in 1..n : w.out[i].id = w.ask
        BY <3>1 DEF n
      <4>2. i \in 1..Len(out) /\ out[i].id = w.ask
        BY <1>5, <4>1
      <4> QED BY <4>2
    <3>2. CASE w.id \in w.behind /\ w.ask \in w.behind
      <4>1. x # 0 /\ memories[w.id].superseded_by \in w.behind
        BY <1>1, <2>3, <3>2 DEF LeadsToAsked
      <4> QED BY <1>3, <3>2, <4>1
    <3> QED BY <1>1, <2>3, <3>1, <3>2 DEF Forward
  <2> QED BY <1>1, <2>1, <2>2, <2>3
<1>10. ASSUME ~Stored(x)
       PROVE  WalkInv([Listing(w) EXCEPT !.phase = "done"])
  <2> DEFINE v == [Listing(w) EXCEPT !.phase = "done"]
  <2>1. v.phase = "done" /\ v.ask = w.ask /\ v.out = out
    BY <1>2, NextFacts DEF out
  <2> HIDE DEF v
  <2>2. x = 0 /\ w.row.status # "superseded"
    BY <1>1, <1>3, <1>10 DEF RowAtHand
  <2>3. out[Len(out)].status # "superseded"
    BY <1>5, <2>2
  <2>4. Listed(v)
    BY <1>8, <2>1 DEF Listed
  <2>5. Complete(v)
    BY <1>9, <2>1, <2>2, <2>3, <2>4 DEF Complete
  <2>6. WalkInv(v)
    BY <2>1, <2>5 DEF WalkInv
  <2> QED BY <2>6 DEF v
<1>11. ASSUME Stored(x)
       PROVE  /\ x \in Ids /\ x \notin w.seen \cup {w.id}
              /\ WalkInv([Listing(w) EXCEPT !.phase = "forward", !.id = x,
                                            !.row = memories[x]])
  <2> DEFINE v == [Listing(w) EXCEPT !.phase = "forward", !.id = x,
                                     !.row = memories[x]]
  <2>1. x # 0 /\ x \in Ids
    BY <1>2, <1>4, <1>11 DEF Ids
  <2>2. /\ v.phase = "forward" /\ v.ask = w.ask /\ v.id = x
        /\ v.row = memories[x] /\ v.behind = w.behind
        /\ v.seen = w.seen \cup {w.id} /\ v.out = out
    <3> DEFINE u == Listing(w)
    <3>1. /\ u \in Walk /\ u.ask = w.ask /\ u.behind = w.behind
          /\ u.seen = w.seen \cup {w.id}
      BY <1>2, ListingFacts
    <3>2. v = [u EXCEPT !.phase = "forward", !.id = x, !.row = memories[x]]
      OBVIOUS
    <3> HIDE DEF u, v
    <3>3. /\ v.phase = "forward" /\ v.ask = w.ask /\ v.id = x
          /\ v.row = memories[x] /\ v.behind = w.behind
          /\ v.seen = w.seen \cup {w.id} /\ v.out = u.out
      BY <3>1, <3>2 DEF Walk
    <3> QED BY <3>3 DEF out, u
  <2> HIDE DEF v
  <2>3. \A y \in w.seen \cup {w.id} : y < x
    <3>1. \A y \in w.seen : y < w.id
      BY <1>1 DEF Backward, Forward
    <3> QED BY <1>2, <1>3, <2>1, <3>1 DEF Ids
  <2>4. RowAtHand(v)
    <3>1. (memories[x].superseded_by # 0) <=> (memories[x].status = "superseded")
      BY <1>3, <1>11, <2>1 DEF LinksAgree, Stored
    <3> QED BY <1>3, <1>11, <2>1, <2>2, <3>1 DEF RowAtHand
  <2>5. LeadsToAsked(v)
    <3>1. \A y \in w.behind : y # w.ask =>
            Stored(y) /\ memories[y].superseded_by \in w.behind
      BY <1>1 DEF LeadsToAsked
    <3>2. x \in w.behind /\ x # w.ask => memories[x].superseded_by # 0
      BY <1>2, <3>1, MaxRowsAssumption DEF Ids
    <3> QED BY <2>2, <3>1, <3>2 DEF LeadsToAsked
  <2>6. Listed(v)
    BY <1>8, <2>2 DEF Listed
  <2>7. Forward(v)
    <3>1. /\ Stored(out[Len(out)].id)
          /\ memories[out[Len(out)].id].superseded_by = x
          /\ out[Len(out)].status = "superseded"
      BY <1>3, <1>5, <2>1
    <3> QED BY <1>9, <2>2, <2>3, <2>6, <3>1 DEF Forward
  <2>8. WalkInv(v)
    BY <2>2, <2>4, <2>5, <2>7 DEF WalkInv
  <2>9. x \notin w.seen \cup {w.id}
    BY <2>1, <2>3 DEF Ids
  <2> QED BY <2>1, <2>8, <2>9 DEF v
<1> QED BY <1>2, <1>10, <1>11

\* A step keeps what the walks hold well formed and true.
LEMMA WalksKept ==
  ASSUME TypeOK, LinksAgree, WalksFollowLinks, [Next]_vars
  PROVE  walks' \in [Readers -> Walk] /\ WalksFollowLinks'
<1>0. walks \in [Readers -> Walk]
  BY DEF TypeOK
<1>1. ASSUME UNCHANGED walks
      PROVE  walks' \in [Readers -> Walk] /\ WalksFollowLinks'
  <2>1. \A r \in Readers : walks'[r] = walks[r]
    BY <1>1
  <2> QED BY <1>0, <1>1, <2>1, WalkSurvives DEF WalksFollowLinks
<1>2. ASSUME NEW r \in Readers, NEW v \in Walk, WalkInv(v), UNCHANGED memories,
             walks' = [walks EXCEPT ![r] = v]
      PROVE  walks' \in [Readers -> Walk] /\ WalksFollowLinks'
  <2>1. walks' \in [Readers -> Walk]
    BY <1>0, <1>2
  <2>2. ASSUME NEW s \in Readers PROVE WalkInv(walks[s])'
    <3>1. CASE s = r
      <4>1. walks'[s] = v
        BY <1>0, <1>2, <3>1
      <4>2. WalkInv(v)'
        BY <1>2 DEF WalkInv, RowAtHand, LeadsToAsked, Backward, Forward,
           Complete, Listed, Stored
      <4> QED BY <4>1, <4>2
    <3>2. CASE s # r
      <4>1. walks'[s] = walks[s]
        BY <1>0, <1>2, <3>2
      <4> QED BY <4>1, WalkSurvives DEF WalksFollowLinks
    <3> QED BY <3>1, <3>2
  <2> QED BY <2>1, <2>2 DEF WalksFollowLinks
<1>3. ASSUME NEW r \in Readers, NEW m \in Ids, AskHistory(r, m)
      PROVE  walks' \in [Readers -> Walk] /\ WalksFollowLinks'
  BY <1>2, <1>3, AskFacts, AskInv DEF AskHistory, UnchangedTables
<1>4. ASSUME NEW r \in Readers, ReadPrevious(r)
      PROVE  walks' \in [Readers -> Walk] /\ WalksFollowLinks'
  <2> DEFINE w == walks[r]
             x == w.row.replaces
             v == [w EXCEPT !.behind = @ \cup {w.id}, !.id = x,
                            !.row = memories[x]]
  <2>1. w \in Walk /\ WalkInv(w) /\ w.phase = "back" /\ x # 0 /\ UNCHANGED memories
    BY <1>0, <1>4 DEF ReadPrevious, WalksFollowLinks, UnchangedTables
  <2>2. /\ w.id \in Ids /\ w.id \notin w.behind /\ x \in Ids /\ Stored(x)
        /\ WalkInv(v)
    BY <2>1, PreviousInv
  <2>3. v \in Walk
    BY <2>1, <2>2, PreviousFacts
  <2>4. walks' = [walks EXCEPT ![r] = v]
    BY <1>4, <2>2 DEF ReadPrevious
  <2> HIDE DEF v
  <2> QED BY <1>2, <2>1, <2>2, <2>3, <2>4
<1>5. ASSUME NEW r \in Readers, ReadNext(r)
      PROVE  walks' \in [Readers -> Walk] /\ WalksFollowLinks'
  <2> DEFINE w == walks[r]
             x == w.row.superseded_by
  <2>1. w \in Walk /\ WalkInv(w) /\ OldestReached(w) /\ UNCHANGED memories
    BY <1>0, <1>5 DEF ReadNext, WalksFollowLinks, UnchangedTables
  <2>2. walks' = [walks EXCEPT ![r] =
          IF ~Stored(x) THEN [Listing(w) EXCEPT !.phase = "done"]
          ELSE [Listing(w) EXCEPT
                  !.phase = IF x \in w.seen \cup {w.id} THEN "broken" ELSE "forward",
                  !.id = x, !.row = memories[x]]]
    BY <1>5 DEF ReadNext, Listing
  <2>3. w.id \in Ids /\ w.row \in Row
    BY <2>1, NextInv
  <2>4. CASE ~Stored(x)
    <3> DEFINE v == [Listing(w) EXCEPT !.phase = "done"]
    <3>1. WalkInv(v)
      BY <2>1, <2>4, NextInv
    <3>2. v \in Walk
      BY <2>1, <2>3, NextFacts
    <3>3. walks' = [walks EXCEPT ![r] = v]
      BY <2>2, <2>4
    <3> HIDE DEF v
    <3> QED BY <1>2, <2>1, <3>1, <3>2, <3>3
  <2>5. CASE Stored(x)
    <3> DEFINE v == [Listing(w) EXCEPT !.phase = "forward", !.id = x,
                                       !.row = memories[x]]
    <3>1. x \in Ids /\ x \notin w.seen \cup {w.id} /\ WalkInv(v)
      BY <2>1, <2>5, NextInv
    <3>2. v \in Walk
      <4>1. "forward" \in {"broken", "forward"}
        OBVIOUS
      <4> QED BY <2>1, <2>3, <2>5, <3>1, <4>1, NextFacts, Zenon
    <3>3. walks' = [walks EXCEPT ![r] = v]
      BY <2>2, <2>5, <3>1
    <3> HIDE DEF v
    <3> QED BY <1>2, <2>1, <3>1, <3>2, <3>3
  <2> QED BY <2>4, <2>5
<1>6. ASSUME NEW r \in Readers, AnswerHistory(r)
      PROVE  walks' \in [Readers -> Walk] /\ WalksFollowLinks'
  <2>1. NoWalk \in Walk
    <3>1. <<>> \in Seq([id: Ids, status: {"active", "superseded", "archived"}])
      OBVIOUS
    <3> QED BY <3>1, MaxRowsAssumption DEF NoWalk, Walk
  <2>2. WalkInv(NoWalk)
    BY DEF NoWalk, WalkInv
  <2> QED BY <1>2, <1>6, <2>1, <2>2 DEF AnswerHistory, UnchangedTables
<1>7. CASE HistoryStep
  BY <1>3, <1>4, <1>5, <1>6, <1>7 DEF HistoryStep
<1>8. ASSUME ~HistoryStep PROVE UNCHANGED walks
  <2>1. MemoryStep => UNCHANGED walks
    BY DEF MemoryStep, CreateMemory, CorrectMemory, ArchiveMemory,
       RestoreMemory, DeleteMemory
  <2>2. ChatStep => UNCHANGED walks
    BY DEF ChatStep, SaveMemoryChat, CorrectMemoryChat, ClarifyChat,
       CreateTaskChat
  <2>3. TaskStep => UNCHANGED walks
    BY DEF TaskStep, CreateTask, FinishTask
  <2>4. (\E n \in Names : CreateProject(n)) => UNCHANGED walks
    BY DEF CreateProject
  <2>5. (\E E \in Manifests : ImportProfile(E)) => UNCHANGED walks
    BY DEF ImportProfile
  <2> QED BY <1>8, <2>1, <2>2, <2>3, <2>4, <2>5 DEF Next, vars
<1> QED BY <1>1, <1>7, <1>8

-----------------------------------------------------------------------------
\* A command fixes the project of its conversation and touches no other.
LEMMA ResolveFacts ==
  ASSUME TypeOK, NEW k \in Convs, NEW p \in Scopes, NEW scope \in Scopes,
         ResolveConversation(k, p, scope)
  PROVE  /\ convs' \in [Convs -> Scopes \cup {Absent}]
         /\ convs'[k] = scope /\ scope # Absent
         /\ \A j \in Convs : convs[j] # Absent => convs'[j] = convs[j]
BY AbsentAssumption DEF TypeOK, ResolveConversation

\* A conversation keeps its project.
LEMMA ConvsKept ==
  ASSUME TypeOK, [Next]_vars
  PROVE  /\ convs' \in [Convs -> Scopes \cup {Absent}]
         /\ \A j \in Convs : convs[j] # Absent => convs'[j] = convs[j]
<1>1. ASSUME NEW k \in Convs, NEW p \in Scopes, NEW scope \in Scopes,
             ResolveConversation(k, p, scope)
      PROVE  /\ convs' \in [Convs -> Scopes \cup {Absent}]
             /\ \A j \in Convs : convs[j] # Absent => convs'[j] = convs[j]
  BY <1>1, ResolveFacts
<1>2. ASSUME UNCHANGED convs
      PROVE  /\ convs' \in [Convs -> Scopes \cup {Absent}]
             /\ \A j \in Convs : convs[j] # Absent => convs'[j] = convs[j]
  BY <1>2 DEF TypeOK
<1>3. CASE ChatStep
  <2>1. PICK k \in Convs, p \in Scopes :
          \E scope \in Scopes : ResolveConversation(k, p, scope)
    BY <1>3 DEF ChatStep, SaveMemoryChat, CorrectMemoryChat, ClarifyChat,
       CreateTaskChat
  <2> QED BY <1>1, <2>1
<1>4. ASSUME ~ChatStep PROVE UNCHANGED convs
  <2>1. MemoryStep => UNCHANGED convs
    BY DEF MemoryStep, CreateMemory, CorrectMemory, ArchiveMemory,
       RestoreMemory, DeleteMemory
  <2>2. HistoryStep => UNCHANGED convs
    BY DEF HistoryStep, AskHistory, ReadPrevious, ReadNext, AnswerHistory,
       UnchangedTables
  <2>3. TaskStep => UNCHANGED convs
    BY DEF TaskStep, CreateTask, FinishTask
  <2>4. (\E n \in Names : CreateProject(n)) => UNCHANGED convs
    BY DEF CreateProject
  <2>5. (\E E \in Manifests : ImportProfile(E)) => UNCHANGED convs
    BY DEF ImportProfile
  <2> QED BY <1>4, <2>1, <2>2, <2>3, <2>4, <2>5 DEF Next, vars
<1> QED BY <1>2, <1>3, <1>4

\* A step adds an open task, finishes an open one, or leaves the tasks alone.
LEMMA TasksKept ==
  ASSUME TypeOK, [Next]_vars
  PROVE  /\ tasks' \in Seq(Task) /\ Len(tasks') \in Nat
         /\ \/ UNCHANGED memories /\ Room(1) /\ Len(tasks') = Len(tasks) + 1
            \/ Len(tasks') = Len(tasks)
         /\ \A t \in 1..Len(tasks) :
              /\ tasks'[t].project = tasks[t].project
              /\ tasks[t].status # "open" => tasks'[t] = tasks[t]
<1> DEFINE Kept ==
      /\ tasks' \in Seq(Task) /\ Len(tasks') \in Nat
      /\ \/ UNCHANGED memories /\ Room(1) /\ Len(tasks') = Len(tasks) + 1
         \/ Len(tasks') = Len(tasks)
      /\ \A t \in 1..Len(tasks) :
           /\ tasks'[t].project = tasks[t].project
           /\ tasks[t].status # "open" => tasks'[t] = tasks[t]
<1>0. tasks \in Seq(Task) /\ Len(tasks) \in Nat
  BY DEF TypeOK
<1>1. ASSUME UNCHANGED tasks PROVE Kept
  BY <1>0, <1>1
<1>2. ASSUME NEW p \in Scopes, Room(1), UNCHANGED memories,
             tasks' = Append(tasks, [status |-> "open", project |-> p])
      PROVE  Kept
  <2>1. [status |-> "open", project |-> p] \in Task
    BY DEF Task
  <2> QED BY <1>0, <1>2, <2>1, AppendProperties
<1>3. ASSUME NEW t \in Ids, NEW target \in Finished, FinishTask(t, target)
      PROVE  Kept
  <2> DEFINE row == [tasks[t] EXCEPT !.status = target]
  <2>1. t \in 1..Len(tasks) /\ tasks[t] \in Task /\ tasks[t].status = "open"
    BY <1>0, <1>3, Rows DEF FinishTask
  <2>2. row \in Task /\ row.project = tasks[t].project
    BY <2>1 DEF Task, Finished
  <2>3. tasks' = [tasks EXCEPT ![t] = row]
    BY <1>3 DEF FinishTask
  <2> HIDE DEF row
  <2>4. /\ tasks' \in Seq(Task) /\ Len(tasks') = Len(tasks)
        /\ \A i \in 1..Len(tasks) : i # t => tasks'[i] = tasks[i]
        /\ tasks'[t] = row
    BY <1>0, <2>1, <2>2, <2>3, ExceptSeq
  <2> QED BY <1>0, <2>1, <2>2, <2>4
<1>4. ASSUME TaskStep PROVE Kept
  <2> HIDE DEF Kept
  <2> QED BY <1>2, <1>3, <1>4 DEF TaskStep, CreateTask
<1>5. ASSUME NEW k \in Convs, NEW p \in Scopes, CreateTaskChat(k, p) PROVE Kept
  <2>1. PICK scope \in Scopes :
          /\ Room(1) /\ UNCHANGED memories
          /\ tasks' = Append(tasks, [status |-> "open", project |-> scope])
    BY <1>5 DEF CreateTaskChat
  <2> QED BY <1>2, <2>1
<1>6. ASSUME ~TaskStep, ~ \E k \in Convs, p \in Scopes : CreateTaskChat(k, p)
      PROVE  UNCHANGED tasks
  <2>1. MemoryStep => UNCHANGED tasks
    BY DEF MemoryStep, CreateMemory, CorrectMemory, ArchiveMemory,
       RestoreMemory, DeleteMemory
  <2>2. HistoryStep => UNCHANGED tasks
    BY DEF HistoryStep, AskHistory, ReadPrevious, ReadNext, AnswerHistory,
       UnchangedTables
  <2>3. ChatStep => UNCHANGED tasks
    BY <1>6 DEF ChatStep, SaveMemoryChat, CorrectMemoryChat, ClarifyChat
  <2>4. (\E n \in Names : CreateProject(n)) => UNCHANGED tasks
    BY DEF CreateProject
  <2>5. (\E E \in Manifests : ImportProfile(E)) => UNCHANGED tasks
    BY DEF ImportProfile
  <2> QED BY <1>6, <2>1, <2>2, <2>3, <2>4, <2>5 DEF Next, vars
<1> HIDE DEF Kept
<1>7. ASSUME \E k \in Convs, p \in Scopes : CreateTaskChat(k, p) PROVE Kept
  BY <1>5, <1>7
<1>8. Kept
  BY <1>1, <1>4, <1>6, <1>7
<1> QED BY <1>8 DEF Kept

\* The tables stay within the bound.
LEMMA RoomKept ==
  ASSUME TypeOK, LinksAgree, [Next]_vars
  PROVE  Len(memories') + Len(tasks') <= MaxRows
<1>0. /\ Len(memories) \in Nat /\ Len(tasks) \in Nat /\ MaxRows \in Nat
      /\ Len(memories) + Len(tasks) <= MaxRows
      /\ Len(memories') \in Nat
  BY Rows, TableKept, MaxRowsAssumption
<1>1. CASE UNCHANGED memories
  BY <1>0, <1>1, TasksKept DEF Room
<1>2. CASE ~ UNCHANGED memories
  <2>0. Len(tasks') = Len(tasks)
    BY <1>2, TasksKept
  <2>1. CASE InsertStep
    <3>1. PICK c \in Contents, p \in Scopes :
            Room(1) /\ memories' = Append(memories, NewRow(c, p, "other", 0))
      BY <2>1 DEF InsertStep
    <3>2. Len(memories') = Len(memories) + 1
      BY <3>1, NewRowType, InsertFacts, MaxRowsAssumption
    <3> QED BY <1>0, <2>0, <3>1, <3>2 DEF Room
  <2>2. CASE CorrectStep
    <3>1. PICK m \in Ids, c \in Contents :
            CanCorrect(m, c) /\ memories' = Corrected(m, c)
      BY <2>2 DEF CorrectStep
    <3>2. Len(memories') = Len(memories) + 1
      BY <3>1, CorrectFacts, Zenon
    <3> QED BY <1>0, <2>0, <3>1, <3>2 DEF CanCorrect, Room
  <2>3. CASE FlipStep
    <3>1. PICK m \in Ids, t \in {"active", "archived"} :
            Stored(m) /\ memories' = [memories EXCEPT ![m].status = t]
      BY <2>3 DEF FlipStep
    <3>2. Len(memories') = Len(memories)
      BY <3>1, FlipFacts, Zenon
    <3> QED BY <1>0, <2>0, <3>2
  <2>4. CASE DeleteStep
    BY <1>0, <2>0, <2>4, DeleteFacts DEF DeleteStep
  <2>5. CASE ImportStep
    BY <1>0, <2>0, <2>5, ImportFacts DEF ImportStep
  <2> QED BY <1>2, <2>1, <2>2, <2>3, <2>4, <2>5, StepCases
<1> QED BY <1>1, <1>2

\* What was confirmed before a step stays so.
LEMMA OldToldKept ==
  ASSUME TypeOK, LinksAgree, ConfirmedInScope, ToldOfInserted, [Next]_vars
  PROVE  /\ \A k \in Convs, m \in Ids :
              /\ <<k, "saved", m>> \in told /\ Stored(m)' =>
                   memories'[m].project = convs'[k]
              /\ <<k, "updated", m>> \in told =>
                   /\ Stored(m)' /\ memories'[m].project \in {None, convs'[k]}
                   /\ Stored(memories[m].replaces)'
                   /\ memories'[memories'[m].replaces].superseded_by = m
              /\ \A what \in {"saved", "updated"} : <<k, what, m>> \in told =>
                   convs'[k] # Absent /\ m <= Len(memories')
         /\ \A k \in Convs, t \in Ids : <<k, t>> \in toldTasks =>
              /\ t \in 1..Len(tasks') /\ tasks'[t].project = convs'[k]
              /\ convs'[k] # Absent
<1>0. /\ Len(memories) \in Nat /\ Len(memories') \in Nat /\ Len(tasks) \in Nat
      /\ Len(memories') >= Len(memories) /\ Len(tasks') \in Nat
      /\ Len(tasks') >= Len(tasks) /\ Absent \notin Row
  BY Rows, TableKept, TasksKept
<1>1. ASSUME NEW m \in Ids, m <= Len(memories), Stored(m)'
      PROVE  Stored(m) /\ memories'[m].project = memories[m].project
                       /\ memories'[m].replaces = memories[m].replaces
  <2>1. m \in 1..Len(memories) /\ memories'[m] # Absent
    BY <1>0, <1>1 DEF Ids, Stored
  <2> QED BY <2>1, TableKept
<1>2. ASSUME NEW m, Stored(m), memories[m].replaces # 0
      PROVE  Stored(m)'
  <2>1. m \in 1..Len(memories) /\ m \in 1..Len(memories')
    BY <1>0, <1>2 DEF Stored
  <2> QED BY <1>2, <2>1, TableKept DEF Stored
<1>3. ASSUME NEW m, Stored(m), memories[m].superseded_by # 0
      PROVE  Stored(m)' /\ memories'[m] = memories[m]
  <2>1. m \in 1..Len(memories) /\ m \in 1..Len(memories') /\ memories[m] # Absent
    BY <1>0, <1>3 DEF Stored
  <2>2. memories[m].status = "superseded"
    BY <1>3, <2>1 DEF LinksAgree
  <2> QED BY <1>3, <2>1, <2>2, TableKept DEF Stored
<1>4. ASSUME NEW k \in Convs, NEW m \in Ids, NEW what \in {"saved", "updated"},
             <<k, what, m>> \in told
      PROVE  /\ convs'[k] = convs[k] /\ convs[k] # Absent
             /\ m <= Len(memories) /\ m <= Len(memories')
  <2>1. convs[k] # Absent /\ m <= Len(memories)
    BY <1>4 DEF ToldOfInserted
  <2> QED BY <1>0, <2>1, ConvsKept DEF Ids
<1>5. ASSUME NEW k \in Convs, NEW m \in Ids, <<k, "saved", m>> \in told, Stored(m)'
      PROVE  memories'[m].project = convs'[k]
  <2>1. Stored(m) /\ memories'[m].project = memories[m].project
    BY <1>1, <1>4, <1>5
  <2> QED BY <1>4, <1>5, <2>1 DEF ConfirmedInScope
<1>6. ASSUME NEW k \in Convs, NEW m \in Ids, <<k, "updated", m>> \in told
      PROVE  /\ Stored(m)' /\ memories'[m].project \in {None, convs'[k]}
             /\ Stored(memories[m].replaces)'
             /\ memories'[memories'[m].replaces].superseded_by = m
  <2>1. /\ Stored(m) /\ memories[m].project \in {None, convs[k]}
        /\ Stored(memories[m].replaces)
        /\ memories[memories[m].replaces].superseded_by = m
    BY <1>6 DEF ConfirmedInScope
  <2>2. memories[m].replaces # 0 /\ m # 0
    BY <2>1 DEF Stored, Ids
  <2>3. Stored(m)'
    BY <1>2, <2>1, <2>2
  <2>4. /\ memories'[m].project = memories[m].project
        /\ memories'[m].replaces = memories[m].replaces
    BY <1>1, <1>4, <1>6, <2>3
  <2>5. PICK o \in 1..Len(memories) : o = memories[m].replaces
    BY <2>1 DEF Stored
  <2>6. Stored(o)' /\ memories'[o] = memories[o]
    BY <1>3, <2>1, <2>2, <2>5
  <2>7. Stored(memories[m].replaces)'
    BY <2>4, <2>5, <2>6 DEF Stored
  <2>8. convs'[k] = convs[k]
    BY <1>4, <1>6
  <2> QED BY <2>1, <2>3, <2>4, <2>5, <2>6, <2>7, <2>8
<1>7. ASSUME NEW k \in Convs, NEW t \in Ids, <<k, t>> \in toldTasks
      PROVE  /\ t \in 1..Len(tasks') /\ tasks'[t].project = convs'[k]
             /\ convs'[k] # Absent
  <2>1. t \in 1..Len(tasks) /\ tasks[t].project = convs[k] /\ convs[k] # Absent
    BY <1>7 DEF ConfirmedInScope, ToldOfInserted
  <2> QED BY <1>0, <2>1, ConvsKept, TasksKept
<1> QED BY <1>4, <1>5, <1>6, <1>7

\* Every confirmation, an old or a new one, is so after a step.
LEMMA ConfirmedKept ==
  ASSUME TypeOK, LinksAgree, ConfirmedInScope, ToldOfInserted, [Next]_vars
  PROVE  /\ told' \subseteq Convs \X {"saved", "updated"} \X Ids
         /\ toldTasks' \subseteq Convs \X Ids
         /\ ConfirmedInScope' /\ ToldOfInserted'
<1> DEFINE Goal == /\ told' \subseteq Convs \X {"saved", "updated"} \X Ids
                   /\ toldTasks' \subseteq Convs \X Ids
                   /\ ConfirmedInScope' /\ ToldOfInserted'
<1>0. /\ told \subseteq Convs \X {"saved", "updated"} \X Ids
      /\ toldTasks \subseteq Convs \X Ids
      /\ Len(memories) \in Nat /\ Len(tasks) \in Nat /\ MaxRows \in Nat
      /\ Len(memories) + Len(tasks) <= MaxRows
  BY Rows, MaxRowsAssumption DEF TypeOK
<1>1. ASSUME UNCHANGED <<told, toldTasks>> PROVE Goal
  BY <1>0, <1>1, OldToldKept DEF ConfirmedInScope, ToldOfInserted
<1>2. ASSUME NEW k \in Convs, NEW new \in Ids, NEW did \in {"saved", "updated"},
             told' = told \cup {<<k, did, new>>}, UNCHANGED toldTasks,
             new <= Len(memories'), convs'[k] # Absent,
             did = "saved" => memories'[new].project = convs'[k],
             did = "updated" =>
               /\ Stored(new)' /\ memories'[new].project \in {None, convs'[k]}
               /\ Stored(memories[new].replaces)'
               /\ memories'[memories'[new].replaces].superseded_by = new
      PROVE  Goal
  <2>1. told' \subseteq Convs \X {"saved", "updated"} \X Ids
    BY <1>0, <1>2
  <2>2. \A j \in Convs, m \in Ids, what \in {"saved", "updated"} :
          <<j, what, m>> \in told' =>
            <<j, what, m>> \in told \/ (j = k /\ what = did /\ m = new)
    BY <1>2
  <2>3. ToldOfInserted'
    BY <1>2, <2>2, OldToldKept DEF ToldOfInserted
  <2>4. \A j \in Convs, m \in Ids : <<j, "saved", m>> \in told' /\ Stored(m)' =>
          memories'[m].project = convs'[j]
    BY <1>2, <2>2, OldToldKept
  <2>5. ASSUME NEW j \in Convs, NEW m \in Ids, <<j, "updated", m>> \in told'
        PROVE  /\ Stored(m)' /\ memories'[m].project \in {None, convs'[j]}
               /\ Stored(memories[m].replaces)'
               /\ memories'[memories'[m].replaces].superseded_by = m
    <3>1. CASE <<j, "updated", m>> \in told
      BY <3>1, OldToldKept
    <3>2. CASE j = k /\ did = "updated" /\ m = new
      BY <1>2, <3>2
    <3> QED BY <2>2, <2>5, <3>1, <3>2
  <2>6. \A j \in Convs, t \in Ids : <<j, t>> \in toldTasks' =>
          t \in 1..Len(tasks') /\ tasks'[t].project = convs'[j]
    BY <1>2, OldToldKept
  <2>7. ConfirmedInScope'
    BY <2>4, <2>5, <2>6 DEF ConfirmedInScope
  <2> QED BY <1>0, <1>2, <2>1, <2>3, <2>7
<1>3. ASSUME NEW k \in Convs, NEW p \in Scopes, NEW c \in Contents,
             SaveMemoryChat(k, p, c)
      PROVE  Goal
  <2>1. PICK scope \in Scopes :
          /\ Room(1) /\ ResolveConversation(k, p, scope)
          /\ memories' = Append(memories, NewRow(c, scope, "other", 0))
          /\ told' = told \cup {<<k, "saved", Len(memories) + 1>>}
          /\ UNCHANGED toldTasks
    BY <1>3 DEF SaveMemoryChat
  <2>2. PICK new \in Ids : new = Len(memories) + 1
    BY <1>0, <2>1 DEF Room, Ids
  <2>3. convs'[k] = scope /\ scope # Absent
    BY <2>1, ResolveFacts
  <2>4. NewRow(c, scope, "other", 0) \in Row
    BY NewRowType, MaxRowsAssumption
  <2>5. Len(memories') = new /\ memories'[new] = NewRow(c, scope, "other", 0)
    BY <2>1, <2>2, <2>4, InsertFacts
  <2>6. memories'[new].project = scope
    BY <2>5 DEF NewRow
  <2>7. new <= Len(memories')
    BY <2>5 DEF Ids
  <2> HIDE DEF Goal
  <2> QED BY <1>2, <2>1, <2>2, <2>3, <2>6, <2>7
<1>4. ASSUME NEW k \in Convs, NEW p \in Scopes, NEW c \in Contents,
             CorrectMemoryChat(k, p, c)
      PROVE  Goal
  <2>1. PICK scope \in Scopes :
          /\ ResolveConversation(k, p, scope)
          /\ \E m \in Candidates(c, scope) :
               /\ CanCorrect(m, c) /\ memories' = Corrected(m, c)
               /\ told' = told \cup {<<k, "updated", Len(memories) + 1>>}
          /\ UNCHANGED toldTasks
    BY <1>4 DEF CorrectMemoryChat
  <2>2. PICK o \in Candidates(c, scope) :
          /\ CanCorrect(o, c) /\ memories' = Corrected(o, c)
          /\ told' = told \cup {<<k, "updated", Len(memories) + 1>>}
    BY <2>1
  <2>3. /\ o \in Ids /\ memories[o] \in Row
        /\ memories[o].project \in {None, scope}
    BY <2>2, Rows DEF Candidates, ActiveInScope, CanCorrect
  <2>4. PICK new \in Ids : new = Len(memories) + 1
    BY <1>0, <2>2 DEF CanCorrect, Room, Ids
  <2>5. /\ Len(memories') = new
        /\ o \in 1..Len(memories)
        /\ memories'[o] = [memories[o] EXCEPT !.status = "superseded",
                                              !.superseded_by = new]
        /\ memories'[o] \in Row
        /\ memories'[new] = NewRow(c, memories[o].project, memories[o].origin, o)
        /\ memories'[new] \in Row
    BY <2>2, <2>3, <2>4, CorrectFacts, Zenon
  <2>6. /\ memories'[new].project \in {None, scope}
        /\ memories'[new].replaces = o
    BY <2>3, <2>5 DEF NewRow
  <2>7. memories'[o].superseded_by = new
    BY <2>3, <2>5 DEF Row
  <2>8. convs'[k] = scope /\ scope # Absent
    BY <2>1, ResolveFacts
  <2>9. Stored(o)' /\ Stored(new)'
    <3>1. o \in 1..Len(memories') /\ new \in 1..Len(memories')
      BY <1>0, <2>4, <2>5
    <3>2. memories'[o] # Absent /\ memories'[new] # Absent
      BY <2>5, AbsentAssumption
    <3> QED BY <3>1, <3>2 DEF Stored
  <2>10. Stored(memories[new].replaces)'
    BY <2>6, <2>9
  <2>11. new <= Len(memories')
    BY <2>5 DEF Ids
  <2> HIDE DEF Goal
  <2> QED BY <1>2, <2>1, <2>2, <2>4, <2>6, <2>7, <2>8, <2>9, <2>10, <2>11
<1>5. ASSUME NEW k \in Convs, NEW p \in Scopes, CreateTaskChat(k, p)
      PROVE  Goal
  <2>1. PICK scope \in Scopes :
          /\ Room(1) /\ ResolveConversation(k, p, scope)
          /\ tasks' = Append(tasks, [status |-> "open", project |-> scope])
          /\ toldTasks' = toldTasks \cup {<<k, Len(tasks) + 1>>}
          /\ UNCHANGED told
    BY <1>5 DEF CreateTaskChat
  <2>2. PICK new \in Ids : new = Len(tasks) + 1
    BY <1>0, <2>1 DEF Room, Ids
  <2>3. convs'[k] = scope /\ scope # Absent
    BY <2>1, ResolveFacts
  <2>4. /\ new \in 1..Len(tasks')
        /\ tasks'[new] = [status |-> "open", project |-> scope]
    BY <1>0, <2>1, <2>2, AppendProperties DEF TypeOK
  <2>5. tasks'[new].project = scope
    BY <2>4
  <2>6. \A j \in Convs, t \in Ids :
          <<j, t>> \in toldTasks' => <<j, t>> \in toldTasks \/ (j = k /\ t = new)
    BY <2>1, <2>2
  <2>7. \A j \in Convs, t \in Ids : <<j, t>> \in toldTasks' =>
          /\ t \in 1..Len(tasks') /\ tasks'[t].project = convs'[j]
          /\ convs'[j] # Absent
    BY <2>3, <2>4, <2>5, <2>6, OldToldKept
  <2>8. ConfirmedInScope' /\ ToldOfInserted'
    BY <2>1, <2>7, OldToldKept DEF ConfirmedInScope, ToldOfInserted
  <2>9. toldTasks' \subseteq Convs \X Ids
    BY <1>0, <2>1, <2>2
  <2> QED BY <1>0, <2>1, <2>8, <2>9
<1> HIDE DEF Goal
<1>6. ASSUME ChatStep PROVE Goal
  <2>1. ASSUME NEW k \in Convs, NEW p \in Scopes, NEW c \in Contents,
               ClarifyChat(k, p, c)
        PROVE  Goal
    BY <1>1, <2>1 DEF ClarifyChat
  <2> QED BY <1>3, <1>4, <1>5, <1>6, <2>1 DEF ChatStep
<1>7. ASSUME ~ChatStep PROVE UNCHANGED <<told, toldTasks>>
  <2>1. MemoryStep => UNCHANGED <<told, toldTasks>>
    BY DEF MemoryStep, CreateMemory, CorrectMemory, ArchiveMemory,
       RestoreMemory, DeleteMemory
  <2>2. HistoryStep => UNCHANGED <<told, toldTasks>>
    BY DEF HistoryStep, AskHistory, ReadPrevious, ReadNext, AnswerHistory,
       UnchangedTables
  <2>3. TaskStep => UNCHANGED <<told, toldTasks>>
    BY DEF TaskStep, CreateTask, FinishTask
  <2>4. (\E n \in Names : CreateProject(n)) => UNCHANGED <<told, toldTasks>>
    BY DEF CreateProject
  <2>5. (\E E \in Manifests : ImportProfile(E)) => UNCHANGED <<told, toldTasks>>
    BY DEF ImportProfile
  <2> QED BY <1>7, <2>1, <2>2, <2>3, <2>4, <2>5 DEF Next, vars
<1> QED BY <1>1, <1>6, <1>7 DEF Goal

-----------------------------------------------------------------------------
\* A step adds projects of the given names only.
LEMMA ProjectsKept ==
  ASSUME TypeOK, [Next]_vars
  PROVE  projects' \subseteq Names
<1>1. MemoryStep => UNCHANGED projects
  BY DEF MemoryStep, CreateMemory, CorrectMemory, ArchiveMemory,
     RestoreMemory, DeleteMemory
<1>2. HistoryStep => UNCHANGED projects
  BY DEF HistoryStep, AskHistory, ReadPrevious, ReadNext, AnswerHistory,
     UnchangedTables
<1>3. TaskStep => UNCHANGED projects
  BY DEF TaskStep, CreateTask, FinishTask
<1>4. (\E n \in Names : CreateProject(n)) => projects' \subseteq Names
  BY DEF CreateProject, TypeOK
<1>5. (\E E \in Manifests : ImportProfile(E)) => UNCHANGED projects
  BY DEF ImportProfile
<1>6. ChatStep => UNCHANGED projects
  BY DEF ChatStep, SaveMemoryChat, CorrectMemoryChat, ClarifyChat, CreateTaskChat
<1> QED BY <1>1, <1>2, <1>3, <1>4, <1>5, <1>6 DEF Next, vars, TypeOK

\* The initial state satisfies the invariant.
LEMMA InitEstablishes ==
  ASSUME Init
  PROVE  IndInv
<1>1. NoWalk \in Walk
  <2>1. <<>> \in Seq([id: Ids, status: {"active", "superseded", "archived"}])
    OBVIOUS
  <2> QED BY <2>1, MaxRowsAssumption DEF NoWalk, Walk
<1>2. TypeOK
  <2>1. memories \in Seq(Row \cup {Absent}) /\ tasks \in Seq(Task) /\ Room(0)
    BY MaxRowsAssumption DEF Init, Room
  <2> QED BY <1>1, <2>1 DEF Init, TypeOK
<1>3. Len(memories) = 0
  BY DEF Init
<1>4. LinksAgree /\ ImportAddsOnlyNew
  BY <1>3 DEF LinksAgree, ImportAddsOnlyNew
<1>5. ConfirmedInScope /\ ToldOfInserted
  BY DEF Init, ConfirmedInScope, ToldOfInserted
<1>6. WalksFollowLinks
  BY DEF Init, WalksFollowLinks, WalkInv, NoWalk
<1> QED BY <1>2, <1>4, <1>5, <1>6 DEF IndInv

\* Every step preserves the invariant.
LEMMA StepPreserves ==
  ASSUME IndInv, [Next]_vars
  PROVE  IndInv'
<1>0. /\ TypeOK /\ LinksAgree /\ ImportAddsOnlyNew /\ ConfirmedInScope
      /\ ToldOfInserted /\ WalksFollowLinks
  BY DEF IndInv
<1>1. TypeOK'
  <2>1. memories' \in Seq(Row \cup {Absent}) /\ tasks' \in Seq(Task)
    BY <1>0, TableKept, TasksKept DEF Table
  <2>2. Room(0)'
    <3>1. /\ Len(memories') \in Nat /\ Len(tasks') \in Nat
          /\ Len(memories') + Len(tasks') <= MaxRows
      BY <1>0, TableKept, TasksKept, RoomKept
    <3> QED BY <3>1 DEF Room
  <2> QED BY <1>0, <2>1, <2>2, ProjectsKept, ConvsKept, ConfirmedKept, WalksKept
             DEF TypeOK
<1>2. LinksAgree'
  BY <1>0, LinksKept
<1>3. ImportAddsOnlyNew'
  BY <1>0, ImportsKept
<1>4. ConfirmedInScope' /\ ToldOfInserted'
  BY <1>0, ConfirmedKept
<1>5. WalksFollowLinks'
  BY <1>0, WalksKept
<1> QED BY <1>1, <1>2, <1>3, <1>4, <1>5 DEF IndInv

\* The invariant holds in every reachable state.
THEOREM Invariance == Spec => []IndInv
<1>1. Init => IndInv
  BY InitEstablishes
<1>2. IndInv /\ [Next]_vars => IndInv'
  BY StepPreserves
<1> QED BY <1>1, <1>2, PTL DEF Spec

\* The tables and the locals of every request stay well formed.
THEOREM TypeCorrectness == Spec => []TypeOK
<1>1. IndInv => TypeOK
  BY DEF IndInv
<1> QED BY <1>1, Invariance, PTL

\* Any sequence of corrections, archives, restores, deletes and imports leaves
\* the versions of a memory one chain with one current version.
THEOREM VersionsFormChains == Spec => []LinksAgree
<1>1. IndInv => LinksAgree
  BY DEF IndInv
<1> QED BY <1>1, Invariance, PTL

\* An import of a profile never doubles a memory and never brings back one that
\* was forgotten or corrected.
THEOREM ImportsAreNew == Spec => []ImportAddsOnlyNew
<1>1. IndInv => ImportAddsOnlyNew
  BY DEF IndInv
<1> QED BY <1>1, Invariance, PTL

\* What a chat command confirmed lies in the scope of its conversation, in
\* every later state.
THEOREM ConfirmationsHold == Spec => []ConfirmedInScope
<1>1. IndInv => ConfirmedInScope
  BY DEF IndInv
<1> QED BY <1>1, Invariance, PTL

\* get_memory_history, which reads outside any transaction, meets neither a
\* missing version nor a cycle, and answers the whole chain of the memory asked
\* for.
THEOREM HistoryIsWhole == Spec => []HistoryComplete
<1>1. IndInv => HistoryComplete
  BY DEF IndInv, WalksFollowLinks, WalkInv, Complete, Listed, HistoryComplete
<1> QED BY <1>1, Invariance, PTL

\* No operation rewrites or loses what corrections and finished tasks left.
THEOREM PastStays == Spec => PastIsKept
<1>1. IndInv /\ [Next]_vars => KeepsPast
  <2> SUFFICES ASSUME IndInv, [Next]_vars PROVE KeepsPast
    OBVIOUS
  <2>1. TypeOK /\ LinksAgree
    BY DEF IndInv
  <2> QED BY <2>1, TableKept, TasksKept DEF KeepsPast
<1> QED BY <1>1, Invariance, PTL DEF Spec, PastIsKept
=============================================================================
