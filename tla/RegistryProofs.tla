---------------------------- MODULE RegistryProofs -----------------------------
(***************************************************************************)
(* The registry's tables keep their types and their references, its PATCHes  *)
(* merge and its audit records of re-read rows are current, for any sets of  *)
(* rows, values and requests.  The argument is about single statements: what *)
(* a stale read can do to a row is what the UPDATE takes from it.            *)
(***************************************************************************)
EXTENDS Registry, TLAPS

-----------------------------------------------------------------------------
(* Types *)

LEMMA RowsTyped ==
  ASSUME NEW x \in Entities
  PROVE  /\ \A w \in RowsOf(x) : w \in Rows /\ Present(w)
         /\ Absent \in Rows /\ ~Present(Absent)
<1>1. Absent \notin RowsOf(x)
  BY ValuesAssumption
<1> QED BY <1>1 DEF Rows, Present

LEMMA MergeTyped ==
  ASSUME NEW x, NEW w \in RowsOf(x), NEW given \in Given(x), NEW read
  PROVE  Merge(w, given, read) \in RowsOf(x)
<1>1. /\ w.first \in Values /\ w.second \in Column(x)
      /\ given.first # Unset => given.first \in Values
      /\ given.second # Unset => given.second \in Column(x)
  BY DEF RowsOf, Given
<1> QED BY <1>1 DEF Merge, RowsOf

LEMMA PutTyped ==
  ASSUME NEW rows \in Tables, NEW x \in Entities, NEW w \in RowsOf(x) \cup {Absent}
  PROVE  /\ [rows EXCEPT ![x] = w] \in Tables
         /\ [rows EXCEPT ![x] = w][x] = w
         /\ \A y \in Entities \ {x} : [rows EXCEPT ![x] = w][y] = rows[y]
<1>1. w \in Rows
  BY RowsTyped
<1> QED BY <1>1 DEF Tables

\* What a deletion makes of a row.
LEMMA WithoutRow ==
  ASSUME NEW rows \in Tables, NEW x \in Entities, NEW y \in Entities
  PROVE  /\ y = x \/ x \in Nodes \cap Needs[y] => Without(rows, x)[y] = Absent
         /\ ~(y = x \/ x \in Nodes \cap Needs[y]) =>
              \/ Without(rows, x)[y] = rows[y]
              \/ /\ y \in Consumers /\ Present(rows[y]) /\ rows[y].second = x
                 /\ Without(rows, x)[y] = [first |-> rows[y].first, second |-> Null]
         /\ y \in Consumers /\ Present(Without(rows, x)[y]) =>
              Without(rows, x)[y].second # x
<1>1. x # Null
  BY ValuesAssumption
<1> QED BY <1>1 DEF Without, Present

LEMMA WithoutItself ==
  ASSUME NEW rows, NEW x \in Entities
  PROVE  Without(rows, x)[x] = Absent
BY DEF Without

LEMMA WithoutTyped ==
  ASSUME NEW rows \in Tables, NEW x \in Entities
  PROVE  Without(rows, x) \in Tables
<1>1. ASSUME NEW y \in Entities
      PROVE  Without(rows, x)[y] \in RowsOf(y) \cup {Absent}
  <2>1. rows[y] \in RowsOf(y) \cup {Absent}
    BY DEF Tables
  <2>2. ASSUME y \in Consumers, Present(rows[y])
        PROVE  [first |-> rows[y].first, second |-> Null] \in RowsOf(y)
    BY <2>1, <2>2 DEF Present, RowsOf, Column
  <2> QED BY <2>1, <2>2, WithoutRow
<1>2. \A y \in Entities : Without(rows, x)[y] \in Rows
  BY <1>1, RowsTyped
<1>3. Without(rows, x) = [y \in Entities |-> Without(rows, x)[y]]
  BY DEF Without
<1> HIDE DEF Without
<1>4. Without(rows, x) \in [Entities -> Rows]
  BY <1>2, <1>3
<1> QED BY <1>1, <1>4 DEF Tables

\* What the tasks of each kind are.
LEMMA TasksAre ==
  ASSUME NEW t \in Tasks
  PROVE  /\ t.op = "patch" => t.id \in Patched
         /\ t.op = "route" => t.id \in Endpoints
         /\ t.op \in {"patch", "route"} =>
              t.id \in Entities /\ t.given \in Given(t.id) /\ t.read \in RowsOf(t.id)
         /\ t.op = "remove" => t.id \in Entities
         /\ t.op = "count" => t.id \in Profiles
<1>1. \/ t = Idle
      \/ \E x \in Patched : t \in [op : {"patch"}, id : {x}, given : Given(x), read : RowsOf(x)]
      \/ \E x \in Endpoints : t \in [op : {"route"}, id : {x}, given : Given(x), read : RowsOf(x)]
      \/ t \in [op : {"count"}, id : Profiles, given : {Nothing}, read : {Absent}]
      \/ t \in [op : {"remove"}, id : Entities, given : {Nothing}, read : {Absent}]
  BY DEF Tasks
<1>2. Idle.op = "idle"
  BY DEF Idle, Task
<1> QED BY <1>1, <1>2 DEF Entities

LEMMA TasksTyped ==
  /\ Idle \in Tasks
  /\ \A x \in Patched : \A given \in Given(x), read \in RowsOf(x) :
       Task("patch", x, given, read) \in Tasks
  /\ \A e \in Endpoints : \A given \in Given(e), read \in RowsOf(e) :
       Task("route", e, given, read) \in Tasks
  /\ \A p \in Profiles : Task("count", p, Nothing, Absent) \in Tasks
  /\ \A x \in Entities : Task("remove", x, Nothing, Absent) \in Tasks
<1>1. ASSUME NEW x, NEW given \in Given(x), NEW read \in RowsOf(x), NEW op
      PROVE  Task(op, x, given, read)
               \in [op : {op}, id : {x}, given : Given(x), read : RowsOf(x)]
  BY DEF Task
<1>3. \A x \in Patched : \A given \in Given(x), read \in RowsOf(x) :
        Task("patch", x, given, read) \in Tasks
  BY <1>1 DEF Tasks
<1>4. \A e \in Endpoints : \A given \in Given(e), read \in RowsOf(e) :
        Task("route", e, given, read) \in Tasks
  BY <1>1 DEF Tasks
<1>5. \A p \in Profiles : Task("count", p, Nothing, Absent) \in Tasks
  BY DEF Tasks, Task
<1>6. \A x \in Entities : Task("remove", x, Nothing, Absent) \in Tasks
  BY DEF Tasks, Task
<1>7. Idle \in Tasks
  BY DEF Tasks
<1> QED BY <1>3, <1>4, <1>5, <1>6, <1>7

\* A PATCH and a routing request are one write.
LEMMA WriteIs ==
  ASSUME TypeOK, NEW r \in Requests,
         FinishPatch(r) \/ FinishPatchBlindly(r) \/ FinishRouting(r)
  PROVE  \E x \in Entities : \E w \in RowsOf(x), v \in RowsOf(x) :
           /\ Write(r, x, w, v) /\ todo[r].id = x
           /\ x \in Patched => w = Merge(row[x], todo[r].given, todo[r].read)
           /\ x \in Rereads => v = w
<1> DEFINE t == todo[r]
           x == t.id
<1>1. t \in Tasks
  BY DEF TypeOK
<1>2. /\ t.op \in {"patch", "route"} /\ Present(row[x])
      /\ t.op = "patch" => x \in Patched
      /\ t.op = "route" => x \in Endpoints
  BY <1>1, TasksAre DEF FinishPatch, FinishPatchBlindly, FinishRouting, Write
<1>3. /\ x \in Entities /\ t.given \in Given(x) /\ t.read \in RowsOf(x)
      /\ row[x] \in RowsOf(x)
  BY <1>1, <1>2, TasksAre DEF TypeOK, Tables, Present
<1>4. x \in Endpoints => x \notin Patched
  BY KindsAssumption DEF Patched
<1>5. /\ Merge(row[x], t.given, t.read) \in RowsOf(x)
      /\ Merge(t.read, t.given, t.read) \in RowsOf(x)
  BY <1>3, MergeTyped
<1>6. \/ Write(r, x, Merge(row[x], t.given, t.read), Merge(row[x], t.given, t.read))
      \/ /\ x \notin Rereads
         /\ Write(r, x, Merge(row[x], t.given, t.read), Merge(t.read, t.given, t.read))
      \/ /\ x \notin Patched
         /\ Write(r, x, Merge(t.read, t.given, t.read), Merge(t.read, t.given, t.read))
  BY <1>2, <1>4, KindsAssumption DEF FinishPatch, FinishPatchBlindly, FinishRouting
<1> HIDE DEF t, x
<1>7. Rereads \subseteq Patched
  BY DEF Patched
<1> QED BY <1>3, <1>5, <1>6, <1>7 DEF t, x

\* The steps of the specification, for a step that keeps the types.
LEMMA StepsAre ==
  ASSUME TypeOK, [Next]_vars
  PROVE  \/ UNCHANGED vars
         \/ \E x \in Entities : \E w \in RowsOf(x) : Create(x, w)
         \/ /\ UNCHANGED <<row, audit>>
            /\ \E r \in Requests, t \in Tasks : todo' = [todo EXCEPT ![r] = t]
         \/ \E r \in Requests, x \in Entities : \E w \in RowsOf(x), v \in RowsOf(x) :
              /\ Write(r, x, w, v) /\ todo[r].id = x
              /\ x \in Patched => w = Merge(row[x], todo[r].given, todo[r].read)
              /\ x \in Rereads => v = w
         \/ \E r \in Requests : FinishDelete(r) /\ todo[r].id \in Entities
<1>1. ASSUME NEW x \in Entities, NEW w \in NewRows[x], Create(x, w)
      PROVE  \E v \in RowsOf(x) : Create(x, v)
  BY <1>1, InputsAssumption
<1>2. ASSUME NEW r \in Requests, NEW x \in Patched, NEW given \in Patches[x],
             ReadForPatch(r, x, given)
      PROVE  /\ UNCHANGED <<row, audit>>
             /\ \E t \in Tasks : todo' = [todo EXCEPT ![r] = t]
  <2>1. Task("patch", x, given, row[x]).id = x /\ x \in Entities
    BY DEF Task, Entities
  <2>2. /\ Present(row[x]) /\ UNCHANGED <<row, audit>>
        /\ todo' = [todo EXCEPT ![r] = Task("patch", x, given, row[x])]
    BY <1>2, <2>1 DEF ReadForPatch, Start
  <2>3. row[x] \in RowsOf(x) /\ given \in Given(x)
    BY <2>1, <2>2, InputsAssumption DEF TypeOK, Tables, Present
  <2> QED BY <2>2, <2>3, TasksTyped
<1>3. ASSUME NEW r \in Requests, NEW e \in Endpoints, NEW given \in Patches[e],
             ReadForRouting(r, e, given)
      PROVE  /\ UNCHANGED <<row, audit>>
             /\ \E t \in Tasks : todo' = [todo EXCEPT ![r] = t]
  <2>1. Task("route", e, given, row[e]).id = e /\ e \in Entities
    BY DEF Task, Entities
  <2>2. /\ Present(row[e]) /\ UNCHANGED <<row, audit>>
        /\ todo' = [todo EXCEPT ![r] = Task("route", e, given, row[e])]
    BY <1>3, <2>1 DEF ReadForRouting, Start
  <2>3. row[e] \in RowsOf(e) /\ given \in Given(e)
    BY <2>1, <2>2, InputsAssumption DEF TypeOK, Tables, Present
  <2> QED BY <2>2, <2>3, TasksTyped
<1>4. ASSUME NEW r \in Requests, NEW x \in Entities, ReadForDelete(r, x)
      PROVE  /\ UNCHANGED <<row, audit>>
             /\ \E t \in Tasks : todo' = [todo EXCEPT ![r] = t]
  BY <1>4, TasksTyped DEF ReadForDelete, Start
<1>5. ASSUME NEW r \in Requests, Count(r)
      PROVE  /\ UNCHANGED <<row, audit>>
             /\ \E t \in Tasks : todo' = [todo EXCEPT ![r] = t]
  <2>1. todo[r] \in Tasks /\ todo[r].op = "count"
    BY <1>5 DEF TypeOK, Count
  <2>2. Idle \in Tasks /\ Task("remove", todo[r].id, Nothing, Absent) \in Tasks
    BY <2>1, TasksAre, TasksTyped DEF Entities, Patched
  <2>3. \/ todo' = [todo EXCEPT ![r] = Idle]
        \/ todo' = [todo EXCEPT ![r] = Task("remove", todo[r].id, Nothing, Absent)]
    BY <1>5, <2>1 DEF Count, TypeOK
  <2> QED BY <1>5, <2>2, <2>3 DEF Count
<1>6. ASSUME NEW r \in Requests, Abort(r)
      PROVE  /\ UNCHANGED <<row, audit>>
             /\ \E t \in Tasks : todo' = [todo EXCEPT ![r] = t]
  BY <1>6, TasksTyped DEF Abort
<1>7. ASSUME NEW r \in Requests, FinishDelete(r)
      PROVE  todo[r].id \in Entities
  BY <1>7, TasksAre DEF FinishDelete, TypeOK
<1> QED BY <1>1, <1>2, <1>3, <1>4, <1>5, <1>6, <1>7, WriteIs DEF Next, Read, Finish

LEMMA TypeNext ==
  ASSUME TypeOK, [Next]_vars
  PROVE  TypeOK'
<1>0. row \in Tables /\ audit \in Tables /\ todo \in [Requests -> Tasks] /\ Idle \in Tasks
  BY TasksTyped DEF TypeOK
<1>1. CASE UNCHANGED vars
  BY <1>0, <1>1 DEF TypeOK, vars
<1>2. ASSUME NEW x \in Entities, NEW w \in RowsOf(x), Create(x, w)
      PROVE  TypeOK'
  BY <1>0, <1>2, PutTyped DEF Create, TypeOK
<1>3. ASSUME UNCHANGED <<row, audit>>, NEW r \in Requests, NEW t \in Tasks,
             todo' = [todo EXCEPT ![r] = t]
      PROVE  TypeOK'
  BY <1>0, <1>3 DEF TypeOK
<1>4. ASSUME NEW r \in Requests, NEW x \in Entities, NEW w \in RowsOf(x),
             NEW v \in RowsOf(x), Write(r, x, w, v)
      PROVE  TypeOK'
  <2>1. row' \in Tables /\ audit' \in Tables
    BY <1>0, <1>4, PutTyped DEF Write
  <2>2. todo' \in [Requests -> Tasks]
    BY <1>0, <1>4 DEF Write
  <2> QED BY <2>1, <2>2 DEF TypeOK
<1>5. ASSUME NEW r \in Requests, FinishDelete(r), todo[r].id \in Entities
      PROVE  TypeOK'
  <2>1. row' \in Tables /\ audit' \in Tables
    BY <1>0, <1>5, PutTyped, WithoutTyped DEF FinishDelete
  <2>2. todo' \in [Requests -> Tasks]
    BY <1>0, <1>5 DEF FinishDelete
  <2> QED BY <2>1, <2>2 DEF TypeOK
<1> QED BY <1>1, <1>2, <1>3, <1>4, <1>5, StepsAre

\* Every variable keeps its type.
THEOREM TypeCorrect == Spec => []TypeOK
<1>1. Init => TypeOK
  <2> SUFFICES ASSUME Init PROVE TypeOK
    OBVIOUS
  <2>1. row \in [Entities -> Rows]
    BY DEF Init, Rows
  <2>2. row \in Tables /\ audit \in Tables
    BY <2>1 DEF Init, Tables
  <2>3. todo \in [Requests -> Tasks]
    BY TasksTyped DEF Init
  <2> QED BY <2>2, <2>3 DEF TypeOK
<1> QED BY <1>1, TypeNext, PTL DEF Spec

-----------------------------------------------------------------------------
(* References *)

\* A row that is written keeps its references, and everybody else's.
LEMMA PutKeepsReferences ==
  ASSUME TypeOK, ReferencesHold, NEW x \in Entities, NEW w \in RowsOf(x),
         Attached(row, x, w), row' = [row EXCEPT ![x] = w]
  PROVE  ReferencesHold'
<1>1. row'[x] = w /\ Present(w) /\ \A y \in Entities \ {x} : row'[y] = row[y]
  BY PutTyped, RowsTyped DEF TypeOK
<1>2. \A z \in Entities : Present(row[z]) => Present(row'[z])
  BY <1>1
<1> SUFFICES ASSUME NEW y \in Entities, Present(row'[y])
             PROVE  Attached(row', y, row'[y])
  BY DEF ReferencesHold
<1>3. Attached(row, y, row'[y])
  BY <1>1 DEF ReferencesHold
<1>4. Needs[y] \subseteq Entities
  BY NeedsAssumption
<1>5. y \in Consumers => row'[y].second \in Entities \cup {Null}
  <2> HAVE y \in Consumers
  <2>1. row'[y] \in RowsOf(y)
    BY <1>1 DEF TypeOK, Tables, Present
  <2> QED BY <2>1 DEF RowsOf, Column, Entities, Patched
<1> QED BY <1>2, <1>3, <1>4, <1>5 DEF Attached

\* What goes with a row that is deleted is not referenced either.
LEMMA DeleteKeepsReferences ==
  ASSUME TypeOK, ReferencesHold, NEW x \in Entities, ~Restricted(row, x),
         row' = Without(row, x)
  PROVE  ReferencesHold'
<1> SUFFICES ASSUME NEW y \in Entities, Present(row'[y])
             PROVE  Attached(row', y, row'[y])
  BY DEF ReferencesHold
<1>0. row \in Tables /\ ~Present(Absent)
  BY RowsTyped DEF TypeOK
<1>1. /\ y # x /\ Present(row[y]) /\ ~(x \in Nodes \cap Needs[y])
      /\ row'[y] = row[y] \/ (y \in Consumers /\ row'[y] = [first |-> row[y].first, second |-> Null])
  BY <1>0, WithoutRow
<1>2. x \notin Needs[y]
  BY <1>1 DEF Restricted
<1>3. Attached(row, y, row[y])
  BY <1>1 DEF ReferencesHold
\* A row that stays present: not x itself, and no endpoint of a node x.
<1>4. ASSUME NEW z \in Entities, z # x, x \notin Nodes \cap Needs[z], Present(row[z])
      PROVE  Present(row'[z])
  <2>1. row[z] \in RowsOf(z)
    BY <1>0, <1>4 DEF Tables, Present
  <2>2. z \in Consumers => [first |-> row[z].first, second |-> Null] \in RowsOf(z)
    BY <2>1 DEF RowsOf, Column
  <2>3. row'[z] = row[z] \/ (z \in Consumers
                               /\ row'[z] = [first |-> row[z].first, second |-> Null])
    BY <1>0, <1>4, WithoutRow
  <2> QED BY <1>4, <2>2, <2>3, RowsTyped
<1>5. ASSUME NEW z \in Needs[y] PROVE Present(row'[z])
  <2>1. z \in Entities /\ z # x /\ Present(row[z])
    BY <1>2, <1>3, NeedsAssumption DEF Attached
  <2>2. y \in Accounts \cup Endpoints
    BY NeedsAssumption DEF Entities
  <2>3. x \notin Nodes \cap Needs[z]
    <3>1. z \in Accounts \cup Patched
      BY <2>2, NeedsAssumption DEF Patched, Rereads
    <3>2. z \in Accounts => Needs[z] \subseteq Providers
      BY NeedsAssumption
    <3>3. z \in Patched => Needs[z] = {}
      BY NeedsAssumption
    <3> QED BY <3>1, <3>2, <3>3, KindsAssumption
  <2> QED BY <1>4, <2>1, <2>3
<1>6. ASSUME y \in Consumers, row'[y].second # Null PROVE Present(row'[row'[y].second])
  <2>1. row'[y] = row[y] /\ row[y].second # x
    BY <1>0, <1>1, <1>6, WithoutRow
  <2>2. row[y].second \in Profiles
    BY <1>0, <1>1, <1>6, <2>1 DEF Tables, Present, RowsOf, Column
  <2>3. Present(row[row[y].second])
    BY <1>3, <1>6, <2>1 DEF Attached
  <2>4. row[y].second \in Patched /\ row[y].second \in Entities
    BY <2>2 DEF Patched, Entities
  <2> QED BY <1>4, <2>1, <2>3, <2>4, NeedsAssumption
<1> QED BY <1>5, <1>6 DEF Attached

LEMMA ReferencesNext ==
  ASSUME TypeOK, ReferencesHold, [Next]_vars
  PROVE  ReferencesHold'
<1>1. CASE UNCHANGED row
  BY <1>1 DEF ReferencesHold, Attached
<1>2. ASSUME NEW x \in Entities, NEW w \in RowsOf(x), Create(x, w)
      PROVE  ReferencesHold'
  BY <1>2, PutKeepsReferences DEF Create
<1>3. ASSUME NEW r \in Requests, NEW x \in Entities, NEW w \in RowsOf(x),
             NEW v \in RowsOf(x), Write(r, x, w, v)
      PROVE  ReferencesHold'
  BY <1>3, PutKeepsReferences DEF Write
<1>4. ASSUME NEW r \in Requests, FinishDelete(r), todo[r].id \in Entities
      PROVE  ReferencesHold'
  BY <1>4, DeleteKeepsReferences DEF FinishDelete
<1> QED BY <1>1, <1>2, <1>3, <1>4, StepsAre DEF vars

\* No row references one that is gone.
THEOREM ReferencesAreKept == Spec => []ReferencesHold
<1>1. Init => ReferencesHold
  BY DEF Init, ReferencesHold, Present
<1> QED BY <1>1, ReferencesNext, TypeCorrect, PTL DEF Spec

-----------------------------------------------------------------------------
(* Audit records and PATCHes *)

\* A deletion changes no other row of the kinds that are read again, and of
\* the others with a PATCH only a consumer's profile.
LEMMA DeleteTouches ==
  ASSUME TypeOK, NEW x \in Entities, NEW y \in Patched \ {x}
  PROVE  \/ Without(row, x)[y] = row[y]
         \/ /\ y \in Consumers /\ Present(row[y]) /\ row[y].second = x
            /\ Without(row, x)[y] = [first |-> row[y].first, second |-> Null]
<1>1. y \in Entities /\ Needs[y] = {}
  BY NeedsAssumption DEF Entities
<1> QED BY <1>1, WithoutRow DEF TypeOK

LEMMA AuditNext ==
  ASSUME TypeOK, AuditIsCurrent, [Next]_vars
  PROVE  AuditIsCurrent'
<1> SUFFICES ASSUME NEW y \in Rereads PROVE audit'[y] = row'[y]
  BY DEF AuditIsCurrent
<1>0. /\ y \in Entities /\ y \in Patched /\ y \notin Consumers /\ audit[y] = row[y]
      /\ row \in Tables /\ audit \in Tables
  BY KindsAssumption DEF Entities, Patched, AuditIsCurrent, TypeOK
<1>1. CASE UNCHANGED <<row, audit>>
  BY <1>0, <1>1
<1>2. ASSUME NEW x \in Entities, NEW w \in RowsOf(x), NEW v \in RowsOf(x),
             x \in Rereads => v = w,
             row' = [row EXCEPT ![x] = w], audit' = [audit EXCEPT ![x] = v]
      PROVE  audit'[y] = row'[y]
  BY <1>0, <1>2, PutTyped
<1>3. ASSUME NEW r \in Requests, FinishDelete(r), todo[r].id \in Entities
      PROVE  audit'[y] = row'[y]
  <2> DEFINE x == todo[r].id
  <2>1. row' = Without(row, x) /\ audit' = [audit EXCEPT ![x] = Absent]
    BY <1>3 DEF FinishDelete
  <2>2. CASE y = x
    <3>1. audit'[x] = Absent
      BY <1>0, <1>3, <2>1, PutTyped
    <3>2. row'[x] = Absent
      BY <1>3, <2>1, WithoutItself
    <3> QED BY <2>2, <3>1, <3>2
  <2>3. CASE y # x
    <3>1. audit'[y] = audit[y]
      BY <1>0, <1>3, <2>1, <2>3, PutTyped
    <3>2. row'[y] = row[y]
      BY <1>0, <1>3, <2>1, <2>3, DeleteTouches
    <3> QED BY <1>0, <3>1, <3>2
  <2> QED BY <2>2, <2>3
<1>4. \/ UNCHANGED <<row, audit>>
      \/ \E x \in Entities : \E w \in RowsOf(x), v \in RowsOf(x) :
           /\ x \in Rereads => v = w
           /\ row' = [row EXCEPT ![x] = w] /\ audit' = [audit EXCEPT ![x] = v]
      \/ \E r \in Requests : FinishDelete(r) /\ todo[r].id \in Entities
  BY StepsAre DEF vars, Create, Write
<1> QED BY <1>1, <1>2, <1>3, <1>4

\* The latest audit record of a row that is read again says what the row is.
THEOREM RecordsAreCurrent == Spec => []AuditIsCurrent
<1>1. Init => AuditIsCurrent
  BY DEF Init, AuditIsCurrent
<1> QED BY <1>1, AuditNext, TypeCorrect, PTL DEF Spec

\* A column changes only for a request that names it, or with its profile.
THEOREM NoPatchIsLost == Spec => PatchesMerge
<1>1. ASSUME TypeOK, [Next]_vars, NEW y \in Patched, Present(row[y]), Present(row'[y])
      PROVE  /\ row'[y].first # row[y].first =>
                  \E r \in Requests : todo[r].id = y /\ todo[r].given.first = row'[y].first
             /\ row'[y].second # row[y].second =>
                  \/ \E r \in Requests : todo[r].id = y /\ todo[r].given.second = row'[y].second
                  \/ row'[y].second = Null /\ ~Present(row'[row[y].second])
  <2>0. y \in Entities /\ row \in Tables /\ ~Present(Absent)
    BY <1>1, RowsTyped DEF Entities, TypeOK
  <2>1. CASE row'[y] = row[y]
    BY <2>1
  <2>2. ASSUME NEW x \in Entities, NEW w \in RowsOf(x), Create(x, w)
        PROVE  row'[y] = row[y]
    BY <1>1, <2>0, <2>2, PutTyped DEF Create
  <2>3. ASSUME NEW r \in Requests, NEW x \in Entities, NEW w \in RowsOf(x),
               NEW v \in RowsOf(x), Write(r, x, w, v), todo[r].id = x,
               x \in Patched => w = Merge(row[x], todo[r].given, todo[r].read), x = y
        PROVE  /\ row'[y].first \in {row[y].first, todo[r].given.first}
               /\ row'[y].second \in {row[y].second, todo[r].given.second}
    <3>1. row'[y] = Merge(row[y], todo[r].given, todo[r].read)
      BY <1>1, <2>0, <2>3, PutTyped DEF Write
    <3> QED BY <3>1 DEF Merge
  <2>4. ASSUME NEW r \in Requests, NEW x \in Entities, NEW w \in RowsOf(x),
               NEW v \in RowsOf(x), Write(r, x, w, v), x # y
        PROVE  row'[y] = row[y]
    BY <2>0, <2>4, PutTyped DEF Write
  <2>5. ASSUME NEW r \in Requests, FinishDelete(r), todo[r].id \in Entities
        PROVE  \/ row'[y] = row[y]
               \/ /\ row'[y].first = row[y].first /\ row'[y].second = Null
                  /\ ~Present(row'[row[y].second])
    <3> DEFINE x == todo[r].id
    <3>1. row' = Without(row, x)
      BY <2>5 DEF FinishDelete
    <3>2. row'[x] = Absent
      BY <2>5, <3>1, WithoutItself
    <3>3. y # x
      BY <1>1, <2>0, <3>2
    <3>4. \/ row'[y] = row[y]
          \/ row[y].second = x /\ row'[y] = [first |-> row[y].first, second |-> Null]
      BY <1>1, <2>5, <3>1, <3>3, DeleteTouches
    <3> QED BY <2>0, <3>2, <3>4
  <2>6. CASE UNCHANGED row
    BY <2>6
  <2> QED BY <1>1, <2>1, <2>2, <2>3, <2>4, <2>5, <2>6, StepsAre DEF vars
<1>2. TypeOK /\ [Next]_vars =>
        [\A x \in Patched : Present(row[x]) /\ Present(row'[x]) =>
           /\ row'[x].first # row[x].first =>
                \E r \in Requests : todo[r].id = x /\ todo[r].given.first = row'[x].first
           /\ row'[x].second # row[x].second =>
                \/ \E r \in Requests : todo[r].id = x /\ todo[r].given.second = row'[x].second
                \/ row'[x].second = Null /\ ~Present(row'[row[x].second])]_vars
  BY <1>1
<1> QED BY <1>2, TypeCorrect, PTL DEF Spec, PatchesMerge
==============================================================================
