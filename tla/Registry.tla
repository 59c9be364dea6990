------------------------------- MODULE Registry -------------------------------
(***************************************************************************)
(* The registry's rows under concurrent operator requests: creation, PATCH,  *)
(* the routing request, deletion, and the foreign keys that tie the tables   *)
(* together.  As in HealthControl a request reads without a lock, decides,   *)
(* and then writes in one atomic step: what it read may be stale by then.    *)
(*                                                                         *)
(* Abstractions: of every row two columns are kept, enough for two requests  *)
(* to meet in a row without meeting in a column: `first' stands for any      *)
(* column, `second' for another one; a consumer's second is profile_id, an   *)
(* endpoint's two are priority and weight.  A reference that no request can  *)
(* change (accounts.provider_id, the three of an endpoint) is a constant.    *)
(* Statuses are in HealthControl, consumer_keys and the synchronization that *)
(* follows a consumer's creation or PATCH in KeySync.                        *)
(***************************************************************************)

CONSTANTS
  Nodes, Providers, Models, Accounts, Endpoints, Consumers, Profiles,
  Needs,      \* the rows that a row references with a NOT NULL column
  Values,     \* of a column
  Null,       \* SQL NULL
  Unset,      \* a field that a PATCH leaves out
  Absent,     \* no row
  Requests,   \* requests in flight at a time
  NewRows,    \* the rows that a creation may make of an id
  Patches     \* the parameters that a request for an id may give

Rereads == Nodes \cup Providers \cup Models   \* update_* reads the row again
Patched == Rereads \cup Consumers \cup Profiles
Entities == Patched \cup Accounts \cup Endpoints

\* The second column of x; what a PATCH may put there, never a NULL
\* (exclude_none).
Column(x) == IF x \in Consumers THEN Profiles \cup {Null} ELSE Values
RowsOf(x) == [first : Values, second : Column(x)]
Given(x)  == [first : Values \cup {Unset}, second : (Column(x) \ {Null}) \cup {Unset}]
Nothing   == [first |-> Unset, second |-> Unset]

ASSUME KindsAssumption ==
  /\ Rereads \cap (Consumers \cup Profiles \cup Accounts \cup Endpoints) = {}
  /\ Nodes \cap (Providers \cup Models) = {}
  /\ Consumers \cap (Profiles \cup Accounts \cup Endpoints) = {}
  /\ Profiles \cap (Accounts \cup Endpoints) = {}
  /\ Accounts \cap Endpoints = {}

ASSUME NeedsAssumption ==
  /\ Needs \in [Entities -> SUBSET Entities]
  /\ \A a \in Accounts : Needs[a] \subseteq Providers
  /\ \A e \in Endpoints : Needs[e] \subseteq Nodes \cup Accounts \cup Models
  /\ \A x \in Patched : Needs[x] = {}

ASSUME ValuesAssumption ==
  /\ Unset \notin Values \cup Profiles
  /\ Null \notin Entities
  /\ \A x \in Entities : Absent \notin RowsOf(x)

ASSUME InputsAssumption ==
  \A x \in Entities : NewRows[x] \subseteq RowsOf(x) /\ Patches[x] \subseteq Given(x)

VARIABLES
  row,    \* the tables, as committed
  audit,  \* what the latest record of audit_logs about an id says of its row
  todo    \* what each request is going to do, and the row it read

vars == <<row, audit, todo>>

Present(w) == w # Absent

Rows == (UNION {RowsOf(x) : x \in Entities}) \cup {Absent}
Tables == {t \in [Entities -> Rows] : \A x \in Entities : t[x] \in RowsOf(x) \cup {Absent}}

Task(op, x, given, read) == [op |-> op, id |-> x, given |-> given, read |-> read]
Idle == Task("idle", Null, Nothing, Absent)

Tasks ==
  {Idle}
    \cup (UNION {[op : {"patch"}, id : {x}, given : Given(x), read : RowsOf(x)] : x \in Patched})
    \cup (UNION {[op : {"route"}, id : {x}, given : Given(x), read : RowsOf(x)] : x \in Endpoints})
    \cup [op : {"count"}, id : Profiles, given : {Nothing}, read : {Absent}]
    \cup [op : {"remove"}, id : Entities, given : {Nothing}, read : {Absent}]

-----------------------------------------------------------------------------
(* What the statements do to the tables *)

\* Wrong on purpose: the columns that were not given are written too, as read.
MergeWholeRow(w, given, read) ==
  [first  |-> IF given.first = Unset THEN read.first ELSE given.first,
   second |-> IF given.second = Unset THEN read.second ELSE given.second]

\* Wrong on purpose: what was not given is written too, as the None it is.
MergeUnset(w, given, read) == given

\* UPDATE ... SET of the given columns, of the row w.
Merge(w, given, read) ==
  [first  |-> IF given.first = Unset THEN w.first ELSE given.first,
   second |-> IF given.second = Unset THEN w.second ELSE given.second]

\* The foreign keys of a row w with the id x hold.
Attached(rows, x, w) ==
  /\ \A y \in Needs[x] : Present(rows[y])
  /\ x \in Consumers /\ w.second # Null => Present(rows[w.second])

\* ON DELETE RESTRICT, of providers, models and accounts.
Restricted(rows, x) ==
  x \notin Nodes /\ \E y \in Entities : Present(rows[y]) /\ x \in Needs[y]

\* Wrong on purpose: as in a database whose profile_id came with a migration,
\* without a foreign key.
WithoutSetNull(rows, x) ==
  [y \in Entities |-> IF y = x \/ x \in Nodes \cap Needs[y] THEN Absent ELSE rows[y]]

\* DELETE of x: ON DELETE CASCADE takes the endpoints of a node along, ON
\* DELETE SET NULL clears profile_id.
Without(rows, x) ==
  [y \in Entities |->
     IF y = x \/ x \in Nodes \cap Needs[y] THEN Absent
     ELSE IF y \in Consumers /\ Present(rows[y]) /\ rows[y].second = x
          THEN [first |-> rows[y].first, second |-> Null]
     ELSE rows[y]]

-----------------------------------------------------------------------------
(* Requests *)

\* POST /registry/{kind}: the INSERT comes first; a row that exists or a
\* reference that fails is a ValueError, which changes nothing.
Create(x, w) ==
  /\ ~Present(row[x]) /\ Attached(row, x, w)
  /\ row' = [row EXCEPT ![x] = w]
  /\ audit' = [audit EXCEPT ![x] = w]
  /\ UNCHANGED todo

Start(r, task) ==
  /\ todo[r] = Idle /\ Present(row[task.id])
  /\ todo' = [todo EXCEPT ![r] = task]
  /\ UNCHANGED <<row, audit>>

\* PATCH /registry/{kind}/{id} up to its UPDATE; without fields there is none.
ReadForPatch(r, x, given) ==
  given # Nothing /\ Start(r, Task("patch", x, given, row[x]))

\* POST /registry/endpoints/{id}/routing up to its UPDATE, which comes also
\* when neither parameter was given.
ReadForRouting(r, e, given) == Start(r, Task("route", e, given, row[e]))

\* DELETE /registry/{kind}/{id} up to the DELETE, or to the COUNT for a profile.
ReadForDelete(r, x) ==
  Start(r, Task(IF x \in Profiles THEN "count" ELSE "remove", x, Nothing, Absent))

\* delete_policy_profile counts the consumers of the profile, without a lock.
Count(r) ==
  /\ todo[r].op = "count"
  /\ todo' = [todo EXCEPT ![r] =
       IF \E c \in Consumers : Present(row[c]) /\ row[c].second = @.id
       THEN Idle ELSE Task("remove", @.id, Nothing, Absent)]
  /\ UNCHANGED <<row, audit>>

\* The UPDATE makes w of the row x, and the record says it made v of it.
Write(r, x, w, v) ==
  /\ Present(row[x]) /\ Attached(row, x, w)
  /\ row' = [row EXCEPT ![x] = w]
  /\ audit' = [audit EXCEPT ![x] = v]
  /\ todo' = [todo EXCEPT ![r] = Idle]

\* Wrong on purpose: the record is computed from the row as it was read.
FinishPatchUnread(r) ==
  LET t == todo[r]
      x == t.id
  IN  /\ t.op = "patch" /\ x \in Rereads
      /\ Write(r, x, Merge(row[x], t.given, t.read), Merge(t.read, t.given, t.read))

\* update_node, update_provider, update_model: the row is read again for the
\* record, and has to be there (an assertion).
FinishPatch(r) ==
  LET t == todo[r]
      x == t.id
      w == Merge(row[x], t.given, t.read)
  IN  /\ t.op = "patch" /\ x \in Rereads
      /\ Write(r, x, w, w)

\* update_consumer, update_policy_profile: the record is computed from the row
\* as it was read.  If the row is gone the request is a 404, and rolled back.
FinishPatchBlindly(r) ==
  LET t == todo[r]
      x == t.id
  IN  /\ t.op = "patch" /\ x \in Consumers \cup Profiles
      /\ Write(r, x, Merge(row[x], t.given, t.read), Merge(t.read, t.given, t.read))

\* update_endpoint_routing writes both columns, one of them as it was read.
FinishRouting(r) ==
  LET t == todo[r]
      x == t.id
      w == Merge(t.read, t.given, t.read)
  IN  /\ t.op = "route"
      /\ Write(r, x, w, w)

\* delete_*: the record is written though the row is gone already, and never
\* for the endpoints or the consumers that the statement changes along with it.
FinishDelete(r) ==
  LET x == todo[r].id
  IN  /\ todo[r].op = "remove" /\ ~Restricted(row, x)
      /\ row' = Without(row, x)
      /\ audit' = [audit EXCEPT ![x] = Absent]
      /\ todo' = [todo EXCEPT ![r] = Idle]

\* An exception (a constraint, an assertion, the busy timeout, a 404 after the
\* UPDATE) rolls the request back.
Abort(r) ==
  /\ todo[r] # Idle
  /\ todo' = [todo EXCEPT ![r] = Idle]
  /\ UNCHANGED <<row, audit>>

\* An empty database.
Init ==
  /\ row = [x \in Entities |-> Absent]
  /\ audit = row
  /\ todo = [r \in Requests |-> Idle]

Read(r) ==
  \/ \E x \in Patched : \E given \in Patches[x] : ReadForPatch(r, x, given)
  \/ \E e \in Endpoints : \E given \in Patches[e] : ReadForRouting(r, e, given)
  \/ \E x \in Entities : ReadForDelete(r, x)

Finish(r) ==
  FinishPatch(r) \/ FinishPatchBlindly(r) \/ FinishRouting(r) \/ FinishDelete(r)

Next ==
  \/ \E x \in Entities : \E w \in NewRows[x] : Create(x, w)
  \/ \E r \in Requests : Read(r) \/ Count(r) \/ Finish(r) \/ Abort(r)

Spec == Init /\ [][Next]_vars

-----------------------------------------------------------------------------
(* Properties that hold *)

\* Every variable has its type: no statement writes what its table cannot hold.
TypeOK ==
  /\ row \in Tables /\ audit \in Tables
  /\ todo \in [Requests -> Tasks]

\* No row references one that is gone, whatever creations, PATCHes and deletions
\* cross each other: not an endpoint when its node goes, nor a consumer that got
\* its profile after delete_policy_profile counted the profile's consumers.
ReferencesHold ==
  \A x \in Entities : Present(row[x]) => Attached(row, x, row[x])

\* Two PATCHes of one row merge, although each was decided from a row that the
\* other has changed since: a column changes only for a request that names it,
\* or because the profile it holds is deleted.
PatchesMerge ==
  [][\A x \in Patched : Present(row[x]) /\ Present(row'[x]) =>
       /\ row'[x].first # row[x].first =>
            \E r \in Requests : todo[r].id = x /\ todo[r].given.first = row'[x].first
       /\ row'[x].second # row[x].second =>
            \/ \E r \in Requests : todo[r].id = x /\ todo[r].given.second = row'[x].second
            \/ row'[x].second = Null /\ ~Present(row'[row[x].second])]_vars

\* The latest audit record of a node, a provider or a model says what the row
\* is, or that it is gone, although the request read the row before it had the
\* lock.  (Of a consumer, a profile or an endpoint it may not.)
AuditIsCurrent == \A x \in Rereads : audit[x] = row[x]
==============================================================================
