---------------------------- MODULE HealthControl ----------------------------
(***************************************************************************)
(* The health state of endpoints and accounts under everything that writes  *)
(* it concurrently: callbacks of the proxies, operator requests, and the    *)
(* cooldown pass of the background reconcile loop.                          *)
(*                                                                         *)
(* Every request has its own SQLite connection (get_db).  Its SELECTs run   *)
(* in autocommit mode and see the latest commit; its first INSERT, UPDATE   *)
(* or DELETE takes the database's single write lock, which it keeps until   *)
(* the commit at the end of the request.  So a request is a series of       *)
(* unlocked reads (Peek), each of which may be stale when it is used, then  *)
(* one atomic step (Commit) that performs the write the reads led to and    *)
(* everything after it; or it is rolled back (Abort: an exception, the      *)
(* 10-second busy timeout, a crash).  The cooldown pass is one transaction  *)
(* of the same kind.                                                        *)
(*                                                                         *)
(* The rows of `incidents' and `audit_logs' written along with a change are *)
(* append-only and never read by this logic; they are left out.             *)
(***************************************************************************)
EXTENDS HealthRow, FiniteSets

CONSTANTS
  Endpoints, Accounts,  \* identifiers that may be registered
  AccountOf,            \* endpoints.account_id
  Requests,             \* requests in flight at a time
  EventLabels,          \* the sets of identifiers that events may name
  EventClasses,         \* what callbacks report: failure classes, "success"
  ProbeOutcomes,        \* what probes may meet
  EndpointRequests,     \* bodies of POST /registry/endpoints/{id}/status
  AccountRequests,      \* statuses POST /registry/accounts/{id}/status may set
  NewEndpoints,         \* status and override of the endpoints created
  NewAccounts,          \* statuses of the accounts created
  Deletable             \* the identifiers an operator may delete

Entities == Endpoints \cup Accounts

Unset == "unset"        \* a query parameter that was not given (None)

ASSUME EntitiesAssumption ==
  /\ Endpoints \cap Accounts = {}
  /\ AccountOf \in [Endpoints -> Accounts]

\* What the metadata of an event may name: an endpoint, an account, or one of
\* each, which need not belong together.
Labels == {{e} : e \in Endpoints} \cup {{a} : a \in Accounts}
            \cup {{e, a} : e \in Endpoints, a \in Accounts}

ASSUME EnvironmentAssumption ==
  /\ EventLabels \subseteq Labels
  /\ EventClasses \subseteq FailureClasses \cup {"success"}
  /\ ProbeOutcomes \subseteq Outcomes
  /\ EndpointRequests \subseteq
       [status   : {Unset, "active", "degraded", "cooldown", "disabled"},
        override : {Unset} \cup Overrides]
  /\ AccountRequests \subseteq {"active", "inactive", "cooldown", "disabled"}
  /\ NewEndpoints \subseteq [status : Statuses \ {"inactive"}, override : Overrides]
  /\ NewAccounts \subseteq Statuses
  /\ Deletable \subseteq Entities

VARIABLES
  row,   \* the health columns of every entity, as committed
  todo,  \* what each request still has to do to each entity
  pass   \* the cooldown pass: its stage and the ids its scans returned

vars == <<row, todo, pass>>

-----------------------------------------------------------------------------
(* Tasks: what a request still has to do to one entity *)

Task(do, s, o) == [do |-> do, status |-> s, override |-> o]
Nothing == Task("nothing", Unset, Unset)

ReadKinds  == {"move", "success", "request"}        \* the row is read next
WriteKinds == {"put", "clear", "store", "count"}    \* a DML statement is next

Tasks ==
  [do : {"nothing", "success", "clear", "count"}, status : {Unset}, override : {Unset}]
    \cup [do : {"move", "put"}, status : Statuses, override : {Unset}]
    \cup [do : {"request"}, status : {Unset} \cup Statuses,
                             override : {Unset} \cup Overrides]
    \cup [do : {"store"}, status : Statuses, override : Overrides]

Idle == [x \in Entities |-> Nothing]

\* The task an event of a class gives each entity it reaches.  Counting a
\* failure starts with the UPDATE, without a read.
Handler(class) ==
  CASE class = "auth"    -> Task("move", "disabled", Unset)
    [] class = "rate"    -> Task("move", "cooldown", Unset)
    [] class = "other"   -> Task("count", Unset, Unset)
    [] class = "success" -> Task("success", Unset, Unset)

\* Wrong on purpose: parameters that were not given are stored as they are.
ResolveWithoutDefaults(task, w) ==
  IF ~Present(w) \/ task.do # "request" THEN Nothing
  ELSE Task("store", task.status, task.override)

\* Wrong on purpose: a 429 restarts the cooldown of a row that has one.
ResolveWithoutEarlyReturn(task, w) ==
  IF ~Present(w) \/ task.do # "move" THEN Nothing
  ELSE Task("put", task.status, Unset)

\* What a handler decides from the row w its SELECT returned.
Resolve(task, w) ==
  CASE ~Present(w) -> Nothing
    [] Present(w) /\ task.do = "move" ->
         IF w.status = task.status THEN Nothing ELSE Task("put", task.status, Unset)
    [] Present(w) /\ task.do = "success" ->
         IF w.status \in {"degraded", "recovered"} THEN Task("move", "active", Unset)
         ELSE IF w.status = "active" /\ w.fails > 0 THEN Task("clear", Unset, Unset)
         ELSE Nothing
    [] Present(w) /\ task.do = "request" ->
         Task("store", IF task.status = Unset THEN w.status ELSE task.status,
                       IF task.override = Unset THEN w.override ELSE task.override)

\* Wrong on purpose: the decided write also makes a row that was deleted.
PerformUpserting(task, w) ==
  CASE task.do = "put"   -> IF task.status = "cooldown" THEN SetCooldown(w)
                            ELSE SetStatus(w, task.status)
    [] task.do = "count" -> CountFailure(w)
    [] task.do = "move"  -> Move(w, task.status)
    [] OTHER -> w

\* What the task makes of the row w under the write lock: the write already
\* decided, or the whole handler when the lock was taken before it ran.
Perform(task, w) ==
  CASE ~Present(w) -> w
    [] Present(w) /\ task.do = "put"     -> Enter(w, task.status)
    [] Present(w) /\ task.do = "clear"   -> ClearFailures(w)
    [] Present(w) /\ task.do = "store"   ->
         [SetStatus(w, task.status) EXCEPT !.override = task.override]
    [] Present(w) /\ task.do = "count"   -> CountFailure(w)
    [] Present(w) /\ task.do = "move"    -> Move(w, task.status)
    [] Present(w) /\ task.do = "success" -> Success(w)
    [] OTHER -> w

Pending(r) == {x \in Entities : todo[r][x] # Nothing}

\* Handlers run for the endpoint first, then for the account.
IsNext(r, x) ==
  /\ x \in Pending(r)
  /\ x \in Accounts => Pending(r) \cap Endpoints = {}

-----------------------------------------------------------------------------
(* Callbacks and operator requests *)

\* The entities whose state an event touches: a failure that is not an
\* authentication error reaches the account only without an endpoint.
Targets(known, class) ==
  IF class \in {"auth", "success"} \/ known \cap Endpoints = {}
  THEN known
  ELSE known \cap Endpoints

\* ingest_event_callback up to its handlers: ids that are not registered are
\* dropped from the event first.
Receive(r, label, class) ==
  LET known == {x \in label : Present(row[x])}
  IN  /\ todo[r] = Idle
      /\ todo' = [todo EXCEPT ![r] =
           [x \in Entities |-> IF x \in Targets(known, class)
                               THEN Handler(class) ELSE Nothing]]
      /\ UNCHANGED <<row, pass>>

\* POST /registry/endpoints/{id}/status, and .../enable, which is the request
\* for status "active" without an override.
RequestEndpoint(r, e, body) ==
  /\ todo[r] = Idle
  /\ todo' = [todo EXCEPT ![r][e] = Task("request", body.status, body.override)]
  /\ UNCHANGED <<row, pass>>

\* A handler reads the row of its entity and decides.
Peek(r) ==
  \E x \in Entities :
    /\ IsNext(r, x)
    /\ todo[r][x].do \in ReadKinds
    /\ todo' = [todo EXCEPT ![r][x] = Resolve(@, row[x])]
    /\ UNCHANGED <<row, pass>>

\* A handler writes, and with the lock held the rest of the request runs.
Commit(r) ==
  \E x \in Entities :
    /\ IsNext(r, x)
    /\ todo[r][x].do \in WriteKinds
    /\ row' = [y \in Entities |-> Perform(todo[r][y], row[y])]
    /\ todo' = [todo EXCEPT ![r] = Idle]
    /\ UNCHANGED pass

\* The request is rolled back.
Abort(r) ==
  /\ todo[r] # Idle
  /\ todo' = [todo EXCEPT ![r] = Idle]
  /\ UNCHANGED <<row, pass>>

\* POST /registry/accounts/{id}/status and .../enable: a single UPDATE that
\* depends on nothing read before it.
SetAccountStatus(a, s) ==
  /\ Present(row[a])
  /\ row' = [row EXCEPT ![a] = SetStatus(@, s)]
  /\ UNCHANGED <<todo, pass>>

CreateAccount(a, s) ==
  /\ ~Present(row[a])
  /\ row' = [row EXCEPT ![a] = NewRow(s, "none")]
  /\ UNCHANGED <<todo, pass>>

\* The foreign key wants the account.
CreateEndpoint(e, new) ==
  /\ ~Present(row[e])
  /\ Present(row[AccountOf[e]])
  /\ row' = [row EXCEPT ![e] = NewRow(new.status, new.override)]
  /\ UNCHANGED <<todo, pass>>

\* ON DELETE RESTRICT: an account that endpoints reference stays.
Delete(x) ==
  /\ Present(row[x])
  /\ \A e \in Endpoints : Present(row[e]) => AccountOf[e] # x
  /\ row' = [row EXCEPT ![x] = NoRow]
  /\ UNCHANGED <<todo, pass>>

-----------------------------------------------------------------------------
(* The cooldown pass of the reconcile loop *)

\* Wrong on purpose: the scan for an endpoint looks at the account only.
ProbeableAll(rows, a) == {e \in Endpoints : AccountOf[e] = a /\ Present(rows[e])}

\* The endpoints an account may be probed through.
Probeable(rows, a) ==
  {e \in Endpoints : /\ AccountOf[e] = a
                     /\ Present(rows[e])
                     /\ rows[e].status \notin {"disabled", "cooldown", "probe"}}

\* The first loop: every endpoint of due is probed, answer says with what result.
ProbeAll(rows, due, answer) ==
  [x \in Entities |-> IF x \in due THEN Probe(rows[x], answer[x]) ELSE rows[x]]

\* One probeable endpoint of every due account that has any.
Picks(rows, due) ==
  {picked \in SUBSET UNION {Probeable(rows, a) : a \in due} :
     \A a \in due : Probeable(rows, a) # {} =>
       \E e \in picked : picked \cap Probeable(rows, a) = {e}}

\* Wrong on purpose: an account without a probeable endpoint stays in probe.
JudgeLeavingProbe(rows, due, picked, answer) ==
  LET probed  == ProbeAll(rows, picked, answer)
      checked == {AccountOf[e] : e \in picked}
  IN  [x \in Entities |->
         IF x \in due THEN IF x \in checked THEN Move(Move(rows[x], "probe"), "active")
                           ELSE Move(rows[x], "probe")
                      ELSE probed[x]]

\* Wrong on purpose: only an account without a probeable endpoint is degraded.
JudgeIgnoringAnswer(rows, due, picked, answer) ==
  LET probed  == ProbeAll(rows, picked, answer)
      checked == {AccountOf[e] : e \in picked}
  IN  [x \in Entities |->
         IF x \in due THEN Move(Move(rows[x], "probe"),
                                IF x \in checked THEN "active" ELSE "degraded")
                      ELSE probed[x]]

\* The second loop: an account moves to probe, then by the probe of its
\* endpoint to active or to degraded; to degraded without such an endpoint.
Judge(rows, due, picked, answer) ==
  LET probed == ProbeAll(rows, picked, answer)
      passed == {AccountOf[e] : e \in {f \in picked : answer[f] = "ok"}}
  IN  [x \in Entities |->
         IF x \in due THEN Move(Move(rows[x], "probe"),
                                IF x \in passed THEN "active" ELSE "degraded")
                      ELSE probed[x]]

Asleep == [stage |-> "asleep", due |-> {}]

ExpiredIn(rows, S) == {x \in S : Expired(rows[x])}

\* SELECT of the expired endpoints, outside any transaction.
ScanEndpoints ==
  /\ pass = Asleep
  /\ pass' = [stage |-> "endpoints", due |-> ExpiredIn(row, Endpoints)]
  /\ UNCHANGED <<row, todo>>

\* A probe that writes nothing leaves the pass without the lock.
SkipEndpoint(e, outcome) ==
  /\ pass.stage = "endpoints" /\ e \in pass.due
  /\ ProbeIsVoid(row[e], outcome)
  /\ pass' = [pass EXCEPT !.due = @ \ {e}]
  /\ UNCHANGED <<row, todo>>

\* The first probe that writes takes the lock; the other probes, the scan of
\* the accounts and their probes are one transaction with it.
ProbeEndpoints ==
  /\ pass.stage = "endpoints" /\ pass.due # {}
  /\ \E answer \in [pass.due -> ProbeOutcomes] :
       LET probed == ProbeAll(row, pass.due, answer)
           due    == ExpiredIn(probed, Accounts)
       IN  \E picked \in Picks(probed, due) :
             \E again \in [picked -> ProbeOutcomes] :
               row' = Judge(probed, due, picked, again)
  /\ pass' = Asleep
  /\ UNCHANGED todo

\* With no endpoint to probe the accounts are scanned outside a transaction too.
ScanAccounts ==
  /\ pass.stage = "endpoints" /\ pass.due = {}
  /\ pass' = [stage |-> "accounts", due |-> ExpiredIn(row, Accounts)]
  /\ UNCHANGED <<row, todo>>

ProbeAccounts ==
  /\ pass.stage = "accounts"
  /\ \E picked \in Picks(row, pass.due) :
       \E answer \in [picked -> ProbeOutcomes] :
         row' = Judge(row, pass.due, picked, answer)
  /\ pass' = Asleep
  /\ UNCHANGED todo

\* The pass fails and is rolled back; the loop logs and sleeps again.
AbandonPass ==
  /\ pass # Asleep
  /\ pass' = Asleep
  /\ UNCHANGED <<row, todo>>

\* Time passes.  A pass compares with the time it read when it started, so for
\* its scans no time passes while it runs.
Tick ==
  /\ pass = Asleep
  /\ row' = [x \in Entities |-> Elapse(row[x])]
  /\ UNCHANGED <<todo, pass>>

-----------------------------------------------------------------------------
\* A registry as the bootstrap leaves it: everything registered and active.
Init ==
  /\ row = [x \in Entities |-> NewRow("active", "none")]
  /\ todo = [r \in Requests |-> Idle]
  /\ pass = Asleep

Callback(r) == \E label \in EventLabels, class \in EventClasses : Receive(r, label, class)

Request(r) == \E e \in Endpoints, body \in EndpointRequests : RequestEndpoint(r, e, body)

Operator ==
  \/ \E a \in Accounts, s \in AccountRequests : SetAccountStatus(a, s)
  \/ \E a \in Accounts, s \in NewAccounts : CreateAccount(a, s)
  \/ \E e \in Endpoints, new \in NewEndpoints : CreateEndpoint(e, new)
  \/ \E x \in Deletable : Delete(x)

FinishPass == ProbeEndpoints \/ ProbeAccounts

Pass ==
  \/ ScanEndpoints
  \/ \E e \in Endpoints, outcome \in ProbeOutcomes : SkipEndpoint(e, outcome)
  \/ ScanAccounts
  \/ FinishPass
  \/ AbandonPass

Next ==
  \/ \E r \in Requests : Callback(r) \/ Request(r) \/ Peek(r) \/ Commit(r) \/ Abort(r)
  \/ Operator
  \/ Pass
  \/ Tick

Spec == Init /\ [][Next]_vars

\* Time goes on between passes (the loop sleeps), the loop never stops, and
\* not every pass is rolled back.  Requests may starve or be rolled back.
FairSpec == Spec /\ SF_vars(Tick) /\ WF_vars(ScanEndpoints)
                 /\ SF_vars(ScanAccounts) /\ SF_vars(FinishPass)

-----------------------------------------------------------------------------
(* Properties that hold *)

\* Every variable has its type.
TypeOK ==
  /\ row \in [Entities -> Rows \cup {NoRow}]
  /\ todo \in [Requests -> [Entities -> Tasks]]
  /\ pass \in [stage : {"asleep", "endpoints", "accounts"}, due : SUBSET Entities]

\* An active row has no cooldown and fewer failures than would degrade it,
\* whichever stale write made it active: otherwise its next failure, or none,
\* would exclude it again (the two columns reset in update_*_status).
ActiveIsClean ==
  \A x \in Entities : row[x].status = "active" =>
    row[x].timer = NoTimer /\ row[x].fails < FailureThreshold

\* `recovered' is transient in every transaction that enters it, and so is
\* `probe' for an account: no commit shows them, unless a row was created so.
TransientStatesHidden ==
  /\ \A x \in Entities : row[x].status # "recovered"
  /\ \A a \in Accounts : row[a].status # "probe"

\* Only a request of an operator changes an override: neither the transitions
\* of callbacks, which rewrite that column, nor the probes.
HealthKeepsOverrides ==
  [][\A e \in Endpoints :
       Present(row[e]) /\ Present(row'[e]) /\ row'[e].override # row[e].override
         => \E r \in Requests : todo[r][e].do = "store"]_vars

\* A cooldown pass re-activates an account only together with an endpoint of
\* the account that its probe found healthy ("not direct activation").
AccountActivationIsProbed ==
  [][FinishPass => \A a \in Accounts :
       row[a].status # "active" /\ row'[a].status = "active"
         => \E e \in Endpoints : AccountOf[e] = a /\ row'[e].status = "active"]_vars

\* A row deleted under an in-flight request or a running pass is not brought
\* back by what they write: only a creation makes a row, and a fresh one.
DeletedStaysDeleted ==
  [][\A x \in Entities : ~Present(row[x]) /\ Present(row'[x]) =>
       /\ row'[x] = NewRow(row'[x].status, row'[x].override)
       /\ UNCHANGED <<todo, pass>>]_vars

\* A cooldown ends: stragglers of the same outage cannot prolong it for ever,
\* and the pass comes to every expired row.
CooldownEnds ==
  \A x \in Entities : row[x].status = "cooldown" ~> row[x].status # "cooldown"
==============================================================================
