--------------------------- MODULE HealthSerialProofs ---------------------------
(***************************************************************************)
(* HealthControl implements HealthSerial, for every set of endpoints,        *)
(* accounts and requests, as long as the requests only report failures and   *)
(* no probe is answered.                                                     *)
(*                                                                         *)
(* The rows of HealthSerial have no timers, so the first half of the proof   *)
(* is that every write commutes with forgetting the timer.  A write decided  *)
(* from an old read then does what the whole handler would do with the       *)
(* current row: where the handler would have returned early, the write       *)
(* changes at most the timer.                                                *)
(***************************************************************************)
EXTENDS HealthRefinement, HealthStepProofs

\* No success is reported, no request names an endpoint status, no probe answers.
OnlyFailures ==
  /\ "success" \notin EventClasses
  /\ EndpointRequests = {}
  /\ ProbeOutcomes = {}

\* What a request that reports a failure of the class may have to do still.
Reports(class) ==
  IF class = "other" THEN {Nothing, Handler(class)}
  ELSE {Nothing, Handler(class), Task("put", Handler(class).status, Unset)}

\* A request in flight reports one failure: no request mixes two handlers.
Reporting ==
  \A r \in Requests :
    todo[r] = Idle \/ \E class \in EventClasses : \A x \in Entities : todo[r][x] \in Reports(class)

\* A row without its timer, which HealthSerial does not keep.
Timeless(w) == [w EXCEPT !.timer = NoTimer]

\* The rows as HealthSerial sees them.
Health == [x \in Entities |-> Timeless(row[x])]

-----------------------------------------------------------------------------
(* Forgetting the timer *)

\* Forgetting the timer twice is forgetting it once.
LEMMA TimelessRows ==
  ASSUME NEW w \in Rows \cup {NoRow}
  PROVE  /\ Timeless(w) \in Rows \cup {NoRow}
         /\ Timeless(Timeless(w)) = Timeless(w)
         /\ Timeless(w).status = w.status
         /\ Timeless(w).fails = w.fails
         /\ Present(Timeless(w)) <=> Present(w)
<1>1. CASE w = NoRow
  <2>1. Timeless(NoRow) = NoRow
    BY DEF Timeless, NoRow, NewRow
  <2> QED BY <1>1, <2>1
<1>2. CASE w \in Rows
  BY <1>2 DEF Timeless, Rows, Timers, Present
<1> QED BY <1>1, <1>2

\* Writing a status, or a cooldown, commutes with forgetting the timer.
LEMMA TimelessSetStatus ==
  ASSUME NEW w \in Rows, NEW s \in Statuses
  PROVE  /\ Timeless(SetStatus(w, s)) = SetStatus(Timeless(w), s)
         /\ Timeless(SetCooldown(w)) = Timeless(SetCooldown(Timeless(w)))
BY DEF Timeless, SetStatus, SetCooldown, Rows

\* Whether the early return of the handler was taken makes no difference,
\* except to the timer of a cooldown and for an activation.
LEMMA TimelessEnter ==
  ASSUME NEW w \in Rows \cup {NoRow}, NEW s \in Statuses
  PROVE  /\ Timeless(Enter(w, s)) = Timeless(Enter(Timeless(w), s))
         /\ s # "active" => Timeless(Enter(w, s)) = Timeless(Move(Timeless(w), s))
<1>1. CASE ~Present(w)
  BY <1>1, TimelessRows DEF Enter, Move
<1>2. CASE Present(w)
  <2>0. w \in Rows
    BY <1>2, PresentRows
  <2> DEFINE v == Timeless(w)
  <2>1. v \in Rows /\ Present(v) /\ v.status = w.status /\ Timeless(v) = v
    BY <1>2, TimelessRows, PresentRows
  <2>2. Timeless(Enter(w, s)) = Timeless(Enter(v, s))
    BY <1>2, <2>0, <2>1, TimelessSetStatus DEF Enter
  <2>3. ASSUME s # "active", w.status = s
        PROVE  Timeless(Enter(w, s)) = v
    BY <1>2, <2>0, <2>3 DEF Enter, SetStatus, SetCooldown, Timeless, Rows
  <2> HIDE DEF v
  <2>4. s # "active" => Timeless(Enter(w, s)) = Timeless(Move(v, s))
    BY <2>1, <2>2, <2>3 DEF Move
  <2> QED BY <2>2, <2>4 DEF v
<1> QED BY <1>1, <1>2

\* So does a guarded transition, whose guard reads only the status.
LEMMA TimelessMove ==
  ASSUME NEW w \in Rows \cup {NoRow}, NEW s \in Statuses
  PROVE  Timeless(Move(w, s)) = Timeless(Move(Timeless(w), s))
BY TimelessRows, TimelessEnter DEF Move

\* So does counting a failure: the threshold is on the counter.
LEMMA TimelessCount ==
  ASSUME NEW w \in SoundRows
  PROVE  Timeless(CountFailure(w)) = Timeless(CountFailure(Timeless(w)))
<1>0. w \in Rows \cup {NoRow}
  BY SoundRowsTyped
<1>1. CASE ~Present(w)
  BY <1>0, <1>1, TimelessRows DEF CountFailure
<1>2. CASE Present(w)
  <2> DEFINE v == Timeless(w)
             c == AddFailure(w)
             d == AddFailure(v)
  <2>1. w \in Rows /\ v \in Rows /\ Present(v)
    BY <1>0, <1>2, TimelessRows, PresentRows
  <2>2. c \in Rows /\ d \in Rows /\ d.fails = c.fails /\ d = Timeless(c)
    <3>1. /\ w.fails \in 0..FailureThreshold /\ FailureThreshold \in Nat \ {0}
          /\ v.fails = w.fails
      BY <1>0, <2>1, ThresholdAssumption, TimelessRows DEF Rows
    <3>2. c \in Rows /\ d \in Rows
      BY <2>1, <3>1 DEF AddFailure, Rows
    <3>3. d = Timeless(c)
      BY <2>1 DEF AddFailure, Timeless, Rows
    <3> QED BY <3>2, <3>3, TimelessRows
  <2>3. Timeless(Move(c, "degraded")) = Timeless(Move(d, "degraded"))
    BY <2>2, TimelessMove DEF Statuses
  <2>4. Timeless(c) = Timeless(d)
    BY <2>2, TimelessRows
  <2>5. CountFailure(w) = IF c.fails >= FailureThreshold THEN Move(c, "degraded") ELSE c
    BY <1>2 DEF CountFailure
  <2>6. CountFailure(v) = IF d.fails >= FailureThreshold THEN Move(d, "degraded") ELSE d
    BY <2>1 DEF CountFailure
  <2> HIDE DEF c, d, v
  <2>7. Timeless(CountFailure(w)) = Timeless(CountFailure(v))
    BY <2>2, <2>3, <2>4, <2>5, <2>6
  <2> QED BY <2>7 DEF v
<1> QED BY <1>1, <1>2

\* What is left to do of a report does to a row what the handler would do.
LEMMA PerformIsFailure ==
  ASSUME NEW w \in SoundRows, NEW class \in FailureClasses,
         NEW task \in Reports(class), task # Nothing
  PROVE  Timeless(Perform(task, w)) = Timeless(Failure(Timeless(w), class))
<1>0. w \in Rows \cup {NoRow}
  BY SoundRowsTyped
<1>1. CASE ~Present(w)
  <2>1. w = NoRow /\ Timeless(w) = w
    <3>1. Timeless(NoRow) = NoRow
      BY DEF NoRow, NewRow, Timeless
    <3> QED BY <1>0, <1>1, <3>1, RowsPresent
  <2>2. Failure(w, class) = w
    BY <1>1, <2>1 DEF Failure, FailureClasses, Move, Enter, CountFailure
  <2>3. Perform(task, w) = w
    BY <1>1 DEF Perform
  <2> QED BY <2>1, <2>2, <2>3
<1>2. CASE Present(w)
  <2>1. CASE class = "other"
    <3>1. task.do = "count"
      BY <2>1 DEF Reports, Handler, Task
    <3>2. Perform(task, w) = CountFailure(w)
      BY <1>2, <3>1 DEF Perform
    <3> QED BY <2>1, <3>2, TimelessCount DEF Failure
  <2>2. ASSUME NEW s \in {"disabled", "cooldown"},
               Handler(class) = Task("move", s, Unset),
               Failure(Timeless(w), class) = Move(Timeless(w), s), class # "other"
        PROVE  Timeless(Perform(task, w)) = Timeless(Failure(Timeless(w), class))
    <3>1. task.do \in {"move", "put"} /\ task.status = s
      BY <2>2 DEF Reports, Task
    <3>2. Perform(task, w) \in {Move(w, s), Enter(w, s)}
      BY <1>2, <3>1 DEF Perform
    <3> QED BY <1>0, <2>2, <3>2, TimelessMove, TimelessEnter DEF Statuses
  <2>3. CASE class = "auth"
    BY <2>2, <2>3 DEF Handler, Failure
  <2>4. CASE class = "rate"
    BY <2>2, <2>4 DEF Handler, Failure
  <2> QED BY <2>1, <2>3, <2>4 DEF FailureClasses
<1> QED BY <1>1, <1>2

\* So do the two transitions of the pass on a row due, which set no timer.
LEMMA TimelessDoubt ==
  ASSUME NEW w \in Rows \cup {NoRow}
  PROVE  Timeless(Move(Move(w, "probe"), "degraded"))
           = Move(Move(Timeless(w), "probe"), "degraded")
<1>1. CASE ~Present(w)
  BY <1>1, TimelessRows DEF Move, Enter
<1>2. CASE Present(w)
  <2>1. w \in Rows
    BY <1>2, PresentRows
  <2> QED BY <2>1 DEF Timeless, Move, Enter, SetStatus, Present, Rows
<1> QED BY <1>1, <1>2

\* Time that passes changes nothing but the timer.
LEMMA TimelessElapse ==
  ASSUME NEW w \in Rows \cup {NoRow}
  PROVE  Timeless(Elapse(w)) = Timeless(w)
BY DEF Timeless, Elapse, Rows, NoRow, NewRow

-----------------------------------------------------------------------------
(* The reports in flight *)

\* With only failures every event is of one of three classes.
LEMMA OnlyFailureClasses ==
  ASSUME OnlyFailures
  PROVE  EventClasses \subseteq FailureClasses
BY EnvironmentAssumption DEF OnlyFailures

\* The read of a handler keeps the task within its report.
LEMMA ResolveReports ==
  ASSUME NEW class \in FailureClasses, NEW task \in Reports(class),
         task.do \in ReadKinds, NEW w
  PROVE  Resolve(task, w) \in Reports(class)
<1>1. class # "other" /\ task = Handler(class) /\ task.do = "move"
  BY DEF FailureClasses, Reports, Handler, Task, Nothing, ReadKinds
<1>2. Resolve(task, w) \in {Nothing, Task("put", task.status, Unset)}
  BY <1>1 DEF Resolve
<1> QED BY <1>1, <1>2 DEF Reports

\* Reporting is kept by every step.
LEMMA ReportingNext ==
  ASSUME OnlyFailures, Inv, Reporting, [Next]_vars
  PROVE  Reporting'
<1>0. todo \in [Requests -> [Entities -> Tasks]]
  BY DEF Inv
<1>1. ASSUME NEW r \in Requests, Callback(r)
      PROVE  Reporting'
  <2>1. PICK label \in EventLabels, class \in EventClasses : Receive(r, label, class)
    BY <1>1 DEF Callback
  <2> DEFINE given == [x \in Entities |->
               IF x \in Targets({y \in label : Present(row[y])}, class)
               THEN Handler(class) ELSE Nothing]
  <2>2. todo' = [todo EXCEPT ![r] = given]
    BY <2>1 DEF Receive
  <2>3. \A x \in Entities : given[x] \in Reports(class)
    BY DEF Reports
  <2> HIDE DEF given
  <2> QED BY <1>0, <2>2, <2>3 DEF Reporting
<1>2. ASSUME NEW r \in Requests, Peek(r)
      PROVE  Reporting'
  <2>1. PICK x \in Entities : /\ x \in Pending(r)
                             /\ todo[r][x].do \in ReadKinds
                             /\ todo' = [todo EXCEPT ![r][x] = Resolve(@, row[x])]
    BY <1>2 DEF Peek, IsNext
  <2>2. todo[r] # Idle
    BY <2>1 DEF Pending, Idle
  <2>3. PICK class \in EventClasses : \A y \in Entities : todo[r][y] \in Reports(class)
    BY <2>2 DEF Reporting
  <2>4. Resolve(todo[r][x], row[x]) \in Reports(class)
    BY <2>1, <2>3, OnlyFailureClasses, ResolveReports
  <2>5. \A y \in Entities : todo'[r][y] \in Reports(class)
    BY <1>0, <2>1, <2>3, <2>4
  <2>6. \A q \in Requests : q # r => todo'[q] = todo[q]
    BY <1>0, <2>1
  <2> QED BY <2>5, <2>6 DEF Reporting
<1>3. ASSUME NEW r \in Requests, Commit(r) \/ Abort(r)
      PROVE  Reporting'
  BY <1>0, <1>3 DEF Commit, Abort, Reporting
<1>4. \A r \in Requests : ~Request(r)
  BY DEF Request, OnlyFailures
<1>5. CASE Operator \/ Pass \/ Tick \/ UNCHANGED vars
  <2>1. UNCHANGED todo
    BY <1>5 DEF Operator, SetAccountStatus, CreateAccount, CreateEndpoint, Delete, Pass,
                ScanEndpoints, SkipEndpoint, ScanAccounts, FinishPass, ProbeEndpoints,
                ProbeAccounts, AbandonPass, Tick, vars
  <2> QED BY <2>1 DEF Reporting
<1> QED BY <1>1, <1>2, <1>3, <1>4, <1>5 DEF Next

-----------------------------------------------------------------------------
(* Every step is a step of HealthSerial or changes timers only *)

\* The instance shares the operators on rows.
LEMMA SharedRows ==
  /\ \A w, class : Serial!Forget(w) = Timeless(w) /\ Serial!Failure(w, class) = Failure(w, class)
  /\ \A w, s : Serial!Move(w, s) = Move(w, s) /\ Serial!SetStatus(w, s) = SetStatus(w, s)
  /\ \A s, o : Serial!NewRow(s, o) = NewRow(s, o)
  /\ \A w : Serial!Present(w) <=> Present(w)
  /\ Serial!NoRow = NoRow
BY DEF Serial!Forget, Serial!Failure, Serial!Move, Serial!SetStatus, Serial!NewRow,
       Serial!Present, Serial!NoRow, Serial!Enter, Serial!SetCooldown,
       Serial!CountFailure, Serial!AddFailure,
       Timeless, Failure, Move, SetStatus, NewRow, Present, NoRow, Enter, SetCooldown,
       CountFailure, AddFailure

\* A commit is one report, of what the request had left to do.
LEMMA CommitReports ==
  ASSUME OnlyFailures, Inv, Reporting, NEW r \in Requests, Commit(r)
  PROVE  \E S \in SUBSET Entities, class \in EventClasses :
           Health' = [x \in Entities |-> IF x \in S THEN Timeless(Failure(Health[x], class))
                                                    ELSE Health[x]]
<1>1. PICK x \in Entities :
        x \in Pending(r) /\ row' = [y \in Entities |-> Perform(todo[r][y], row[y])]
  BY DEF Commit, IsNext
<1>2. PICK class \in EventClasses : \A y \in Entities : todo[r][y] \in Reports(class)
  BY <1>1 DEF Reporting, Pending, Idle
<1>3. class \in FailureClasses
  BY OnlyFailureClasses
<1>4. ASSUME NEW y \in Entities
      PROVE  Timeless(row'[y]) = IF y \in Pending(r) THEN Timeless(Failure(Timeless(row[y]), class))
                                                     ELSE Timeless(row[y])
  <2>1. row[y] \in SoundRows /\ row'[y] = Perform(todo[r][y], row[y])
    BY <1>1 DEF Inv
  <2>2. y \in Pending(r) => Timeless(row'[y]) = Timeless(Failure(Timeless(row[y]), class))
    BY <1>2, <1>3, <2>1, PerformIsFailure DEF Pending
  <2>3. y \notin Pending(r) => row'[y] = row[y]
    BY <2>1 DEF Pending, Perform, Nothing, Task
  <2> QED BY <2>2, <2>3
<1>5. Pending(r) \in SUBSET Entities
  BY DEF Pending
<1> HIDE DEF Timeless
<1> QED BY <1>4, <1>5 DEF Health

\* Without an answered probe a pass that commits only doubts accounts.
LEMMA FinishDoubts ==
  ASSUME OnlyFailures, Inv, Scanned, FinishPass
  PROVE  \E S \in SUBSET Accounts :
           Health' = [x \in Entities |-> IF x \in S THEN Move(Move(Health[x], "probe"), "degraded")
                                                    ELSE Health[x]]
<1>1. \A D : D # {} => [D -> ProbeOutcomes] = {}
  BY DEF OnlyFailures
<1>2. ProbeAccounts
  BY <1>1 DEF FinishPass, ProbeEndpoints
<1>3. PICK picked \in Picks(row, pass.due) :
        \E answer \in [picked -> ProbeOutcomes] : row' = Judge(row, pass.due, picked, answer)
  BY <1>2 DEF ProbeAccounts
<1>4. picked = {}
  BY <1>1, <1>3
<1>5. ASSUME NEW x \in Entities
      PROVE  row'[x] = IF x \in pass.due THEN Move(Move(row[x], "probe"), "degraded") ELSE row[x]
  BY <1>3, <1>4 DEF Judge, ProbeAll
<1>6. ASSUME NEW x \in Entities
      PROVE  Timeless(row'[x]) = IF x \in pass.due
                                 THEN Move(Move(Timeless(row[x]), "probe"), "degraded")
                                 ELSE Timeless(row[x])
  <2>1. row[x] \in Rows \cup {NoRow}
    BY SoundRowsTyped DEF Inv
  <2> QED BY <1>5, <2>1, TimelessDoubt
<1>7. pass.due \in SUBSET Accounts
  BY <1>2 DEF ProbeAccounts, Scanned
<1> HIDE DEF Timeless
<1> QED BY <1>6, <1>7 DEF Health

\* A write to one row commutes with forgetting the timers.
LEMMA OneRow ==
  ASSUME Inv, NEW x \in Entities, NEW w, row' = [row EXCEPT ![x] = w]
  PROVE  Health' = [Health EXCEPT ![x] = Timeless(w)]
BY DEF Inv, Health, Timeless

\* An operator's change is the same step of HealthSerial.
LEMMA OperatorSteps ==
  ASSUME Inv, Operator
  PROVE  Serial!Next
<1> USE DEF Inv
<1>0. /\ Accounts \subseteq Entities /\ Endpoints \subseteq Entities
      /\ \A x \in Entities : Health[x] = Timeless(row[x]) /\ (Present(Health[x]) <=> Present(row[x]))
  BY TimelessRows, SoundRowsTyped DEF Entities, Health
<1>1. \A s, o : Timeless(NewRow(s, o)) = NewRow(s, o)
  BY DEF Timeless, NewRow
<1>2. ASSUME NEW a \in Accounts, NEW s \in AccountRequests, SetAccountStatus(a, s)
      PROVE  Serial!Next
  <2>1. row[a] \in Rows /\ s \in Statuses
    BY <1>0, <1>2, PresentRows, SoundRowsTyped, EnvironmentAssumption DEF SetAccountStatus, Statuses
  <2>2. Timeless(SetStatus(row[a], s)) = SetStatus(Health[a], s)
    BY <1>0, <2>1, TimelessSetStatus
  <2>3. Health' = [Health EXCEPT ![a] = SetStatus(Health[a], s)]
    BY <1>0, <1>2, <2>2, OneRow DEF SetAccountStatus
  <2>4. Present(Health[a])
    BY <1>0, <1>2 DEF SetAccountStatus
  <2>5. Serial!Set(a, s)
    BY <2>3, <2>4, SharedRows DEF Serial!Set, Health, Timeless
  <2> QED BY <2>5 DEF Serial!Next
<1>3. ASSUME NEW a \in Accounts, NEW s \in NewAccounts, CreateAccount(a, s)
      PROVE  Serial!Next
  <2>1. Health' = [Health EXCEPT ![a] = NewRow(s, "none")]
    <3>1. a \in Entities /\ row' = [row EXCEPT ![a] = NewRow(s, "none")]
      BY <1>0, <1>3 DEF CreateAccount
    <3>2. Health' = [Health EXCEPT ![a] = Timeless(NewRow(s, "none"))]
      BY <3>1, OneRow
    <3> QED BY <1>1, <3>2
  <2>2. ~Present(Health[a]) /\ a \notin Endpoints
    BY <1>0, <1>3, EntitiesAssumption DEF CreateAccount
  <2>3. Serial!Register(a, Serial!NewRow(s, "none"))
    BY <2>1, <2>2, SharedRows DEF Serial!Register, Health, Timeless
  <2> QED BY <2>3 DEF Serial!Next
<1>4. ASSUME NEW e \in Endpoints, NEW new \in NewEndpoints, CreateEndpoint(e, new)
      PROVE  Serial!Next
  <2>1. Health' = [Health EXCEPT ![e] = NewRow(new.status, new.override)]
    <3>1. e \in Entities /\ row' = [row EXCEPT ![e] = NewRow(new.status, new.override)]
      BY <1>0, <1>4 DEF CreateEndpoint
    <3>2. Health' = [Health EXCEPT ![e] = Timeless(NewRow(new.status, new.override))]
      BY <3>1, OneRow
    <3> QED BY <1>1, <3>2
  <2>2. ~Present(Health[e]) /\ Present(Health[AccountOf[e]])
    BY <1>0, <1>4, EntitiesAssumption DEF CreateEndpoint
  <2>3. Serial!Register(e, Serial!NewRow(new.status, new.override))
    BY <2>1, <2>2, SharedRows DEF Serial!Register, Health, Timeless
  <2> QED BY <2>3 DEF Serial!Next
<1>5. ASSUME NEW x \in Deletable, Delete(x)
      PROVE  Serial!Next
  <2>0. x \in Entities
    BY EnvironmentAssumption
  <2>1. Health' = [Health EXCEPT ![x] = NoRow]
    BY <1>1, <1>5, <2>0, OneRow DEF Delete, NoRow
  <2>2. Present(Health[x]) /\ \A e \in Endpoints : Present(Health[e]) => AccountOf[e] # x
    BY <1>0, <1>5, <2>0 DEF Delete
  <2>3. Serial!Remove(x)
    BY <2>1, <2>2, SharedRows DEF Serial!Remove, Health, Timeless
  <2> QED BY <2>0, <2>3 DEF Serial!Next, Entities
<1> QED BY <1>2, <1>3, <1>4, <1>5 DEF Operator

\* Every step is a step of HealthSerial, or invisible there.
LEMMA SerialSteps ==
  ASSUME OnlyFailures, Inv, Scanned, Reporting, [Next]_vars
  PROVE  Serial!Next \/ UNCHANGED Health
<1>1. ASSUME NEW r \in Requests, Commit(r)
      PROVE  Serial!Next
  <2>1. PICK S \in SUBSET Entities, class \in EventClasses :
          Health' = [x \in Entities |-> IF x \in S THEN Timeless(Failure(Health[x], class))
                                                   ELSE Health[x]]
    BY <1>1, CommitReports
  <2>2. Serial!Report(S, class)
    BY <2>1, SharedRows DEF Serial!Report, Health, Timeless, Entities
  <2> QED BY <2>2 DEF Serial!Next, Entities
<1>2. ASSUME FinishPass
      PROVE  Serial!Next
  <2>1. PICK S \in SUBSET Accounts :
          Health' = [x \in Entities |-> IF x \in S THEN Move(Move(Health[x], "probe"), "degraded")
                                                   ELSE Health[x]]
    BY <1>2, FinishDoubts
  <2>2. Serial!Doubt(S)
    BY <2>1, SharedRows DEF Serial!Doubt, Health, Timeless, Entities
  <2> QED BY <2>2 DEF Serial!Next
<1>3. CASE Tick
  <2>1. \A x \in Entities : row[x] \in Rows \cup {NoRow} /\ row'[x] = Elapse(row[x])
    BY <1>3, SoundRowsTyped DEF Tick, Inv
  <2>2. \A x \in Entities : Timeless(row'[x]) = Timeless(row[x])
    BY <2>1, TimelessElapse
  <2> HIDE DEF Timeless
  <2> QED BY <2>2 DEF Health
<1>4. ASSUME NEW r \in Requests, Callback(r) \/ Request(r) \/ Peek(r) \/ Abort(r)
      PROVE  UNCHANGED Health
  BY <1>4 DEF Callback, Receive, Request, RequestEndpoint, Peek, Abort, Health
<1>5. CASE Pass /\ ~FinishPass
  BY <1>5 DEF Pass, ScanEndpoints, SkipEndpoint, ScanAccounts, AbandonPass, Health
<1>6. CASE UNCHANGED vars
  BY <1>6 DEF vars, Health
<1> QED BY <1>1, <1>2, <1>3, <1>4, <1>5, <1>6, OperatorSteps DEF Next

-----------------------------------------------------------------------------
\* However many requests read before any of them writes, and whatever operators
\* and unanswered passes commit in between: the committed rows, cooldown times
\* aside, are those of handlers that ran one after the other.
THEOREM FailuresAreSerial == OnlyFailures /\ Spec => FailuresSerialize
<1>1. Init => Reporting /\ Serial!Init
  <2> SUFFICES ASSUME Init PROVE Reporting /\ Serial!Init
    OBVIOUS
  <2>1. Health = [x \in Entities |-> NewRow("active", "none")]
    BY DEF Init, Health, Timeless, NewRow
  <2> QED BY <2>1, SharedRows DEF Init, Reporting, Serial!Init, Health, Timeless, Entities
<1>2. OnlyFailures /\ Inv /\ Scanned /\ Reporting /\ [Next]_vars => Reporting'
  BY ReportingNext
<1>3. OnlyFailures /\ Inv /\ Scanned /\ Reporting /\ [Next]_vars
        => [Serial!Next]_[x \in Entities |-> [row[x] EXCEPT !.timer = NoTimer]]
  BY SerialSteps DEF Health, Timeless
<1>4. OnlyFailures => OnlyFailures'
  BY DEF OnlyFailures
<1> QED BY <1>1, <1>2, <1>3, <1>4, StructureHolds, PTL DEF Spec, FailuresSerialize, Serial!Spec
==============================================================================
