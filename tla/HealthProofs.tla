----------------------------- MODULE HealthProofs -----------------------------
(***************************************************************************)
(* What HealthControl guarantees for every set of endpoints, accounts and   *)
(* requests, every threshold and cooldown, and every environment.           *)
(*                                                                         *)
(* The invariant is stated row by row: a sound row has its type and, if it  *)
(* is active, no cooldown and few failures.  Every operator of HealthRow    *)
(* maps sound rows to sound rows; so does every task, as long as tasks have *)
(* their type; so does every action.                                        *)
(***************************************************************************)
EXTENDS HealthControl, TLAPS

SoundRows ==
  {w \in Rows \cup {NoRow} :
     w.status = "active" => w.timer = NoTimer /\ w.fails < FailureThreshold}

Inv ==
  /\ row \in [Entities -> SoundRows]
  /\ todo \in [Requests -> [Entities -> Tasks]]
  /\ pass \in [stage : {"asleep", "endpoints", "accounts"}, due : SUBSET Entities]

-----------------------------------------------------------------------------
(* Rows *)

\* A row that is present has its columns' types.
LEMMA PresentRows ==
  ASSUME NEW w \in Rows \cup {NoRow}, Present(w)
  PROVE  w \in Rows
BY DEF Present, NoRow, NewRow

\* A missing row is NoRow, and it is sound.
LEMMA MissingRows ==
  /\ NoRow \in SoundRows
  /\ \A w \in Rows \cup {NoRow} : ~Present(w) => w = NoRow
BY ThresholdAssumption DEF Present, NoRow, NewRow, SoundRows, Rows, Statuses

\* A created row is sound whatever its status and override.
LEMMA NewRowSound ==
  ASSUME NEW s \in Statuses, NEW o \in Overrides
  PROVE  NewRow(s, o) \in SoundRows
BY ThresholdAssumption DEF NewRow, SoundRows, Rows, Timers

\* update_*_status leaves a sound row, even if the row was not.
LEMMA SetStatusSound ==
  ASSUME NEW w \in Rows, NEW s \in Statuses
  PROVE  SetStatus(w, s) \in SoundRows
<1>1. CASE s = "active"
  <2>1. SetStatus(w, s) \in Rows
    <3>1. 0 \in 0..FailureThreshold /\ NoTimer \in Timers
      BY ThresholdAssumption DEF Timers
    <3> QED BY <1>1, <3>1 DEF SetStatus, Rows
  <2>2. SetStatus(w, s).timer = NoTimer /\ SetStatus(w, s).fails = 0
    BY <1>1 DEF SetStatus, Rows
  <2> QED BY <2>1, <2>2, ThresholdAssumption DEF SoundRows
<1>2. CASE s # "active"
  <2>1. SetStatus(w, s) \in Rows /\ SetStatus(w, s).status = s
    BY <1>2 DEF SetStatus, Rows
  <2> QED BY <1>2, <2>1 DEF SoundRows
<1> QED BY <1>1, <1>2

\* So does a transition once its check has passed.
LEMMA EnterSound ==
  ASSUME NEW w \in Rows \cup {NoRow}, NEW s \in Statuses
  PROVE  Enter(w, s) \in SoundRows
<1>1. CASE ~Present(w)
  BY <1>1, MissingRows DEF Enter
<1>2. CASE Present(w)
  <2>1. w \in Rows
    BY <1>2, PresentRows
  <2>2. SetCooldown(w) \in SoundRows
    <3>1. SetCooldown(w) \in Rows /\ SetCooldown(w).status = "cooldown"
      <4>1. CooldownTicks \in Timers /\ "cooldown" \in Statuses
        BY CooldownAssumption DEF Timers, Statuses
      <4> QED BY <2>1, <4>1 DEF SetCooldown, Rows
    <3> QED BY <3>1 DEF SoundRows
  <2> QED BY <1>2, <2>1, <2>2, SetStatusSound DEF Enter
<1> QED BY <1>1, <1>2

\* A transition keeps a row sound; it makes one sound unless it has the status.
LEMMA MoveSound ==
  ASSUME NEW w \in Rows \cup {NoRow}, NEW s \in Statuses,
         w \in SoundRows \/ w.status # s
  PROVE  Move(w, s) \in SoundRows
BY EnterSound DEF Move

LEMMA SoundRowsTyped == SoundRows \subseteq Rows \cup {NoRow}
BY DEF SoundRows

LEMMA AddFailureTyped ==
  ASSUME NEW w \in Rows
  PROVE  /\ AddFailure(w) \in Rows
         /\ AddFailure(w).status = w.status /\ AddFailure(w).timer = w.timer
         /\ AddFailure(w).fails \in Nat
BY ThresholdAssumption DEF AddFailure, Rows

LEMMA CountFailureSound ==
  ASSUME NEW w \in SoundRows
  PROVE  CountFailure(w) \in SoundRows
<1> w \in Rows \cup {NoRow}
  BY SoundRowsTyped
<1>1. CASE ~Present(w)
  BY <1>1 DEF CountFailure
<1>2. CASE Present(w)
  <2> DEFINE v == AddFailure(w)
  <2>1. w \in Rows
    BY <1>2, PresentRows
  <2>2. v \in Rows /\ v.status = w.status /\ v.timer = w.timer /\ v.fails \in Nat
    BY <2>1, AddFailureTyped
  <2>3. CASE v.fails >= FailureThreshold
    <3>1. v \in SoundRows \/ v.status # "degraded"
      BY <2>2 DEF SoundRows
    <3>2. Move(v, "degraded") \in SoundRows
      BY <2>2, <3>1, MoveSound DEF Statuses
    <3> QED BY <1>2, <2>3, <3>2 DEF CountFailure
  <2>4. CASE ~(v.fails >= FailureThreshold)
    <3>1. v \in SoundRows
      BY <2>2, <2>4, ThresholdAssumption DEF SoundRows
    <3> QED BY <1>2, <2>4, <3>1 DEF CountFailure
  <2> QED BY <2>3, <2>4
<1> QED BY <1>1, <1>2

LEMMA FailureSound ==
  ASSUME NEW w \in SoundRows, NEW class \in FailureClasses
  PROVE  Failure(w, class) \in SoundRows
BY MoveSound, CountFailureSound, SoundRowsTyped DEF Failure, FailureClasses, Statuses

LEMMA ClearFailuresSound ==
  ASSUME NEW w \in SoundRows, Present(w)
  PROVE  ClearFailures(w) \in SoundRows
<1>1. w \in Rows
  BY PresentRows, SoundRowsTyped
<1> QED BY <1>1, ThresholdAssumption DEF ClearFailures, SoundRows, Rows

LEMMA SuccessSound ==
  ASSUME NEW w \in SoundRows
  PROVE  Success(w) \in SoundRows
<1>1. Move(w, "active") \in SoundRows
  BY MoveSound, SoundRowsTyped DEF Statuses
<1>2. w.status = "active" => ClearFailures(w) \in SoundRows
  BY ClearFailuresSound DEF Present
<1> QED BY <1>1, <1>2 DEF Success

LEMMA ProbeSound ==
  ASSUME NEW w \in SoundRows, NEW outcome \in Outcomes
  PROVE  Probe(w, outcome) \in SoundRows
<1>1. Move(w, "probe") \in SoundRows
  BY MoveSound, SoundRowsTyped DEF Statuses
<1>2. Move(Move(w, "probe"), "recovered") \in SoundRows
  BY <1>1, MoveSound, SoundRowsTyped DEF Statuses
<1>3. Success(Move(Move(w, "probe"), "recovered")) \in SoundRows
  BY <1>2, SuccessSound
<1>4. Failure(w, "auth") \in SoundRows
  BY FailureSound DEF FailureClasses
<1>5. outcome \in FailureClasses => Failure(Move(w, "probe"), outcome) \in SoundRows
  BY <1>1, FailureSound
<1> QED BY <1>3, <1>4, <1>5 DEF Probe, Outcomes

LEMMA ElapseSound ==
  ASSUME NEW w \in SoundRows
  PROVE  Elapse(w) \in SoundRows
<1>1. CASE w = NoRow
  BY <1>1, MissingRows DEF Elapse, NoRow, NewRow
<1>2. CASE w \in Rows
  BY <1>2, CooldownAssumption, NoTimerAssumption DEF Elapse, SoundRows, Rows, Timers
<1> QED BY <1>1, <1>2, SoundRowsTyped

-----------------------------------------------------------------------------
(* Tasks *)

LEMMA NothingTyped == Nothing \in Tasks /\ Idle \in [Entities -> Tasks]
BY DEF Nothing, Task, Tasks, Idle

LEMMA HandlerTyped ==
  ASSUME NEW class \in EventClasses
  PROVE  Handler(class) \in Tasks
<1>1. class \in {"auth", "rate", "other", "success"}
  BY EnvironmentAssumption DEF FailureClasses
<1> QED BY <1>1 DEF Handler, Task, Tasks, Statuses

\* What a handler decides is a task again, with the status it read or wanted.
LEMMA ResolveTyped ==
  ASSUME NEW w \in Rows \cup {NoRow}, NEW task \in Tasks, task.do \in ReadKinds
  PROVE  Resolve(task, w) \in Tasks
<1>1. CASE ~Present(w)
  BY <1>1, NothingTyped DEF Resolve
<1>2. CASE Present(w)
  <2>1. w.status \in Statuses /\ w.override \in Overrides
    BY <1>2, PresentRows DEF Rows
  <2>2. CASE task.do = "move"
    <3>1. task.status \in Statuses
      BY <2>2 DEF Tasks
    <3>2. Task("put", task.status, Unset) \in Tasks
      BY <3>1 DEF Task, Tasks
    <3> QED BY <1>2, <2>2, <3>2, NothingTyped DEF Resolve
  <2>3. CASE task.do = "success"
    <3>1. Task("move", "active", Unset) \in Tasks /\ Task("clear", Unset, Unset) \in Tasks
      BY DEF Task, Tasks, Statuses
    <3> QED BY <1>2, <2>3, <3>1, NothingTyped DEF Resolve
  <2>4. CASE task.do = "request"
    <3>1. /\ task.status = Unset \/ task.status \in Statuses
          /\ task.override = Unset \/ task.override \in Overrides
      BY <2>4 DEF Tasks
    <3> DEFINE s == IF task.status = Unset THEN w.status ELSE task.status
               o == IF task.override = Unset THEN w.override ELSE task.override
    <3>2. s \in Statuses /\ o \in Overrides
      BY <2>1, <3>1
    <3>3. Task("store", s, o) \in Tasks
      BY <3>2 DEF Task, Tasks
    <3>4. Resolve(task, w) = Task("store", s, o)
      BY <1>2, <2>4 DEF Resolve
    <3> QED BY <3>3, <3>4
  <2> QED BY <2>2, <2>3, <2>4 DEF ReadKinds
<1> QED BY <1>1, <1>2

\* No task makes a sound row unsound, even one decided from a row long gone.
LEMMA PerformSound ==
  ASSUME NEW w \in SoundRows, NEW task \in Tasks
  PROVE  Perform(task, w) \in SoundRows
<1>1. CASE ~Present(w)
  BY <1>1 DEF Perform
<1>2. CASE Present(w)
  <2>0. w \in Rows
    BY <1>2, PresentRows, SoundRowsTyped
  <2>1. CASE task.do \in {"put", "move"}
    <3>1. task.status \in Statuses
      BY <2>1 DEF Tasks
    <3>2. Enter(w, task.status) \in SoundRows /\ Move(w, task.status) \in SoundRows
      BY <2>0, <3>1, EnterSound, MoveSound
    <3> QED BY <1>2, <2>1, <3>2 DEF Perform
  <2>2. CASE task.do = "store"
    <3>1. task.status \in Statuses /\ task.override \in Overrides
      BY <2>2 DEF Tasks
    <3> DEFINE v == SetStatus(w, task.status)
    <3>2. v \in SoundRows
      BY <2>0, <3>1, SetStatusSound
    <3>3. v \in Rows
      BY <2>0, <3>1, <3>2, SoundRowsTyped, MissingRows DEF SetStatus, NoRow, NewRow, Rows, Statuses
    <3>4. [v EXCEPT !.override = task.override] \in Rows
      BY <3>1, <3>3 DEF Rows
    <3>5. [v EXCEPT !.override = task.override] \in SoundRows
      BY <3>2, <3>3, <3>4 DEF SoundRows, Rows
    <3> QED BY <1>2, <2>2, <3>5 DEF Perform
  <2>3. CASE task.do \in {"clear", "count", "success"}
    BY <1>2, <2>3, ClearFailuresSound, CountFailureSound, SuccessSound DEF Perform
  <2>4. CASE task.do \in {"nothing", "request"}
    BY <1>2, <2>4 DEF Perform
  <2>5. task.do \in {"put", "move", "store", "clear", "count", "success", "nothing", "request"}
    BY DEF Tasks
  <2> QED BY <2>1, <2>2, <2>3, <2>4, <2>5
<1> QED BY <1>1, <1>2

-----------------------------------------------------------------------------
(* The pass *)

LEMMA ProbeAllSound ==
  ASSUME NEW rows \in [Entities -> SoundRows], NEW due,
         NEW answer \in [due -> ProbeOutcomes]
  PROVE  ProbeAll(rows, due, answer) \in [Entities -> SoundRows]
<1>1. ASSUME NEW x \in Entities, x \in due
      PROVE  Probe(rows[x], answer[x]) \in SoundRows
  BY <1>1, ProbeSound, EnvironmentAssumption
<1> QED BY <1>1 DEF ProbeAll

LEMMA JudgeSound ==
  ASSUME NEW rows \in [Entities -> SoundRows], NEW due, NEW picked,
         NEW answer \in [picked -> ProbeOutcomes]
  PROVE  Judge(rows, due, picked, answer) \in [Entities -> SoundRows]
<1> DEFINE probed == ProbeAll(rows, picked, answer)
           passed == {AccountOf[e] : e \in {f \in picked : answer[f] = "ok"}}
           verdict(x) == IF x \in passed THEN "active" ELSE "degraded"
<1>1. probed \in [Entities -> SoundRows]
  BY ProbeAllSound
<1>2. ASSUME NEW x \in Entities
      PROVE  Move(Move(rows[x], "probe"), verdict(x)) \in SoundRows
  <2>1. Move(rows[x], "probe") \in SoundRows
    BY MoveSound, SoundRowsTyped DEF Statuses
  <2>2. verdict(x) \in Statuses
    BY DEF Statuses
  <2> HIDE DEF verdict
  <2> QED BY <2>1, <2>2, MoveSound, SoundRowsTyped
<1> HIDE DEF probed
<1>3. Judge(rows, due, picked, answer)
        = [x \in Entities |-> IF x \in due THEN Move(Move(rows[x], "probe"), verdict(x))
                                           ELSE probed[x]]
  BY DEF Judge, probed
<1> HIDE DEF verdict
<1> QED BY <1>1, <1>2, <1>3

-----------------------------------------------------------------------------
(* The invariant *)

LEMMA InitInv == Init => Inv
<1> SUFFICES ASSUME Init PROVE Inv
  OBVIOUS
<1>1. NewRow("active", "none") \in SoundRows
  BY NewRowSound DEF Statuses, Overrides
<1>2. Asleep \in [stage : {"asleep", "endpoints", "accounts"}, due : SUBSET Entities]
  BY DEF Asleep
<1> QED BY <1>1, <1>2, NothingTyped DEF Init, Inv

LEMMA NextInv == Inv /\ [Next]_vars => Inv'
<1> SUFFICES ASSUME Inv, [Next]_vars PROVE Inv'
  OBVIOUS
<1> USE DEF Inv
<1> Asleep \in [stage : {"asleep", "endpoints", "accounts"}, due : SUBSET Entities]
  BY DEF Asleep
<1>1. CASE UNCHANGED vars
  BY <1>1 DEF vars
<1>2. ASSUME NEW r \in Requests, Callback(r)
      PROVE  Inv'
  <2>1. PICK label \in EventLabels, class \in EventClasses : Receive(r, label, class)
    BY <1>2 DEF Callback
  <2>2. Handler(class) \in Tasks /\ Nothing \in Tasks
    BY HandlerTyped, NothingTyped
  <2> QED BY <2>1, <2>2 DEF Receive
<1>3. ASSUME NEW r \in Requests, Request(r)
      PROVE  Inv'
  <2>1. PICK e \in Endpoints, body \in EndpointRequests : RequestEndpoint(r, e, body)
    BY <1>3 DEF Request
  <2>2. /\ body.status \in {Unset} \cup Statuses
        /\ body.override \in {Unset} \cup Overrides
    BY EnvironmentAssumption DEF Statuses
  <2>3. Task("request", body.status, body.override) \in Tasks
    BY <2>2 DEF Task, Tasks
  <2> QED BY <2>1, <2>3 DEF RequestEndpoint, Entities
<1>4. ASSUME NEW r \in Requests, Peek(r)
      PROVE  Inv'
  <2>1. PICK x \in Entities : /\ todo[r][x].do \in ReadKinds
                             /\ todo' = [todo EXCEPT ![r][x] = Resolve(@, row[x])]
                             /\ UNCHANGED <<row, pass>>
    BY <1>4 DEF Peek
  <2>2. Resolve(todo[r][x], row[x]) \in Tasks
    BY <2>1, ResolveTyped, SoundRowsTyped
  <2> QED BY <2>1, <2>2
<1>5. ASSUME NEW r \in Requests, Commit(r)
      PROVE  Inv'
  <2>1. /\ row' = [y \in Entities |-> Perform(todo[r][y], row[y])]
        /\ todo' = [todo EXCEPT ![r] = Idle]
        /\ UNCHANGED pass
    BY <1>5 DEF Commit
  <2>2. \A y \in Entities : Perform(todo[r][y], row[y]) \in SoundRows
    BY PerformSound
  <2> QED BY <2>1, <2>2, NothingTyped
<1>6. ASSUME NEW r \in Requests, Abort(r)
      PROVE  Inv'
  BY <1>6, NothingTyped DEF Abort
<1>7. CASE Operator
  <2>1. ASSUME NEW a \in Accounts, NEW s \in AccountRequests, SetAccountStatus(a, s)
        PROVE  Inv'
    <3>1. a \in Entities /\ s \in Statuses
      BY EnvironmentAssumption DEF Entities, Statuses
    <3>2. row[a] \in Rows
      BY <2>1, <3>1, PresentRows, SoundRowsTyped DEF SetAccountStatus
    <3>3. SetStatus(row[a], s) \in SoundRows
      BY <3>1, <3>2, SetStatusSound
    <3> QED BY <2>1, <3>1, <3>3 DEF SetAccountStatus
  <2>2. ASSUME NEW a \in Accounts, NEW s \in NewAccounts, CreateAccount(a, s)
        PROVE  Inv'
    <3>1. NewRow(s, "none") \in SoundRows
      BY NewRowSound, EnvironmentAssumption DEF Overrides
    <3> QED BY <2>2, <3>1 DEF CreateAccount
  <2>3. ASSUME NEW e \in Endpoints, NEW new \in NewEndpoints, CreateEndpoint(e, new)
        PROVE  Inv'
    <3>1. new.status \in Statuses /\ new.override \in Overrides
      BY EnvironmentAssumption
    <3>2. NewRow(new.status, new.override) \in SoundRows
      BY <3>1, NewRowSound
    <3> QED BY <2>3, <3>2 DEF CreateEndpoint
  <2>4. ASSUME NEW x \in Deletable, Delete(x)
        PROVE  Inv'
    BY <2>4, MissingRows DEF Delete
  <2> QED BY <1>7, <2>1, <2>2, <2>3, <2>4 DEF Operator
<1>8. CASE Pass
  <2>1. CASE ScanEndpoints
    BY <2>1 DEF ScanEndpoints, ExpiredIn, Entities
  <2>2. ASSUME NEW e \in Endpoints, NEW outcome \in ProbeOutcomes, SkipEndpoint(e, outcome)
        PROVE  Inv'
    BY <2>2 DEF SkipEndpoint
  <2>3. CASE ScanAccounts
    BY <2>3 DEF ScanAccounts, ExpiredIn, Entities
  <2>4. CASE ProbeEndpoints
    <3>1. PICK answer \in [pass.due -> ProbeOutcomes] :
            \E picked \in Picks(ProbeAll(row, pass.due, answer),
                                ExpiredIn(ProbeAll(row, pass.due, answer), Accounts)) :
              \E again \in [picked -> ProbeOutcomes] :
                row' = Judge(ProbeAll(row, pass.due, answer),
                             ExpiredIn(ProbeAll(row, pass.due, answer), Accounts),
                             picked, again)
      BY <2>4 DEF ProbeEndpoints
    <3> DEFINE probed == ProbeAll(row, pass.due, answer)
               due    == ExpiredIn(probed, Accounts)
    <3>2. PICK picked \in Picks(probed, due) :
            \E again \in [picked -> ProbeOutcomes] : row' = Judge(probed, due, picked, again)
      BY <3>1
    <3>3. probed \in [Entities -> SoundRows]
      BY ProbeAllSound
    <3> HIDE DEF probed, due
    <3>4. row' \in [Entities -> SoundRows]
      BY <3>2, <3>3, JudgeSound
    <3> QED BY <2>4, <3>4 DEF ProbeEndpoints
  <2>5. CASE ProbeAccounts
    <3>1. PICK picked \in Picks(row, pass.due) :
            \E answer \in [picked -> ProbeOutcomes] : row' = Judge(row, pass.due, picked, answer)
      BY <2>5 DEF ProbeAccounts
    <3>2. row' \in [Entities -> SoundRows]
      BY <3>1, JudgeSound
    <3> QED BY <2>5, <3>2 DEF ProbeAccounts
  <2>6. CASE AbandonPass
    BY <2>6 DEF AbandonPass
  <2> QED BY <1>8, <2>1, <2>2, <2>3, <2>4, <2>5, <2>6 DEF Pass, FinishPass
<1>9. CASE Tick
  <2>1. \A x \in Entities : Elapse(row[x]) \in SoundRows
    BY ElapseSound
  <2> QED BY <1>9, <2>1 DEF Tick
<1> QED BY <1>1, <1>2, <1>3, <1>4, <1>5, <1>6, <1>7, <1>8, <1>9 DEF Next

LEMMA InvHolds == Spec => []Inv
<1> QED BY InitInv, NextInv, PTL DEF Spec

\* Every variable keeps its type.
THEOREM TypeCorrect == Spec => []TypeOK
<1>1. Inv => TypeOK
  BY SoundRowsTyped DEF Inv, TypeOK
<1> QED BY <1>1, InvHolds, PTL

\* Whatever was read before, whatever else was committed in between: an active
\* account or endpoint has no cooldown and is short of the failure threshold.
THEOREM ActiveRowsAreClean == Spec => []ActiveIsClean
<1>1. Inv => ActiveIsClean
  BY DEF Inv, ActiveIsClean, SoundRows
<1> QED BY <1>1, InvHolds, PTL
==============================================================================
