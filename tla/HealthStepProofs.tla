--------------------------- MODULE HealthStepProofs ----------------------------
(***************************************************************************)
(* What a step of HealthControl may do to a row, what no commit shows, how a *)
(* barred endpoint comes back, and on what the readers of the columns agree. *)
(* HealthProofs gives the rows their type; here every operator is followed   *)
(* by what it keeps of a row (whether it is there, its override) and by the  *)
(* status it leaves behind.                                                  *)
(***************************************************************************)
EXTENDS HealthProofs, HealthRouting

\* v has come of w without an operator.
Kept(w, v) == (Present(v) <=> Present(w)) /\ v.override = w.override

\* Statuses that nothing leaves behind where they were not.
Passing == {"recovered", "inactive"}

-----------------------------------------------------------------------------
(* What the operators keep of a row, and the status they leave *)

\* SQL UPDATEs of a status: all but the other columns stay.
LEMMA SetStatusKeeps ==
  ASSUME NEW w \in Rows, NEW s \in Statuses
  PROVE  /\ SetStatus(w, s).status = s /\ SetStatus(w, s).override = w.override
         /\ SetCooldown(w).status = "cooldown" /\ SetCooldown(w).override = w.override
BY DEF SetStatus, SetCooldown, Rows

LEMMA RowsPresent ==
  /\ \A w \in Rows : Present(w)
  /\ \A s \in Statuses : s # "absent"
BY DEF Rows, Present, Statuses

LEMMA EnterKeeps ==
  ASSUME NEW w \in Rows \cup {NoRow}, NEW s \in Statuses
  PROVE  /\ Kept(w, Enter(w, s))
         /\ Present(w) => Enter(w, s).status = s
<1>1. CASE ~Present(w)
  BY <1>1 DEF Enter, Kept
<1>2. CASE Present(w)
  <2>1. w \in Rows
    BY <1>2, PresentRows
  <2> QED BY <1>2, <2>1, SetStatusKeeps, RowsPresent DEF Enter, Kept, Present
<1> QED BY <1>1, <1>2

LEMMA MoveKeeps ==
  ASSUME NEW w \in Rows \cup {NoRow}, NEW s \in Statuses
  PROVE  /\ Kept(w, Move(w, s))
         /\ Present(w) => Move(w, s).status = s
BY EnterKeeps DEF Move, Kept

LEMMA MoveTyped ==
  ASSUME NEW w \in SoundRows, NEW s \in Statuses
  PROVE  Move(w, s) \in SoundRows /\ Move(w, s) \in Rows \cup {NoRow}
BY MoveSound, SoundRowsTyped

LEMMA CountFailureKeeps ==
  ASSUME NEW w \in SoundRows
  PROVE  /\ Kept(w, CountFailure(w))
         /\ CountFailure(w).status \in {w.status, "degraded"}
<1>1. CASE ~Present(w)
  BY <1>1 DEF CountFailure, Kept
<1>2. CASE Present(w)
  <2> DEFINE v == AddFailure(w)
  <2>1. w \in Rows
    BY <1>2, PresentRows, SoundRowsTyped
  <2>2. v \in Rows /\ v.status = w.status /\ v.override = w.override
    BY <2>1, AddFailureTyped DEF AddFailure, Rows
  <2>3. Kept(v, Move(v, "degraded")) /\ Move(v, "degraded").status = "degraded"
    BY <2>2, MoveKeeps, RowsPresent DEF Statuses
  <2>4. CountFailure(w) \in {v, Move(v, "degraded")}
    BY <1>2 DEF CountFailure
  <2> HIDE DEF v
  <2> QED BY <2>2, <2>3, <2>4 DEF Kept, Present
<1> QED BY <1>1, <1>2

LEMMA FailureKeeps ==
  ASSUME NEW w \in SoundRows, NEW class \in FailureClasses
  PROVE  /\ Kept(w, Failure(w, class))
         /\ Failure(w, class).status \in {w.status, "disabled", "cooldown", "degraded"}
<1>1. Kept(w, Move(w, "disabled")) /\ Move(w, "disabled").status \in {w.status, "disabled"}
  BY MoveKeeps, EnterKeeps, SoundRowsTyped DEF Statuses, Move, Enter
<1>2. Kept(w, Move(w, "cooldown")) /\ Move(w, "cooldown").status \in {w.status, "cooldown"}
  BY MoveKeeps, EnterKeeps, SoundRowsTyped DEF Statuses, Move, Enter
<1> QED BY <1>1, <1>2, CountFailureKeeps DEF Failure, FailureClasses

LEMMA SuccessKeeps ==
  ASSUME NEW w \in SoundRows
  PROVE  /\ Kept(w, Success(w))
         /\ Success(w).status \in {w.status, "active"}
         /\ w.status = "recovered" => Success(w).status = "active"
<1>1. w \in Rows \cup {NoRow}
  BY SoundRowsTyped
<1>2. Kept(w, Move(w, "active")) /\ (Present(w) => Move(w, "active").status = "active")
  BY <1>1, MoveKeeps DEF Statuses
<1>3. w.status \in {"degraded", "recovered", "active"} => Present(w)
  BY DEF Present
<1>4. w.status = "active" => ClearFailures(w).status = w.status
                             /\ ClearFailures(w).override = w.override
  BY <1>1, <1>3, PresentRows DEF ClearFailures, Rows
<1> QED BY <1>2, <1>3, <1>4 DEF Success, Kept, Present

LEMMA ProbeKeeps ==
  ASSUME NEW w \in SoundRows, NEW outcome \in Outcomes
  PROVE  /\ Kept(w, Probe(w, outcome))
         /\ Present(w) /\ outcome = "ok" => Probe(w, outcome).status = "active"
         /\ \A s \in Passing : w.status # s => Probe(w, outcome).status # s
<1> DEFINE p == Move(w, "probe")
           r == Move(p, "recovered")
<1>1. p \in SoundRows /\ p \in Rows \cup {NoRow} /\ r \in SoundRows
  BY MoveTyped DEF Statuses
<1>2. Kept(w, p) /\ Kept(p, r) /\ (Present(w) => p.status = "probe")
      /\ (Present(p) => r.status = "recovered")
  BY <1>1, MoveKeeps, SoundRowsTyped DEF Statuses
<1> HIDE DEF p, r
<1>3. Kept(r, Success(r)) /\ (r.status = "recovered" => Success(r).status = "active")
      /\ Success(r).status \in {r.status, "active"}
  BY <1>1, SuccessKeeps
<1>4. /\ Kept(w, Failure(w, "auth"))
      /\ Failure(w, "auth").status \in {w.status, "disabled", "cooldown", "degraded"}
  BY FailureKeeps DEF FailureClasses
<1>5. outcome \in FailureClasses =>
        /\ Kept(p, Failure(p, outcome))
        /\ Failure(p, outcome).status \in {p.status, "disabled", "cooldown", "degraded"}
  BY <1>1, FailureKeeps
<1>6. /\ outcome = "nosecret" => Probe(w, outcome) = Failure(w, "auth")
      /\ outcome = "ok" => Probe(w, outcome) = Success(r)
      /\ outcome \in FailureClasses => Probe(w, outcome) = Failure(p, outcome)
  BY DEF Probe, p, r, FailureClasses
<1> QED BY <1>2, <1>3, <1>4, <1>5, <1>6 DEF Kept, Present, Outcomes, Passing

LEMMA ElapseKeeps ==
  ASSUME NEW w \in SoundRows
  PROVE  Kept(w, Elapse(w)) /\ Elapse(w).status = w.status
<1>1. w \in Rows \cup {NoRow}
  BY SoundRowsTyped
<1> QED BY <1>1 DEF Elapse, Kept, Present, Rows, NoRow, NewRow

\* A task keeps the row, but for the override that an operator stores; the
\* status it leaves is the row's, its own, or that of a count or a success.
LEMMA PerformKeeps ==
  ASSUME NEW w \in SoundRows, NEW task \in Tasks
  PROVE  /\ Present(Perform(task, w)) <=> Present(w)
         /\ task.do # "store" => Kept(w, Perform(task, w))
         /\ Perform(task, w).status \in {w.status, task.status, "degraded", "active"}
<1>1. CASE ~Present(w)
  BY <1>1 DEF Perform, Kept
<1>2. CASE Present(w)
  <2>0. w \in Rows
    BY <1>2, PresentRows, SoundRowsTyped
  <2>1. CASE task.do \in {"put", "move"}
    <3>1. task.status \in Statuses
      BY <2>1 DEF Tasks
    <3> QED BY <1>2, <2>0, <2>1, <3>1, EnterKeeps, MoveKeeps DEF Perform, Kept
  <2>2. CASE task.do = "store"
    <3>1. task.status \in Statuses
      BY <2>2 DEF Tasks
    <3> DEFINE v == SetStatus(w, task.status)
    <3>2. v.status = task.status /\ v \in Rows \cup {NoRow}
      BY <2>0, <3>1, SetStatusKeeps, SetStatusSound, SoundRowsTyped
    <3>3. v \in Rows
      BY <3>1, <3>2, RowsPresent DEF NoRow, NewRow
    <3>4. Perform(task, w) = [v EXCEPT !.override = task.override]
      BY <1>2, <2>2 DEF Perform
    <3> HIDE DEF v
    <3>5. Perform(task, w).status = task.status
      BY <3>2, <3>3, <3>4 DEF Rows
    <3> QED BY <1>2, <2>2, <3>1, <3>5, RowsPresent DEF Present
  <2>3. CASE task.do = "clear"
    BY <1>2, <2>0, <2>3 DEF Perform, Kept, Present, ClearFailures, Rows
  <2>4. CASE task.do \in {"count", "success"}
    BY <1>2, <2>4, CountFailureKeeps, SuccessKeeps DEF Perform, Kept
  <2>5. CASE task.do \in {"nothing", "request"}
    BY <1>2, <2>5 DEF Perform, Kept
  <2>6. task.do \in {"put", "move", "store", "clear", "count", "success", "nothing", "request"}
    BY DEF Tasks
  <2> QED BY <2>1, <2>2, <2>3, <2>4, <2>5, <2>6
<1> QED BY <1>1, <1>2

-----------------------------------------------------------------------------
(* The pass *)

LEMMA ProbeAllKeeps ==
  ASSUME NEW rows \in [Entities -> SoundRows], NEW due,
         NEW answer \in [due -> ProbeOutcomes], NEW x \in Entities
  PROVE  /\ Kept(rows[x], ProbeAll(rows, due, answer)[x])
         /\ x \notin due => ProbeAll(rows, due, answer)[x] = rows[x]
         /\ x \in due => ProbeAll(rows, due, answer)[x] = Probe(rows[x], answer[x])
         /\ \A s \in Passing : rows[x].status # s => ProbeAll(rows, due, answer)[x].status # s
<1>1. x \in due => answer[x] \in Outcomes
  BY EnvironmentAssumption
<1>2. ProbeAll(rows, due, answer)[x] = IF x \in due THEN Probe(rows[x], answer[x]) ELSE rows[x]
  BY DEF ProbeAll
<1>3. rows[x] \in SoundRows
  OBVIOUS
<1>4. Kept(rows[x], rows[x])
  BY DEF Kept
<1> QED BY <1>1, <1>2, <1>3, <1>4, ProbeKeeps DEF Passing

LEMMA PicksAreEndpoints ==
  ASSUME NEW rows, NEW due, NEW picked \in Picks(rows, due)
  PROVE  /\ picked \subseteq Endpoints
         /\ \A e \in picked : Present(rows[e])
BY DEF Picks, Probeable

\* What the second loop makes of a row.
LEMMA JudgeKeeps ==
  ASSUME NEW rows \in [Entities -> SoundRows], NEW due \in SUBSET Accounts,
         NEW picked \in Picks(rows, due), NEW answer \in [picked -> ProbeOutcomes],
         NEW x \in Entities
  PROVE  /\ Kept(rows[x], Judge(rows, due, picked, answer)[x])
         /\ \A s \in Passing : rows[x].status # s =>
              Judge(rows, due, picked, answer)[x].status # s
         /\ x \in Accounts /\ rows[x].status # "probe" =>
              Judge(rows, due, picked, answer)[x].status # "probe"
         /\ x \in picked =>
              Judge(rows, due, picked, answer)[x] = Probe(rows[x], answer[x])
         /\ x \notin picked \cup due => Judge(rows, due, picked, answer)[x] = rows[x]
         /\ x \in Accounts /\ rows[x].status # "active"
              /\ Judge(rows, due, picked, answer)[x].status = "active" =>
              \E e \in picked : answer[e] = "ok" /\ AccountOf[e] = x
<1> DEFINE probed == ProbeAll(rows, picked, answer)
           passed == {AccountOf[e] : e \in {f \in picked : answer[f] = "ok"}}
           verdict == IF x \in passed THEN "active" ELSE "degraded"
           judged == Judge(rows, due, picked, answer)
           p == Move(rows[x], "probe")
<1>1. judged[x] = IF x \in due THEN Move(p, verdict) ELSE probed[x]
  BY DEF Judge
<1>2. /\ Kept(rows[x], probed[x])
      /\ x \notin picked => probed[x] = rows[x]
      /\ x \in picked => probed[x] = Probe(rows[x], answer[x])
      /\ \A s \in Passing : rows[x].status # s => probed[x].status # s
  BY ProbeAllKeeps
<1>3. x \in picked => x \notin Accounts
  BY PicksAreEndpoints, EntitiesAssumption
<1>4. p \in SoundRows /\ Kept(rows[x], p)
  BY MoveTyped, MoveKeeps, SoundRowsTyped DEF Statuses
<1>5. verdict \in {"active", "degraded"} /\ (verdict = "active" => x \in passed)
  OBVIOUS
<1>6. x \in passed => \E e \in picked : answer[e] = "ok" /\ AccountOf[e] = x
  OBVIOUS
<1> HIDE DEF probed, passed, verdict, judged, p
<1>7. Kept(p, Move(p, verdict)) /\ (Present(p) => Move(p, verdict).status = verdict)
  BY <1>4, <1>5, MoveKeeps, SoundRowsTyped DEF Statuses
<1>8. CASE x \in due
  <2>1. judged[x] = Move(p, verdict) /\ x \notin picked /\ x \in Accounts
    BY <1>1, <1>3, <1>8
  <2>2. Kept(rows[x], judged[x])
    BY <1>4, <1>7, <2>1 DEF Kept
  <2>3. judged[x].status \in {"absent", verdict}
    BY <1>7, <2>1 DEF Kept, Present
  <2> QED BY <1>5, <1>6, <1>8, <2>1, <2>2, <2>3 DEF judged, Passing
<1>9. CASE x \notin due
  <2>1. judged[x] = probed[x]
    BY <1>1, <1>9
  <2>2. x \notin picked => judged[x] = rows[x]
    BY <1>2, <2>1
  <2> QED BY <1>2, <1>3, <1>9, <2>1, <2>2 DEF judged
<1> QED BY <1>8, <1>9

-----------------------------------------------------------------------------
(* The invariant, strengthened *)

\* The foreign key, and what the scans return.
Linked == \A e \in Endpoints : Present(row[e]) => Present(row[AccountOf[e]])

Scanned ==
  /\ pass.stage = "endpoints" => pass.due \subseteq Endpoints
  /\ pass.stage = "accounts" => pass.due \subseteq Accounts

\* The two ways a pass ends are one: rows that kept their accounts are judged.
LEMMA FinishIsJudge ==
  ASSUME Inv, Scanned, FinishPass
  PROVE  \E rows \in [Entities -> SoundRows], due \in SUBSET Accounts :
           /\ \A x \in Entities : /\ Kept(row[x], rows[x])
                                  /\ x \in Accounts => rows[x] = row[x]
                                  /\ x \notin pass.due => rows[x] = row[x]
                                  /\ \A s \in Passing : row[x].status # s => rows[x].status # s
           /\ \E picked \in Picks(rows, due) : \E answer \in [picked -> ProbeOutcomes] :
                row' = Judge(rows, due, picked, answer)
<1>1. row \in [Entities -> SoundRows] /\ \A x \in Entities : Kept(row[x], row[x])
  BY DEF Inv, Kept
<1>2. CASE ProbeAccounts
  <2>1. pass.due \in SUBSET Accounts
    BY <1>2 DEF ProbeAccounts, Scanned
  <2>2. \E picked \in Picks(row, pass.due) : \E answer \in [picked -> ProbeOutcomes] :
          row' = Judge(row, pass.due, picked, answer)
    BY <1>2 DEF ProbeAccounts
  <2> QED BY <1>1, <2>1, <2>2
<1>3. CASE ProbeEndpoints
  <2>1. PICK first \in [pass.due -> ProbeOutcomes] :
          \E picked \in Picks(ProbeAll(row, pass.due, first),
                              ExpiredIn(ProbeAll(row, pass.due, first), Accounts)) :
            \E again \in [picked -> ProbeOutcomes] :
              row' = Judge(ProbeAll(row, pass.due, first),
                           ExpiredIn(ProbeAll(row, pass.due, first), Accounts), picked, again)
    BY <1>3 DEF ProbeEndpoints
  <2> DEFINE probed == ProbeAll(row, pass.due, first)
             due == ExpiredIn(probed, Accounts)
  <2>2. probed \in [Entities -> SoundRows]
    BY <1>1, ProbeAllSound
  <2>3. due \in SUBSET Accounts
    BY DEF ExpiredIn
  <2>4. pass.due \subseteq Endpoints /\ Accounts \cap Endpoints = {}
    BY <1>3, EntitiesAssumption DEF ProbeEndpoints, Scanned
  <2>5. \A x \in Entities : /\ Kept(row[x], probed[x])
                            /\ x \in Accounts => probed[x] = row[x]
                            /\ x \notin pass.due => probed[x] = row[x]
                            /\ \A s \in Passing : row[x].status # s => probed[x].status # s
    BY <1>1, <2>4, ProbeAllKeeps
  <2>6. \E picked \in Picks(probed, due) : \E again \in [picked -> ProbeOutcomes] :
          row' = Judge(probed, due, picked, again)
    BY <2>1
  <2> HIDE DEF probed, due
  <2> QED BY <2>2, <2>3, <2>5, <2>6
<1> QED BY <1>2, <1>3 DEF FinishPass

LEMMA FinishKeeps ==
  ASSUME Inv, Scanned, FinishPass, NEW x \in Entities
  PROVE  /\ Kept(row[x], row'[x])
         /\ \A s \in Passing : row[x].status # s => row'[x].status # s
         /\ x \in Accounts /\ row[x].status # "probe" => row'[x].status # "probe"
<1>1. PICK rows \in [Entities -> SoundRows], due \in SUBSET Accounts :
        /\ \A y \in Entities : /\ Kept(row[y], rows[y])
                               /\ y \in Accounts => rows[y] = row[y]
                               /\ \A s \in Passing : row[y].status # s => rows[y].status # s
        /\ \E picked \in Picks(rows, due) : \E answer \in [picked -> ProbeOutcomes] :
             row' = Judge(rows, due, picked, answer)
  BY FinishIsJudge
<1>2. PICK picked \in Picks(rows, due) : \E answer \in [picked -> ProbeOutcomes] :
        row' = Judge(rows, due, picked, answer)
  BY <1>1
<1>3. PICK answer \in [picked -> ProbeOutcomes] : row' = Judge(rows, due, picked, answer)
  BY <1>2
<1>4. /\ Kept(rows[x], row'[x])
      /\ \A s \in Passing : rows[x].status # s => row'[x].status # s
      /\ x \in Accounts /\ rows[x].status # "probe" => row'[x].status # "probe"
  BY <1>3, JudgeKeeps
<1> QED BY <1>1, <1>4 DEF Kept

-----------------------------------------------------------------------------
(* Steps *)

Registration ==
  \/ \E a \in Accounts, s \in NewAccounts : CreateAccount(a, s)
  \/ \E e \in Endpoints, new \in NewEndpoints : CreateEndpoint(e, new)
  \/ \E x \in Deletable : Delete(x)

Stores(x) == \E r \in Requests : todo[r][x].do = "store"

\* Nothing but a registration makes or removes a row, and nothing but what an
\* operator stores changes an override.
LEMMA PlainStep ==
  ASSUME Inv, Scanned, [Next]_vars, ~Registration, NEW x \in Entities
  PROVE  /\ Present(row'[x]) <=> Present(row[x])
         /\ Kept(row[x], row'[x]) \/ Stores(x)
<1> row \in [Entities -> SoundRows] /\ row[x] \in SoundRows
  BY DEF Inv
<1>1. CASE row' = row
  BY <1>1 DEF Kept
<1>2. ASSUME NEW r \in Requests, Commit(r)
      PROVE  (Present(row'[x]) <=> Present(row[x])) /\ (Kept(row[x], row'[x]) \/ Stores(x))
  <2>1. row'[x] = Perform(todo[r][x], row[x])
    BY <1>2 DEF Commit
  <2>2. todo[r][x] \in Tasks
    BY DEF Inv
  <2> QED BY <2>1, <2>2, PerformKeeps DEF Stores
<1>3. ASSUME NEW a \in Accounts, NEW s \in AccountRequests, SetAccountStatus(a, s)
      PROVE  Kept(row[x], row'[x])
  <2>1. CASE x = a
    <3>1. row[a] \in Rows /\ s \in Statuses
      BY <1>3, <2>1, PresentRows, SoundRowsTyped, EnvironmentAssumption
         DEF SetAccountStatus, Statuses
    <3>2. row'[x] = SetStatus(row[x], s)
      BY <1>3, <2>1 DEF SetAccountStatus
    <3> QED BY <2>1, <3>1, <3>2, SetStatusKeeps, RowsPresent DEF Kept, Present
  <2>2. CASE x # a
    BY <1>3, <2>2 DEF SetAccountStatus, Kept
  <2> QED BY <2>1, <2>2
<1>4. CASE FinishPass
  BY <1>4, FinishKeeps DEF Kept
<1>5. CASE Tick
  <2>1. row'[x] = Elapse(row[x])
    BY <1>5 DEF Tick
  <2> QED BY <2>1, ElapseKeeps DEF Kept
<1>6. \/ row' = row
      \/ \E r \in Requests : Commit(r)
      \/ \E a \in Accounts, s \in AccountRequests : SetAccountStatus(a, s)
      \/ FinishPass
      \/ Tick
  BY DEF Next, vars, Callback, Receive, Request, RequestEndpoint, Peek, Abort, Operator,
         Registration, Pass, ScanEndpoints, SkipEndpoint, ScanAccounts, AbandonPass
<1>7. Kept(row[x], row'[x]) => (Present(row'[x]) <=> Present(row[x]))
  BY DEF Kept
<1> QED BY <1>1, <1>2, <1>3, <1>4, <1>5, <1>6, <1>7

\* A registration makes a fresh row where there is none, or removes one.
LEMMA RegistrationStep ==
  ASSUME Inv, Registration, NEW x \in Entities
  PROVE  /\ UNCHANGED <<todo, pass>>
         /\ \/ row'[x] = row[x]
            \/ row'[x] = NoRow /\ ~Present(NoRow)
            \/ /\ ~Present(row[x])
               /\ \E s \in Statuses, o \in Overrides : row'[x] = NewRow(s, o)
<1>1. row \in [Entities -> SoundRows]
  BY DEF Inv
<1>2. ASSUME NEW b \in Accounts, NEW s \in NewAccounts, CreateAccount(b, s)
      PROVE  \/ row'[x] = row[x]
             \/ ~Present(row[x]) /\ row'[x] = NewRow(s, "none")
  BY <1>1, <1>2 DEF CreateAccount
<1>3. ASSUME NEW f \in Endpoints, NEW new \in NewEndpoints, CreateEndpoint(f, new)
      PROVE  \/ row'[x] = row[x]
             \/ ~Present(row[x]) /\ row'[x] = NewRow(new.status, new.override)
  BY <1>1, <1>3 DEF CreateEndpoint
<1>4. ASSUME NEW y \in Deletable, Delete(y)
      PROVE  row'[x] = row[x] \/ row'[x] = NoRow
  BY <1>1, <1>4 DEF Delete
<1>5. ~Present(NoRow)
  BY DEF Present, NoRow, NewRow
<1>6. "none" \in Overrides /\ NewAccounts \subseteq Statuses
      /\ \A new \in NewEndpoints : new.status \in Statuses /\ new.override \in Overrides
  BY EnvironmentAssumption DEF Overrides
<1>7. UNCHANGED <<todo, pass>>
  BY DEF Registration, CreateAccount, CreateEndpoint, Delete
<1> QED BY <1>2, <1>3, <1>4, <1>5, <1>6, <1>7 DEF Registration

\* The scans return what they scan.
LEMMA ScannedNext ==
  ASSUME Inv, Scanned, [Next]_vars
  PROVE  Scanned'
<1>1. CASE UNCHANGED pass
  BY <1>1 DEF Scanned
<1>2. CASE pass' = Asleep
  BY <1>2 DEF Asleep, Scanned
<1>3. CASE ScanEndpoints \/ ScanAccounts
  BY <1>3 DEF ScanEndpoints, ScanAccounts, ExpiredIn, Scanned
<1>4. CASE \E e \in Endpoints, outcome \in ProbeOutcomes : SkipEndpoint(e, outcome)
  <2>1. PICK e \in Endpoints : /\ pass.stage = "endpoints"
                              /\ pass' = [pass EXCEPT !.due = @ \ {e}]
    BY <1>4 DEF SkipEndpoint
  <2>2. pass'.stage = "endpoints" /\ pass'.due = pass.due \ {e}
    BY <2>1 DEF Inv
  <2> QED BY <2>1, <2>2 DEF Scanned
<1>5. \/ UNCHANGED pass
      \/ pass' = Asleep
      \/ ScanEndpoints \/ ScanAccounts
      \/ \E e \in Endpoints, outcome \in ProbeOutcomes : SkipEndpoint(e, outcome)
  BY DEF Next, vars, Callback, Receive, Request, RequestEndpoint, Peek, Commit, Abort,
         Operator, SetAccountStatus, CreateAccount, CreateEndpoint, Delete,
         Pass, FinishPass, ProbeEndpoints, ProbeAccounts, AbandonPass, Tick
<1> QED BY <1>1, <1>2, <1>3, <1>4, <1>5

\* An endpoint's account stays as long as the endpoint.
LEMMA LinkedNext ==
  ASSUME Inv, Scanned, Linked, [Next]_vars
  PROVE  Linked'
<1> SUFFICES ASSUME NEW e \in Endpoints, Present(row'[e])
             PROVE  Present(row'[AccountOf[e]])
  BY DEF Linked
<1> DEFINE a == AccountOf[e]
<1>1. e \in Entities /\ a \in Accounts /\ a \in Entities /\ a # e
  BY EntitiesAssumption DEF Entities
<1>2. row \in [Entities -> SoundRows]
  BY DEF Inv
<1> HIDE DEF a
<1>3. CASE ~Registration
  BY <1>1, <1>3, PlainStep DEF Linked, a
<1>4. ASSUME NEW b \in Accounts, NEW s \in NewAccounts, CreateAccount(b, s)
      PROVE  Present(row'[a])
  <2>1. Present(NewRow(s, "none"))
    BY EnvironmentAssumption, RowsPresent DEF Present, NewRow, Statuses
  <2>2. row'[e] = row[e] /\ (a # b => row'[a] = row[a]) /\ (a = b => row'[a] = NewRow(s, "none"))
    BY <1>1, <1>2, <1>4, EntitiesAssumption DEF CreateAccount
  <2> QED BY <2>1, <2>2 DEF Linked, a
<1>5. ASSUME NEW f \in Endpoints, NEW new \in NewEndpoints, CreateEndpoint(f, new)
      PROVE  Present(row'[a])
  <2>1. row'[a] = row[a] /\ (e # f => row'[e] = row[e]) /\ Present(row[AccountOf[f]])
    BY <1>1, <1>2, <1>5, EntitiesAssumption DEF CreateEndpoint
  <2> QED BY <2>1 DEF Linked, a
<1>6. ASSUME NEW x \in Deletable, Delete(x)
      PROVE  Present(row'[a])
  <2>1. x \in Entities /\ row' = [row EXCEPT ![x] = NoRow]
    BY <1>6, EnvironmentAssumption DEF Delete
  <2>2. ~Present(NoRow)
    BY DEF Present, NoRow, NewRow
  <2>3. e # x /\ row'[e] = row[e]
    BY <1>1, <1>2, <2>1, <2>2
  <2>4. a # x
    BY <1>6, <2>3 DEF Delete, a
  <2> QED BY <1>1, <1>2, <2>1, <2>3, <2>4 DEF Linked, a
<1> QED BY <1>3, <1>4, <1>5, <1>6 DEF Registration, a

LEMMA StructureHolds == Spec => [](Inv /\ Scanned /\ Linked)
<1>1. Init => Scanned /\ Linked
  <2>1. Init => Scanned
    BY DEF Init, Asleep, Scanned
  <2>2. Init => Linked
    BY EntitiesAssumption DEF Init, Linked, Present, NewRow, Entities
  <2> QED BY <2>1, <2>2
<1>2. Inv /\ Scanned /\ Linked /\ [Next]_vars => (Scanned /\ Linked)'
  BY ScannedNext, LinkedNext
<1> QED BY <1>1, <1>2, InvHolds, PTL DEF Spec

-----------------------------------------------------------------------------
(* What a step may do *)

\* No transition of a callback or of a probe loses an operator's override,
\* although both write that column.
THEOREM OverridesAreKept == Spec => HealthKeepsOverrides
<1>1. ASSUME Inv, Scanned, [Next]_vars, NEW e \in Endpoints, Present(row[e]),
             Present(row'[e]), row'[e].override # row[e].override
      PROVE  Stores(e)
  <2>1. e \in Entities
    BY DEF Entities
  <2>2. CASE ~Registration
    BY <1>1, <2>1, <2>2, PlainStep DEF Kept
  <2>3. CASE Registration
    BY <1>1, <2>1, <2>3, RegistrationStep
  <2> QED BY <2>2, <2>3
<1>2. Inv /\ Scanned /\ [Next]_vars =>
        [\A e \in Endpoints :
           Present(row[e]) /\ Present(row'[e]) /\ row'[e].override # row[e].override
             => \E r \in Requests : todo[r][e].do = "store"]_vars
  BY <1>1 DEF Stores
<1> QED BY <1>2, StructureHolds, PTL DEF Spec, HealthKeepsOverrides

\* Whatever was in flight when a row was deleted, its writes do not bring the
\* row back.
THEOREM DeletionsAreFinal == Spec => DeletedStaysDeleted
<1>1. ASSUME Inv, Scanned, [Next]_vars, NEW x \in Entities, ~Present(row[x]), Present(row'[x])
      PROVE  /\ row'[x] = NewRow(row'[x].status, row'[x].override)
             /\ UNCHANGED <<todo, pass>>
  <2>1. Registration
    BY <1>1, PlainStep
  <2>2. PICK s \in Statuses, o \in Overrides : row'[x] = NewRow(s, o)
    BY <1>1, <2>1, RegistrationStep
  <2>3. row'[x] = NewRow(row'[x].status, row'[x].override)
    BY <2>2 DEF NewRow
  <2> QED BY <1>1, <2>1, <2>3, RegistrationStep
<1>2. Inv /\ Scanned /\ [Next]_vars =>
        [\A x \in Entities : ~Present(row[x]) /\ Present(row'[x]) =>
           /\ row'[x] = NewRow(row'[x].status, row'[x].override)
           /\ UNCHANGED <<todo, pass>>]_vars
  BY <1>1
<1> QED BY <1>2, StructureHolds, PTL DEF Spec, DeletedStaysDeleted

\* A pass makes an account active only with an endpoint that answered.
THEOREM ActivationsAreProbed == Spec => AccountActivationIsProbed
<1>1. ASSUME Inv, Scanned, FinishPass, NEW a \in Accounts,
             row[a].status # "active", row'[a].status = "active"
      PROVE  \E e \in Endpoints : AccountOf[e] = a /\ row'[e].status = "active"
  <2>1. PICK rows \in [Entities -> SoundRows], due \in SUBSET Accounts :
          /\ \A y \in Entities : y \in Accounts => rows[y] = row[y]
          /\ \E picked \in Picks(rows, due) : \E answer \in [picked -> ProbeOutcomes] :
               row' = Judge(rows, due, picked, answer)
    BY <1>1, FinishIsJudge
  <2>2. PICK picked \in Picks(rows, due) : \E answer \in [picked -> ProbeOutcomes] :
          row' = Judge(rows, due, picked, answer)
    BY <2>1
  <2>3. PICK answer \in [picked -> ProbeOutcomes] : row' = Judge(rows, due, picked, answer)
    BY <2>2
  <2>4. a \in Entities /\ rows[a].status # "active"
    BY <1>1, <2>1 DEF Entities
  <2>5. PICK e \in picked : answer[e] = "ok" /\ AccountOf[e] = a
    BY <1>1, <2>3, <2>4, JudgeKeeps
  <2>6. e \in Endpoints /\ e \in Entities /\ Present(rows[e]) /\ rows[e] \in SoundRows
    BY PicksAreEndpoints DEF Entities
  <2>7. row'[e] = Probe(rows[e], "ok")
    BY <2>3, <2>5, <2>6, JudgeKeeps
  <2>8. Probe(rows[e], "ok").status = "active"
    BY <2>6, ProbeKeeps DEF Outcomes
  <2> QED BY <2>5, <2>6, <2>7, <2>8
<1>2. Inv /\ Scanned /\ [Next]_vars =>
        [FinishPass => \A a \in Accounts :
           row[a].status # "active" /\ row'[a].status = "active"
             => \E e \in Endpoints : AccountOf[e] = a /\ row'[e].status = "active"]_vars
  BY <1>1
<1> QED BY <1>2, StructureHolds, PTL DEF Spec, AccountActivationIsProbed

-----------------------------------------------------------------------------
(* What no commit shows *)

\* Operators register no row in a status that only the probe engine uses.
PlainRegistrations ==
  /\ \A new \in NewEndpoints : new.status # "recovered"
  /\ NewAccounts \cap {"recovered", "probe"} = {}

Unseen(x) == IF x \in Accounts THEN {"recovered", "probe"} ELSE {"recovered", "inactive"}

\* Neither a row nor a write already decided shows them.
Hidden ==
  /\ \A x \in Entities : row[x].status \notin Unseen(x)
  /\ \A r \in Requests, x \in Entities : todo[r][x].status \notin Unseen(x)

LEMMA HandlerStatus ==
  ASSUME NEW class \in EventClasses
  PROVE  Handler(class).status \in {"disabled", "cooldown", Unset}
<1>1. class \in {"auth", "rate", "other", "success"}
  BY EnvironmentAssumption DEF FailureClasses
<1> QED BY <1>1 DEF Handler, Task

LEMMA ResolveStatus ==
  ASSUME NEW w, NEW task \in Tasks, task.do \in ReadKinds
  PROVE  Resolve(task, w).status \in {Unset, "active", task.status, w.status}
<1>1. CASE ~Present(w)
  BY <1>1 DEF Resolve, Nothing, Task
<1>2. CASE Present(w) /\ task.do = "move"
  BY <1>2 DEF Resolve, Nothing, Task
<1>3. CASE Present(w) /\ task.do = "success"
  BY <1>3 DEF Resolve, Nothing, Task
<1>4. CASE Present(w) /\ task.do = "request"
  BY <1>4 DEF Resolve, Task
<1> QED BY <1>1, <1>2, <1>3, <1>4 DEF ReadKinds

LEMMA HiddenRows ==
  ASSUME Inv, Scanned, Hidden, PlainRegistrations, [Next]_vars, NEW x \in Entities
  PROVE  row'[x].status \notin Unseen(x)
<1>1. row \in [Entities -> SoundRows] /\ row[x] \in SoundRows
      /\ row[x].status \notin Unseen(x)
  BY DEF Inv, Hidden
<1>2. {"active", "degraded", "absent"} \cap Unseen(x) = {}
  BY DEF Unseen
<1>3. ASSUME NEW r \in Requests, Commit(r)
      PROVE  row'[x].status \notin Unseen(x)
  <2>1. row'[x] = Perform(todo[r][x], row[x])
    BY <1>3 DEF Commit
  <2>2. todo[r][x] \in Tasks /\ todo[r][x].status \notin Unseen(x)
    BY DEF Inv, Hidden
  <2> QED BY <1>1, <1>2, <2>1, <2>2, PerformKeeps
<1>4. ASSUME NEW a \in Accounts, NEW s \in AccountRequests, SetAccountStatus(a, s)
      PROVE  row'[x].status \notin Unseen(x)
  <2>1. CASE x = a
    <3>1. row[a] \in Rows /\ s \in Statuses /\ s \notin Unseen(a)
      BY <1>4, <2>1, PresentRows, SoundRowsTyped, <1>1, EnvironmentAssumption
         DEF SetAccountStatus, Statuses, Unseen
    <3>2. row'[x] = SetStatus(row[x], s)
      BY <1>1, <1>4, <2>1 DEF SetAccountStatus
    <3> QED BY <2>1, <3>1, <3>2, SetStatusKeeps
  <2>2. CASE x # a
    BY <1>1, <1>4, <2>2 DEF SetAccountStatus
  <2> QED BY <2>1, <2>2
<1>5. ASSUME NEW a \in Accounts, NEW s \in NewAccounts, CreateAccount(a, s)
      PROVE  row'[x].status \notin Unseen(x)
  <2>1. row'[x] = row[x] \/ (x = a /\ row'[x].status = s)
    BY <1>1, <1>5 DEF CreateAccount, NewRow
  <2>2. s \notin Unseen(a)
    BY <1>5 DEF PlainRegistrations, Unseen
  <2> QED BY <1>1, <2>1, <2>2
<1>6. ASSUME NEW e \in Endpoints, NEW new \in NewEndpoints, CreateEndpoint(e, new)
      PROVE  row'[x].status \notin Unseen(x)
  <2>1. row'[x] = row[x] \/ (x = e /\ row'[x].status = new.status)
    BY <1>1, <1>6 DEF CreateEndpoint, NewRow
  <2>2. new.status \notin Unseen(e)
    BY EntitiesAssumption, EnvironmentAssumption DEF PlainRegistrations, Unseen
  <2> QED BY <1>1, <2>1, <2>2
<1>7. ASSUME NEW y \in Deletable, Delete(y)
      PROVE  row'[x].status \notin Unseen(x)
  <2>1. row'[x] = row[x] \/ row'[x].status = "absent"
    BY <1>1, <1>7 DEF Delete, NoRow, NewRow
  <2> QED BY <1>1, <1>2, <2>1
<1>8. CASE FinishPass
  BY <1>1, <1>8, FinishKeeps DEF Unseen, Passing
<1>9. CASE Tick
  <2>1. row'[x] = Elapse(row[x])
    BY <1>9 DEF Tick
  <2> QED BY <1>1, <2>1, ElapseKeeps
<1>10. \/ row' = row
       \/ \E r \in Requests : Commit(r)
       \/ Operator
       \/ FinishPass
       \/ Tick
  BY DEF Next, vars, Callback, Receive, Request, RequestEndpoint, Peek, Abort,
         Pass, ScanEndpoints, SkipEndpoint, ScanAccounts, AbandonPass
<1> QED BY <1>1, <1>3, <1>4, <1>5, <1>6, <1>7, <1>8, <1>9, <1>10 DEF Operator

LEMMA HiddenTasks ==
  ASSUME Inv, Hidden, [Next]_vars, NEW r \in Requests, NEW x \in Entities
  PROVE  todo'[r][x].status \notin Unseen(x)
<1>1. /\ todo \in [Requests -> [Entities -> Tasks]]
      /\ todo[r][x].status \notin Unseen(x) /\ row[x].status \notin Unseen(x)
  BY DEF Inv, Hidden
<1>2. {"disabled", "cooldown", "degraded", "active", Unset} \cap Unseen(x) = {}
  BY DEF Unseen, Unset
<1>3. Nothing.status = Unset /\ \A y \in Entities : Idle[y] = Nothing
  BY DEF Nothing, Task, Idle
<1>4. ASSUME NEW q \in Requests, Callback(q)
      PROVE  todo'[r][x].status \notin Unseen(x)
  <2>1. PICK label \in EventLabels, class \in EventClasses : Receive(q, label, class)
    BY <1>4 DEF Callback
  <2>2. \/ todo'[r][x] = todo[r][x]
        \/ todo'[r][x] = Handler(class)
        \/ todo'[r][x] = Nothing
    BY <1>1, <2>1 DEF Receive
  <2> QED BY <1>1, <1>2, <1>3, <2>2, HandlerStatus
<1>5. ASSUME NEW q \in Requests, Request(q)
      PROVE  todo'[r][x].status \notin Unseen(x)
  <2>1. PICK e \in Endpoints, body \in EndpointRequests : RequestEndpoint(q, e, body)
    BY <1>5 DEF Request
  <2>2. \/ todo'[r][x] = todo[r][x]
        \/ todo'[r][x] = Task("request", body.status, body.override)
    BY <1>1, <2>1 DEF RequestEndpoint
  <2>3. Task("request", body.status, body.override).status = body.status
    BY DEF Task
  <2>4. body.status \in {Unset, "active", "degraded", "cooldown", "disabled"}
    BY EnvironmentAssumption
  <2> QED BY <1>1, <1>2, <2>2, <2>3, <2>4
<1>6. ASSUME NEW q \in Requests, Peek(q)
      PROVE  todo'[r][x].status \notin Unseen(x)
  <2>1. PICK y \in Entities :
          /\ todo[q][y].do \in ReadKinds
          /\ todo' = [todo EXCEPT ![q][y] = Resolve(@, row[y])]
    BY <1>6 DEF Peek
  <2>2. \/ todo'[r][x] = todo[r][x]
        \/ r = q /\ x = y /\ todo'[r][x] = Resolve(todo[r][x], row[x])
    BY <1>1, <2>1
  <2>3. todo[r][x] \in Tasks
    BY <1>1
  <2> QED BY <1>1, <1>2, <2>1, <2>2, <2>3, ResolveStatus
<1>7. ASSUME NEW q \in Requests, todo' = [todo EXCEPT ![q] = Idle]
      PROVE  todo'[r][x].status \notin Unseen(x)
  <2>1. todo'[r][x] = todo[r][x] \/ todo'[r][x] = Nothing
    BY <1>1, <1>3, <1>7
  <2> QED BY <1>1, <1>2, <1>3, <2>1
<1>8. \/ todo' = todo
      \/ \E q \in Requests : \/ Callback(q) \/ Request(q) \/ Peek(q)
                             \/ todo' = [todo EXCEPT ![q] = Idle]
  BY DEF Next, vars, Commit, Abort, Operator, SetAccountStatus, CreateAccount,
         CreateEndpoint, Delete, Pass, ScanEndpoints, SkipEndpoint, ScanAccounts,
         FinishPass, ProbeEndpoints, ProbeAccounts, AbandonPass, Tick
<1> QED BY <1>1, <1>4, <1>5, <1>6, <1>7, <1>8

LEMMA HiddenNext ==
  ASSUME Inv, Scanned, Hidden, PlainRegistrations, [Next]_vars
  PROVE  Hidden'
BY HiddenRows, HiddenTasks DEF Hidden, Unseen

LEMMA HiddenInit == Init => Hidden
BY DEF Init, Hidden, Unseen, NewRow, Idle, Nothing, Task, Unset

LEMMA HiddenHolds == PlainRegistrations /\ Spec => []Hidden
<1>1. Inv /\ Scanned /\ Hidden /\ PlainRegistrations /\ [Next]_vars => Hidden'
  BY HiddenNext
<1>2. PlainRegistrations => PlainRegistrations'
  BY DEF PlainRegistrations
<1> QED BY <1>1, <1>2, HiddenInit, StructureHolds, PTL DEF Spec

\* No commit shows a status that a transaction only passes through.
THEOREM TransientStaysHidden == PlainRegistrations /\ Spec => []TransientStatesHidden
<1>1. Hidden => TransientStatesHidden
  BY DEF Hidden, TransientStatesHidden, Unseen, Entities
<1> QED BY <1>1, HiddenHolds, PTL

-----------------------------------------------------------------------------
(* How a barred endpoint comes back *)

\* A transition that is still to be written enters one of three statuses.
Aimed(task) ==
  task.do \in {"put", "move"} => task.status \in {"disabled", "cooldown", "active"}

AllAimed == \A r \in Requests, x \in Entities : Aimed(todo[r][x])

LEMMA ResolveAimed ==
  ASSUME NEW w, NEW task \in Tasks, task.do \in ReadKinds, Aimed(task)
  PROVE  Aimed(Resolve(task, w))
<1>1. CASE ~Present(w)
  BY <1>1 DEF Resolve, Nothing, Task, Aimed
<1>2. CASE Present(w) /\ task.do = "move"
  BY <1>2 DEF Resolve, Nothing, Task, Aimed
<1>3. CASE Present(w) /\ task.do = "success"
  BY <1>3 DEF Resolve, Nothing, Task, Aimed
<1>4. CASE Present(w) /\ task.do = "request"
  BY <1>4 DEF Resolve, Task, Aimed
<1> QED BY <1>1, <1>2, <1>3, <1>4 DEF ReadKinds

LEMMA AimedNext ==
  ASSUME Inv, AllAimed, [Next]_vars
  PROVE  AllAimed'
<1> SUFFICES ASSUME NEW r \in Requests, NEW x \in Entities
             PROVE  Aimed(todo'[r][x])
  BY DEF AllAimed, Aimed
<1>1. todo \in [Requests -> [Entities -> Tasks]] /\ Aimed(todo[r][x])
  BY DEF Inv, AllAimed
<1>2. Aimed(Nothing) /\ \A y \in Entities : Idle[y] = Nothing
  BY DEF Nothing, Task, Idle, Aimed
<1>3. ASSUME NEW q \in Requests, Callback(q)
      PROVE  Aimed(todo'[r][x])
  <2>1. PICK label \in EventLabels, class \in EventClasses : Receive(q, label, class)
    BY <1>3 DEF Callback
  <2>2. \/ todo'[r][x] = todo[r][x]
        \/ todo'[r][x] = Handler(class)
        \/ todo'[r][x] = Nothing
    BY <1>1, <2>1 DEF Receive
  <2>3. class \in {"auth", "rate", "other", "success"}
    BY EnvironmentAssumption DEF FailureClasses
  <2>4. Aimed(Handler(class))
    BY <2>3 DEF Handler, Task, Aimed
  <2> QED BY <1>1, <1>2, <2>2, <2>4
<1>4. ASSUME NEW q \in Requests, Request(q)
      PROVE  Aimed(todo'[r][x])
  <2>1. PICK e \in Endpoints, body \in EndpointRequests : RequestEndpoint(q, e, body)
    BY <1>4 DEF Request
  <2>2. \/ todo'[r][x] = todo[r][x]
        \/ todo'[r][x] = Task("request", body.status, body.override)
    BY <1>1, <2>1 DEF RequestEndpoint
  <2> QED BY <1>1, <2>2 DEF Task, Aimed
<1>5. ASSUME NEW q \in Requests, Peek(q)
      PROVE  Aimed(todo'[r][x])
  <2>1. PICK y \in Entities :
          /\ todo[q][y].do \in ReadKinds
          /\ todo' = [todo EXCEPT ![q][y] = Resolve(@, row[y])]
    BY <1>5 DEF Peek
  <2>2. \/ todo'[r][x] = todo[r][x]
        \/ r = q /\ x = y /\ todo'[r][x] = Resolve(todo[r][x], row[x])
    BY <1>1, <2>1
  <2>3. todo[r][x] \in Tasks
    BY <1>1
  <2> QED BY <1>1, <2>1, <2>2, <2>3, ResolveAimed
<1>6. ASSUME NEW q \in Requests, todo' = [todo EXCEPT ![q] = Idle]
      PROVE  Aimed(todo'[r][x])
  <2>1. todo'[r][x] = todo[r][x] \/ todo'[r][x] = Nothing
    BY <1>1, <1>2, <1>6
  <2> QED BY <1>1, <1>2, <2>1
<1>7. \/ todo' = todo
      \/ \E q \in Requests : \/ Callback(q) \/ Request(q) \/ Peek(q)
                             \/ todo' = [todo EXCEPT ![q] = Idle]
  BY DEF Next, vars, Commit, Abort, Operator, SetAccountStatus, CreateAccount,
         CreateEndpoint, Delete, Pass, ScanEndpoints, SkipEndpoint, ScanAccounts,
         FinishPass, ProbeEndpoints, ProbeAccounts, AbandonPass, Tick
<1> QED BY <1>1, <1>3, <1>4, <1>5, <1>6, <1>7

LEMMA AimedHolds == Spec => []AllAimed
<1>1. Init => AllAimed
  BY DEF Init, AllAimed, Aimed, Idle, Nothing, Task
<1>2. Inv /\ AllAimed /\ [Next]_vars => AllAimed'
  BY AimedNext
<1> QED BY <1>1, <1>2, StructureHolds, PTL DEF Spec

\* What bars a row by itself: being forced out, or not forced and one of three
\* statuses.
LEMMA BarredRows ==
  ASSUME NEW w \in Rows
  PROVE  Barred(w) <=> \/ w.override = "force-disabled"
                       \/ w.override = "none" /\ w.status \in {"disabled", "cooldown", "degraded"}
BY DEF Barred, Generates, NewRow, Rows, Overrides

\* So a row stays barred when it keeps its override and gets no other status.
LEMMA StaysBarred ==
  ASSUME NEW w \in SoundRows, NEW v \in SoundRows, Present(w), Present(v), Barred(w), Kept(w, v),
         v.status \in {w.status, "disabled", "cooldown", "degraded"} \/ w.override = "force-disabled"
  PROVE  Barred(v)
<1>1. w \in Rows /\ v \in Rows
  BY PresentRows, SoundRowsTyped
<1> QED BY <1>1, BarredRows DEF Kept

\* A task that grants nothing leaves the override and bars the row, if anything.
LEMMA UngrantedKeeps ==
  ASSUME NEW w \in SoundRows, Present(w), NEW task \in Tasks, Aimed(task), ~Grants(task)
  PROVE  /\ Kept(w, Perform(task, w))
         /\ Perform(task, w).status \in {w.status, "disabled", "cooldown", "degraded"}
<1>1. Kept(w, Perform(task, w))
  BY PerformKeeps DEF Grants
<1>2. w \in Rows \cup {NoRow} /\ w \in Rows
  BY PresentRows, SoundRowsTyped
<1>3. CASE task.do \in {"put", "move"}
  <2>1. task.status \in {"disabled", "cooldown"} /\ task.status \in Statuses
    BY <1>3 DEF Aimed, Grants, Statuses
  <2> QED BY <1>1, <1>2, <1>3, <2>1, EnterKeeps, MoveKeeps DEF Perform
<1>4. CASE task.do = "clear"
  BY <1>1, <1>2, <1>4 DEF Perform, ClearFailures, Rows
<1>5. CASE task.do = "count"
  BY <1>1, <1>5, CountFailureKeeps DEF Perform
<1>6. CASE task.do \in {"nothing", "request"}
  BY <1>1, <1>6 DEF Perform
<1>7. task.do \in {"put", "move", "store", "clear", "count", "success", "nothing", "request"}
  BY DEF Tasks
<1> QED BY <1>3, <1>4, <1>5, <1>6, <1>7 DEF Grants

\* The pass leaves alone a barred endpoint that it did not select, unless it may
\* probe the account through it.
LEMMA UnselectedStays ==
  ASSUME Inv, Scanned, FinishPass, NEW e \in Endpoints, Present(row[e]), Barred(row[e]),
         e \notin pass.due, row[e].status # "degraded"
  PROVE  row'[e] = row[e] \/ row[e].override = "force-disabled"
<1>1. PICK rows \in [Entities -> SoundRows], due \in SUBSET Accounts :
        /\ \A x \in Entities : x \notin pass.due => rows[x] = row[x]
        /\ \E picked \in Picks(rows, due) : \E answer \in [picked -> ProbeOutcomes] :
             row' = Judge(rows, due, picked, answer)
  BY FinishIsJudge
<1>2. PICK picked \in Picks(rows, due) : \E answer \in [picked -> ProbeOutcomes] :
        row' = Judge(rows, due, picked, answer)
  BY <1>1
<1>3. PICK answer \in [picked -> ProbeOutcomes] : row' = Judge(rows, due, picked, answer)
  BY <1>2
<1>4. e \in Entities /\ e \notin due /\ rows[e] = row[e] /\ row[e] \in Rows
  BY <1>1, EntitiesAssumption, PresentRows, SoundRowsTyped DEF Entities, Inv
<1>5. CASE e \in picked
  <2>1. row[e].status \notin {"disabled", "cooldown", "probe"}
    BY <1>4, <1>5 DEF Picks, Probeable
  <2> QED BY <1>4, <2>1, BarredRows
<1>6. CASE e \notin picked
  BY <1>3, <1>4, <1>6, JudgeKeeps
<1> QED BY <1>5, <1>6

\* No failure report puts a barred endpoint back, whatever it read and whatever
\* was committed since, and no pass one that it did not select or probe through.
THEOREM ReturnsAreGranted == Spec => EndpointsReturnByGrant
<1>1. ASSUME Inv, Inv', Scanned, AllAimed, [Next]_vars, NEW e \in Endpoints,
             Present(row[e]), Barred(row[e]), Present(row'[e]), ~Barred(row'[e])
      PROVE  \/ \E r \in Requests : Commit(r) /\ Grants(todo[r][e])
             \/ FinishPass /\ (e \in pass.due \/ row[e].status = "degraded")
  <2>1. e \in Entities /\ e \notin Accounts /\ row[e] \in SoundRows /\ row'[e] \in SoundRows
    BY <1>1, EntitiesAssumption DEF Entities, Inv
  <2>2. row'[e] # row[e]
    BY <1>1
  <2>3. ~(/\ Kept(row[e], row'[e])
          /\ \/ row'[e].status \in {row[e].status, "disabled", "cooldown", "degraded"}
             \/ row[e].override = "force-disabled")
    BY <1>1, <2>1, StaysBarred
  <2>4. ASSUME NEW r \in Requests, Commit(r)
        PROVE  Grants(todo[r][e])
    <3>1. row'[e] = Perform(todo[r][e], row[e])
      BY <2>1, <2>4 DEF Commit
    <3>2. todo[r][e] \in Tasks /\ Aimed(todo[r][e])
      BY <1>1, <2>1 DEF Inv, AllAimed
    <3> QED BY <1>1, <2>1, <2>3, <3>1, <3>2, UngrantedKeeps
  <2>5. CASE FinishPass
    <3>1. Kept(row[e], row'[e])
      BY <1>1, <2>1, <2>5, FinishKeeps
    <3> QED BY <1>1, <2>2, <2>3, <2>5, <3>1, UnselectedStays
  <2>6. ~Tick
    <3>1. Tick => row'[e] = Elapse(row[e])
      BY <2>1 DEF Tick
    <3> QED BY <2>1, <2>3, <3>1, ElapseKeeps
  <2>7. ~Registration
    BY <1>1, <2>1, <2>2, RegistrationStep
  <2>8. ~(\E a \in Accounts, s \in AccountRequests : SetAccountStatus(a, s))
    BY <1>1, <2>1, <2>2 DEF SetAccountStatus, Inv
  <2>9. \/ row' = row
        \/ \E r \in Requests : Commit(r)
        \/ \E a \in Accounts, s \in AccountRequests : SetAccountStatus(a, s)
        \/ Registration
        \/ FinishPass
        \/ Tick
    BY <1>1 DEF Next, vars, Callback, Receive, Request, RequestEndpoint, Peek, Abort, Operator,
           Registration, Pass, ScanEndpoints, SkipEndpoint, ScanAccounts, AbandonPass
  <2> QED BY <2>2, <2>4, <2>5, <2>6, <2>7, <2>8, <2>9
<1>2. Inv /\ Inv' /\ Scanned /\ AllAimed /\ [Next]_vars =>
        [\A e \in Endpoints :
           /\ Present(row[e]) /\ Barred(row[e])
           /\ Present(row'[e]) /\ ~Barred(row'[e])
           => \/ \E r \in Requests : Commit(r) /\ Grants(todo[r][e])
              \/ FinishPass /\ (e \in pass.due \/ row[e].status = "degraded")]_vars
  BY <1>1
<1> QED BY <1>2, StructureHolds, AimedHolds, PTL DEF Spec, EndpointsReturnByGrant

-----------------------------------------------------------------------------
(* What the readers of the columns agree on *)

\* The two copies of the filter agree: the foreign key keeps the account whose
\* absence only one of them minds.
THEOREM FiltersAgree == Spec => []EngineMatchesGenerator
<1>1. Linked => EngineMatchesGenerator
  <2> SUFFICES ASSUME Linked, NEW consumer \in ConsumerRows, NEW group \in Groups
               PROVE  Candidates(consumer, group) =
                        {e \in Routed : Admitted(consumer, group) /\ GroupOf[e] = group}
    BY DEF EngineMatchesGenerator
  <2>1. ASSUME NEW e \in Endpoints, Present(row[e])
        PROVE  Eligible(row[e], row[AccountOf[e]]) <=> Generates(row[e], row[AccountOf[e]])
    BY <2>1 DEF Linked, Eligible, Generates
  <2> QED BY <2>1 DEF Candidates, Routed
<1> QED BY <1>1, StructureHolds, PTL

\* What the health summary says of the node is true of the routing.
THEOREM SummaryMatchesRouting == Spec => []HealthMatchesRouting
<1>1. Inv => HealthMatchesRouting
  <2> SUFFICES ASSUME Inv, NEW status \in NodeStatuses
               PROVE  /\ NodeHealth(status) = "disabled" =>
                           \A e \in Routed : row[e].override = "force-active"
                      /\ NodeHealth(status) = "active" =>
                           \A e \in Endpoints \ Routed : Present(row[e]) =>
                             \/ row[e].override = "force-disabled"
                             \/ row[AccountOf[e]].status \in {"disabled", "inactive", "cooldown"}
                             \/ row[e].status = "disabled" /\ status = "active"
    BY DEF HealthMatchesRouting
  <2>1. \A e \in Endpoints : Present(row[e]) => row[e].status \in EndpointStatuses
    BY DEF EndpointStatuses
  <2>2. ASSUME NodeHealth(status) = "disabled", NEW e \in Routed
        PROVE  row[e].override = "force-active"
    <3>1. e \in Endpoints /\ Present(row[e]) /\ Generates(row[e], row[AccountOf[e]])
      BY DEF Routed
    <3>2. row[e].status \in EndpointStatuses
      BY <2>1, <3>1
    <3>3. EndpointStatuses = {"disabled"}
      BY <2>2, <3>2 DEF NodeHealth, NodeStatuses
    <3> QED BY <3>1, <3>2, <3>3 DEF Generates
  <2>3. ASSUME NodeHealth(status) = "active", NEW e \in Endpoints \ Routed, Present(row[e])
        PROVE  \/ row[e].override = "force-disabled"
               \/ row[AccountOf[e]].status \in {"disabled", "inactive", "cooldown"}
               \/ row[e].status = "disabled" /\ status = "active"
    <3>1. ~Generates(row[e], row[AccountOf[e]]) /\ row[e].status \in EndpointStatuses
      BY <2>1, <2>3 DEF Routed
    <3>2. \/ EndpointStatuses \subseteq {"active", "recovered"}
          \/ EndpointStatuses \cap {"cooldown", "degraded", "probe"} = {} /\ status = "active"
      BY <2>3, <3>1 DEF NodeHealth
    <3>3. \/ row[e].status \notin {"disabled", "cooldown", "degraded"}
          \/ row[e].status = "disabled" /\ status = "active"
      BY <3>1, <3>2
    <3> QED BY <3>1, <3>3 DEF Generates
  <2> QED BY <2>2, <2>3
<1> QED BY <1>1, StructureHolds, PTL
==============================================================================
