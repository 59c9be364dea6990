----------------------------- MODULE HealthSerial -----------------------------
(***************************************************************************)
(* Failure reports and operators as if each ran alone: a report takes one   *)
(* step, in which the handlers of the entities it reaches see the current    *)
(* rows, all at once and none halfway.  HealthControl, whose requests read   *)
(* without a lock and write later, implements this as long as there are no   *)
(* successes, endpoint requests and answered probes among them; what those   *)
(* do instead is in HealthClaims.  A report may be lost (rolled back), or reach *)
(* one of its entities only.  The time left of a cooldown is not part of it: *)
(* of two 429 that race, the later commit may restart the cooldown.          *)
(***************************************************************************)
EXTENDS HealthRow

CONSTANTS Endpoints, Accounts, AccountOf, EventClasses, AccountRequests,
          NewEndpoints, NewAccounts

VARIABLE health  \* the rows without their timers

Forget(w) == [w EXCEPT !.timer = NoTimer]

Report(S, class) ==
  health' = [x \in Endpoints \cup Accounts |->
               IF x \in S THEN Forget(Failure(health[x], class)) ELSE health[x]]

Set(a, s) ==
  /\ Present(health[a])
  /\ health' = [health EXCEPT ![a] = SetStatus(@, s)]

\* A pass finds no endpoint to verify these accounts with.
Doubt(S) ==
  health' = [x \in Endpoints \cup Accounts |->
               IF x \in S THEN Move(Move(health[x], "probe"), "degraded") ELSE health[x]]

Register(x, w) ==
  /\ ~Present(health[x])
  /\ x \in Endpoints => Present(health[AccountOf[x]])
  /\ health' = [health EXCEPT ![x] = w]

Remove(x) ==
  /\ Present(health[x])
  /\ \A e \in Endpoints : Present(health[e]) => AccountOf[e] # x
  /\ health' = [health EXCEPT ![x] = NoRow]

Init == health = [x \in Endpoints \cup Accounts |-> NewRow("active", "none")]

Next ==
  \/ \E S \in SUBSET (Endpoints \cup Accounts), class \in EventClasses : Report(S, class)
  \/ \E S \in SUBSET Accounts : Doubt(S)
  \/ \E a \in Accounts, s \in AccountRequests : Set(a, s)
  \/ \E a \in Accounts, s \in NewAccounts : Register(a, NewRow(s, "none"))
  \/ \E e \in Endpoints, new \in NewEndpoints :
       Register(e, NewRow(new.status, new.override))
  \/ \E x \in Endpoints \cup Accounts : Remove(x)

Spec == Init /\ [][Next]_health
==============================================================================
