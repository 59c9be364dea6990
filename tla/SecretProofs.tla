----------------------------- MODULE SecretProofs ------------------------------
(***************************************************************************)
(* Proofs about Secrets for any number of endpoints, dictionaries and        *)
(* requests and any TTL.  What is in the cache was Doppler's when the time   *)
(* it is stamped with had been read, so its retirement is never older than   *)
(* the stamp; what a worker has fetched was Doppler's since its generation   *)
(* began.                                                                    *)
(***************************************************************************)
EXTENDS Secrets, TLAPS

\* The part of the invariant about one worker.
FlowFine(f) ==
  /\ f \in Flows
  /\ f.stage # "ready" => f.next \in Endpoints
  /\ f.stage = "fetched" => /\ f.value \in Values \ f.old
                            /\ retired[f.value] <= f.now
  /\ \A v \in f.old : retired[v] = TTL
  /\ \A e \in Endpoints : f.config[e] \notin f.old

Others ==
  /\ current \in Values /\ up \in BOOLEAN /\ known \in BOOLEAN
  /\ file \in Configs \cup {NoFile}

Stamped ==
  /\ retired \in [Values -> Ages] /\ retired[current] = 0
  /\ cache \in [value : Values, age : Ages] \cup {Empty}
  /\ cache # Empty => retired[cache.value] <= cache.age

Inv ==
  /\ Others
  /\ Stamped
  /\ flow \in [Workers -> Flows]
  /\ \A w \in Workers : FlowFine(flow[w])

\* An idle worker, and one that begins, are fine.
LEMMA GenerationFine ==
  ASSUME Inv, NEW op \in {"idle", "drift", "deploy"}
  PROVE  FlowFine(Generation(op)) /\ FlowFine(Idle)
<1> DEFINE old == {v \in Values : retired[v] = TTL}
           config == [e \in Endpoints |-> Missing]
<1>1. config \in Configs /\ \A e \in Endpoints : config[e] = Missing
  BY DEF Configs, Secrets
<1>2. old \subseteq Values /\ Missing \notin old
  BY SecretsAssumption
<1>3. 0 \in Ages /\ 1 \in 1..(N + 1)
  BY SecretsAssumption DEF Ages
<1>4. Idle = [op |-> "idle", next |-> 1, config |-> config, stage |-> "ready",
              value |-> Missing, now |-> 0, old |-> {}]
  BY DEF Idle
<1>5. Generation(op) = [Idle EXCEPT !.op = op, !.old = old]
  BY DEF Generation
<1>6. \A v \in old : retired[v] = TTL
  OBVIOUS
<1> HIDE DEF old, config
<1>7. Generation(op) = [op |-> op, next |-> 1, config |-> config, stage |-> "ready",
                        value |-> Missing, now |-> 0, old |-> old]
  BY <1>4, <1>5
<1>8. FlowFine(Generation(op))
  BY <1>1, <1>2, <1>3, <1>6, <1>7 DEF FlowFine, Flows
<1>9. FlowFine(Idle)
  BY <1>1, <1>3, <1>4 DEF FlowFine, Flows
<1> QED BY <1>8, <1>9

\* A secret that is none of the old ones may be put into a configuration.
LEMMA ResolvedFine ==
  ASSUME NEW f, FlowFine(f), f.next \in Endpoints, NEW s \in Secrets, s \notin f.old
  PROVE  FlowFine(Resolved(f, s))
<1> DEFINE config == [f.config EXCEPT ![f.next] = s]
<1>1. f \in Flows /\ f.config \in Configs
  BY DEF FlowFine, Flows
<1>2. config \in Configs /\ \A e \in Endpoints : config[e] \notin f.old
  BY <1>1 DEF FlowFine, Configs
<1>3. f.next + 1 \in 1..(N + 1) /\ 0 \in Ages
  BY SecretsAssumption DEF Endpoints, Ages
<1>4. Resolved(f, s) = [f EXCEPT !.config = config, !.next = f.next + 1, !.stage = "ready",
                                 !.value = Missing, !.now = 0]
  BY <1>1 DEF Resolved, Flows
<1> HIDE DEF config
<1>5. Resolved(f, s) = [op |-> f.op, next |-> f.next + 1, config |-> config,
        stage |-> "ready", value |-> Missing, now |-> 0, old |-> f.old]
  BY <1>1, <1>4 DEF Flows
<1> QED BY <1>1, <1>2, <1>3, <1>5 DEF FlowFine, Flows

\* One worker moves on and what the others rely on stays.
LEMMA OneFlow ==
  ASSUME Inv, NEW w \in Workers, NEW f, FlowFine(f), flow' = [flow EXCEPT ![w] = f],
         retired' = retired, Others', Stamped'
  PROVE  Inv'
<1>1. flow' \in [Workers -> Flows]
  BY DEF Inv, FlowFine
<1>2. \A u \in Workers : FlowFine(flow'[u])
  BY DEF Inv
<1>3. \A u \in Workers : FlowFine(flow[u])'
  BY <1>2 DEF FlowFine
<1> QED BY <1>1, <1>3 DEF Inv

\* What the look-up returns is none of the old dictionaries.
LEMMA LookUpInv ==
  ASSUME Inv, NEW w \in Workers, LookUp(w)
  PROVE  Inv'
<1>1. FlowFine(flow[w]) /\ flow[w].next \in Endpoints
  BY DEF Inv, LookUp
<1>2. Others' /\ Stamped' /\ retired' = retired
  BY DEF Inv, LookUp, Others, Stamped
<1>3. CASE Fresh(cache)
  <2>1. cache.age < TTL
    BY <1>3 DEF Fresh
  <2>2. cache # Empty
    BY <2>1, SecretsAssumption DEF Empty, Entry
  <2>3. cache.value \in Values /\ retired[cache.value] <= cache.age /\ cache.age \in Ages
    BY <2>2 DEF Inv, Stamped
  <2>4. retired[cache.value] # TTL
    BY <2>1, <2>3, SecretsAssumption DEF Inv, Stamped, Ages
  <2>5. FlowFine(Resolved(flow[w], cache.value))
    BY <1>1, <2>3, <2>4, ResolvedFine DEF FlowFine, Secrets
  <2>6. flow' = [flow EXCEPT ![w] = Resolved(flow[w], cache.value)]
    BY <1>3 DEF LookUp, Inv
  <2> QED BY <1>2, <2>5, <2>6, OneFlow
<1>4. CASE ~Fresh(cache)
  <2> DEFINE f == [flow[w] EXCEPT !.stage = "fetching"]
  <2>1. flow[w] \in Flows
    BY <1>1 DEF FlowFine
  <2>2. FlowFine(f)
    BY <1>1, <2>1 DEF FlowFine, Flows
  <2>3. flow' = [flow EXCEPT ![w] = f]
    BY <1>4 DEF LookUp, Inv
  <2> QED BY <1>2, <2>2, <2>3, OneFlow
<1> QED BY <1>3, <1>4

\* Doppler answers with a dictionary that is not retired.
LEMMA AnswerInv ==
  ASSUME Inv, NEW w \in Workers, Answer(w)
  PROVE  Inv'
<1> DEFINE f == [flow[w] EXCEPT !.stage = "fetched", !.value = current]
<1>1. FlowFine(flow[w]) /\ flow[w] \in Flows /\ flow[w].next \in Endpoints
  BY DEF Inv, Answer, FlowFine
<1>2. current \in Values /\ retired[current] = 0 /\ current \notin flow[w].old
  BY <1>1, SecretsAssumption DEF Inv, Others, Stamped, FlowFine
<1>3. 0 <= flow[w].now
  BY <1>1, SecretsAssumption DEF Flows, Ages
<1>4. f = [op |-> flow[w].op, next |-> flow[w].next, config |-> flow[w].config,
           stage |-> "fetched", value |-> current, now |-> flow[w].now, old |-> flow[w].old]
  <2>1. PICK g \in Flows : g = flow[w]
    BY <1>1
  <2>2. f = [g EXCEPT !.stage = "fetched", !.value = current]
    BY <2>1
  <2> HIDE DEF f
  <2>3. f = [op |-> g.op, next |-> g.next, config |-> g.config, stage |-> "fetched",
             value |-> current, now |-> g.now, old |-> g.old]
    BY <2>2 DEF Flows
  <2> QED BY <2>1, <2>3
<1>5. FlowFine(f)
  BY <1>1, <1>2, <1>3, <1>4 DEF FlowFine, Flows
<1>6. Others' /\ Stamped' /\ retired' = retired
  BY DEF Inv, Answer, Others, Stamped
<1>7. flow' = [flow EXCEPT ![w] = f]
  BY DEF Answer, Inv
<1> QED BY <1>5, <1>6, <1>7, OneFlow

\* The entry that is stored is at least as old as its dictionary's retirement.
LEMMA StoreInv ==
  ASSUME Inv, NEW w \in Workers, Store(w)
  PROVE  Inv'
<1>1. /\ FlowFine(flow[w]) /\ flow[w] \in Flows /\ flow[w].next \in Endpoints
      /\ flow[w].value \in Values \ flow[w].old /\ retired[flow[w].value] <= flow[w].now
      /\ flow[w].now \in Ages
  BY DEF Inv, Store, FlowFine, Flows
<1>2. FlowFine(Resolved(flow[w], flow[w].value))
  BY <1>1, ResolvedFine DEF Secrets
<1>3. Others' /\ retired' = retired
  BY DEF Inv, Store, Others
<1>4. Stamped'
  BY <1>1 DEF Inv, Store, Stamped, Entry
<1>5. flow' = [flow EXCEPT ![w] = Resolved(flow[w], flow[w].value)]
  BY DEF Store, Inv
<1> QED BY <1>2, <1>3, <1>4, <1>5, OneFlow

LEMMA FailInv ==
  ASSUME Inv, NEW w \in Workers, Fail(w)
  PROVE  Inv'
<1>1. FlowFine(flow[w]) /\ flow[w] \in Flows /\ flow[w].next \in Endpoints
  BY DEF Inv, Fail, FlowFine
<1>2. Fallback \in Secrets /\ Fallback \notin flow[w].old
  BY <1>1, SecretsAssumption DEF Secrets, Flows
<1>3. FlowFine(Resolved(flow[w], Fallback))
  BY <1>1, <1>2, ResolvedFine
<1>4. Others' /\ Stamped' /\ retired' = retired
  BY DEF Inv, Fail, Others, Stamped
<1>5. flow' = [flow EXCEPT ![w] = Resolved(flow[w], Fallback)]
  BY DEF Fail, Inv
<1> QED BY <1>3, <1>4, <1>5, OneFlow

\* A worker begins a generation, or is done with one.
LEMMA DeploymentInv ==
  ASSUME Inv, NEW w \in Workers,
         Request(w) \/ Apply(w) \/ Abandon(w) \/ (w = Loop /\ (Round \/ Compare))
  PROVE  Inv'
<1>1. FlowFine(Generation("drift")) /\ FlowFine(Generation("deploy")) /\ FlowFine(Idle)
  BY GenerationFine
<1>2. Stamped' /\ retired' = retired
  BY DEF Inv, Request, Apply, Abandon, Round, Compare, Stamped
<1>3. flow[w].config \in Configs
  BY DEF Inv, FlowFine, Flows
<1>4. Others'
  BY <1>3 DEF Inv, Request, Apply, Abandon, Round, Compare, Others
<1>5. PICK f \in {Generation("drift"), Generation("deploy"), Idle} :
        flow' = [flow EXCEPT ![w] = f]
  BY DEF Request, Apply, Abandon, Round, Compare
<1> QED BY <1>1, <1>2, <1>4, <1>5, OneFlow

\* After a restart nothing is cached and everyone idle.
LEMMA RestartInv ==
  ASSUME Inv, Restart
  PROVE  Inv'
<1>1. FlowFine(Idle)
  BY GenerationFine
<1>2. FlowFine(Idle)'
  BY <1>1 DEF Restart, FlowFine
<1>3. \A w \in Workers : flow'[w] = Idle
  BY DEF Restart
<1>4. Others' /\ Stamped'
  BY DEF Inv, Restart, Others, Stamped
<1>5. Idle \in Flows
  BY <1>1 DEF FlowFine
<1>6. flow' \in [Workers -> Flows]
  BY <1>5 DEF Restart
<1>7. \A w \in Workers : FlowFine(flow[w])'
  BY <1>1, <1>3 DEF Restart, FlowFine
<1> QED BY <1>4, <1>6, <1>7 DEF Inv

\* A dictionary that becomes Doppler's again is none of the old ones any more.
LEMMA RotateInv ==
  ASSUME Inv, NEW v \in Values, Rotate(v)
  PROVE  Inv'
<1>1. Others'
  BY DEF Inv, Rotate, Others
<1>2. 0 \in Ages
  BY SecretsAssumption DEF Ages
<1>3. retired' \in [Values -> Ages] /\ retired'[v] = 0
      /\ \A u \in Values : u # v => retired'[u] = retired[u]
  BY <1>2 DEF Inv, Stamped, Rotate
<1>4. Stamped'
  BY <1>3 DEF Inv, Stamped, Rotate, Remembered
<1> DEFINE Next1(w) == [flow[w] EXCEPT !.old = @ \ {v}]
<1>5. ASSUME NEW w \in Workers
      PROVE  flow'[w] \in Flows /\ FlowFine(flow[w])'
  <2>1. flow'[w] = Next1(w) /\ flow[w] \in Flows /\ FlowFine(flow[w]) /\ flow[w].value # v
    BY DEF Inv, Rotate, Remembered
  <2>2. Next1(w) = [op |-> flow[w].op, next |-> flow[w].next, config |-> flow[w].config,
          stage |-> flow[w].stage, value |-> flow[w].value, now |-> flow[w].now,
          old |-> flow[w].old \ {v}]
    BY <2>1 DEF Flows
  <2> HIDE DEF Next1
  <2>3. flow'[w] \in Flows
    BY <2>1, <2>2 DEF Flows
  <2>4. flow'[w].old \subseteq Values
    BY <2>3 DEF Flows
  <2> QED BY <1>3, <2>1, <2>2, <2>3, <2>4 DEF FlowFine
<1>6. flow' \in [Workers -> Flows]
  BY <1>5 DEF Rotate
<1> QED BY <1>1, <1>4, <1>5, <1>6 DEF Inv

\* Time passes for the retirements and the stamps alike.
LEMMA TickInv ==
  ASSUME Inv, Tick
  PROVE  Inv'
<1>1. Others'
  BY DEF Inv, Tick, Others
<1>2. \A n \in Ages : Older(n) \in Ages
  BY SecretsAssumption DEF Ages, Older
<1>3. \A a, b \in Ages : a <= b => Older(a) <= Older(b) /\ 0 <= Older(b)
  BY SecretsAssumption DEF Ages, Older
<1>4. retired \in [Values -> Ages] /\ current \in Values /\ retired[current] = 0
  BY DEF Inv, Others, Stamped
<1>5. /\ retired' \in [Values -> Ages] /\ retired'[current] = 0
      /\ \A v \in Values \ {current} : retired'[v] = Older(retired[v])
  BY <1>2, <1>4, SecretsAssumption DEF Tick, Ages
<1>6. \A v \in Values, n \in Ages : retired[v] <= n => retired'[v] <= Older(n)
  BY <1>3, <1>4, <1>5
<1>7. Stamped'
  <2>1. CASE cache = Empty
    <3>1. cache' = [cache EXCEPT !.age = Older(@)] /\ current' = current
      BY DEF Tick
    <3>2. cache' = Empty
      BY <2>1, <3>1, SecretsAssumption DEF Empty, Entry, Older
    <3> QED BY <1>5, <3>1, <3>2 DEF Stamped
  <2>2. CASE cache # Empty
    <3>1. cache \in [value : Values, age : Ages] /\ retired[cache.value] <= cache.age
      BY <2>2 DEF Inv, Stamped
    <3>2. cache' = [cache EXCEPT !.age = Older(cache.age)] /\ current' = current
      BY DEF Tick
    <3>3. cache' \in [value : Values, age : Ages] /\ retired'[cache'.value] <= cache'.age
      BY <1>2, <1>6, <3>1, <3>2
    <3> QED BY <1>5, <3>2, <3>3 DEF Stamped
  <2> QED BY <2>1, <2>2
<1>8. ASSUME NEW w \in Workers
      PROVE  flow'[w] \in Flows /\ FlowFine(flow[w])'
  <2>1. flow[w] \in Flows /\ FlowFine(flow[w])
    BY DEF Inv
  <2>2. \A v \in flow[w].old : retired'[v] = TTL
    <3> SUFFICES ASSUME NEW v \in flow[w].old PROVE retired'[v] = TTL
      OBVIOUS
    <3>1. v \in Values /\ retired[v] = TTL
      BY <2>1 DEF FlowFine, Flows
    <3>2. v # current
      BY <3>1, <1>4, SecretsAssumption
    <3> QED BY <3>1, <3>2, <1>5, SecretsAssumption DEF Older
  <2>3. CASE flow[w].stage = "ready"
    <3>1. flow'[w] = flow[w]
      BY <2>3 DEF Tick
    <3> QED BY <2>1, <2>2, <2>3, <3>1 DEF FlowFine
  <2>4. CASE flow[w].stage # "ready"
    <3>1. flow'[w] = [flow[w] EXCEPT !.now = Older(flow[w].now)]
      BY <2>4 DEF Tick
    <3>2. flow[w].now \in Ages
      BY <2>1 DEF Flows
    <3>3. flow'[w] = [op |-> flow[w].op, next |-> flow[w].next, config |-> flow[w].config,
            stage |-> flow[w].stage, value |-> flow[w].value, now |-> Older(flow[w].now),
            old |-> flow[w].old]
      BY <2>1, <3>1 DEF Flows
    <3>4. flow'[w] \in Flows
      BY <1>2, <2>1, <3>2, <3>3 DEF Flows
    <3>5. flow[w].stage = "fetched" => retired'[flow[w].value] <= Older(flow[w].now)
      BY <1>6, <2>1, <3>2 DEF FlowFine
    <3> QED BY <2>1, <2>2, <3>3, <3>4, <3>5 DEF FlowFine
  <2> QED BY <2>3, <2>4
<1>9. flow' \in [Workers -> Flows]
  BY <1>8 DEF Tick
<1> QED BY <1>1, <1>7, <1>8, <1>9 DEF Inv

LEMMA InitInv ==
  ASSUME Init
  PROVE  Inv
<1>1. 0 \in Ages /\ current \in Values
  BY SecretsAssumption DEF Ages, Init
<1>2. Stamped
  BY <1>1 DEF Init, Stamped
<1>3. [e \in Endpoints |-> Missing] \in Configs /\ 1 \in 1..(N + 1)
  BY SecretsAssumption DEF Configs, Secrets
<1>4. Idle \in Flows /\ FlowFine(Idle)
  BY <1>1, <1>3 DEF Idle, Flows, FlowFine
<1>5. Others
  BY <1>1, Zenon DEF Others, Init
<1> QED BY <1>2, <1>4, <1>5 DEF Inv, Init

LEMMA NextInv ==
  ASSUME Inv, [Next]_vars
  PROVE  Inv'
<1>1. ASSUME NEW w \in Workers, Resolve(w)
      PROVE  Inv'
  BY <1>1, LookUpInv, AnswerInv, StoreInv, FailInv DEF Resolve
<1>2. ASSUME NEW w \in Workers, Request(w) \/ Apply(w) \/ Abandon(w)
      PROVE  Inv'
  BY <1>2, DeploymentInv
<1>3. CASE Round \/ Compare
  BY <1>3, DeploymentInv DEF Workers
<1>4. CASE Restart
  BY <1>4, RestartInv
<1>5. CASE \E v \in Values : Rotate(v)
  BY <1>5, RotateInv
<1>6. CASE Toggle
  BY <1>6 DEF Toggle, Inv, Others, Stamped, FlowFine
<1>7. CASE Tick
  BY <1>7, TickInv
<1>8. CASE UNCHANGED vars
  BY <1>8 DEF vars, Inv, Others, Stamped, FlowFine
<1> QED BY <1>1, <1>2, <1>3, <1>4, <1>5, <1>6, <1>7, <1>8 DEF Next

LEMMA InvHolds == Spec => []Inv
<1> QED BY InitInv, NextInv, PTL DEF Spec

\* Only dictionaries, or nothing, are cached, and a worker never runs past the
\* endpoints of its node.
THEOREM TypeCorrect == Spec => []TypeOK
<1>1. Inv => TypeOK
  BY DEF Inv, Others, Stamped, TypeOK
<1> QED BY <1>1, InvHolds, PTL

\* However fetches overtake each other, a generated configuration has no
\* secret that had been replaced for a TTL when the generation began.
THEOREM FreshSecrets == Spec => []SecretsAreFresh
<1>1. Inv => SecretsAreFresh
  BY DEF Inv, FlowFine, SecretsAreFresh
<1> QED BY <1>1, InvHolds, PTL
==============================================================================
