-------------------------------- MODULE Secrets --------------------------------
(***************************************************************************)
(* How a secret that is rotated in Doppler, or cannot be fetched, gets into*)
(* the configuration of a node: DopplerResolver with its cache, the        *)
(* generator that resolves the secret of every endpoint in turn, and the   *)
(* deployments of API requests and of the reconcile loop, which share one  *)
(* resolver and call it from several threads without a lock.               *)
(*                                                                         *)
(* Abstractions: the endpoints are those of one node that pass the health  *)
(* filter (Routing), with keys in one dictionary under one service token,  *)
(* since the entries of two tokens have nothing in common; a downloaded    *)
(* dictionary is one value, that is, every rotation makes a new one, and   *)
(* one that nothing remembers may come again; of a deployment only what    *)
(* RolloutAtomic promises is kept: the file changes to the generated       *)
(* configuration, or not at all. Times are ages in ticks of the model's    *)
(* clock and saturate at TTL, above which nothing looks at them.           *)
(***************************************************************************)
EXTENDS Naturals

CONSTANTS
  N,           \* endpoints, in the order of the query's rows
  Values,      \* dictionaries
  Missing,     \* no secret: the generator skips the endpoint
  Fallback,    \* Missing, or the value of the environment variable when
               \* ALLOW_ENV_SECRET_FALLBACK is set
  NoFile,
  Requests,    \* deployments by API requests at a time
  Loop,        \* the reconcile worker
  TTL          \* cache_ttl in ticks

Endpoints == 1..N
Workers == Requests \cup {Loop}

ASSUME SecretsAssumption ==
  /\ N \in Nat \ {0} /\ Loop \notin Requests
  /\ Missing \notin Values /\ Fallback \notin Values
  /\ TTL \in Nat \ {0}

ASSUME NoFileAssumption == NoFile \notin [Endpoints -> Values \cup {Missing, Fallback}]

VARIABLES
  current,  \* the dictionary Doppler holds
  retired,  \* ticks since a dictionary was replaced; 0 for the current one
  up,       \* Doppler answers, and accepts the token
  cache,    \* the entry of the token: a dictionary and the age of its fetch_time
  file,     \* the deployed configuration: the secret of every endpoint
  known,    \* node_config_paths has the path of the file
  flow      \* what each worker is doing

vars == <<current, retired, up, cache, file, known, flow>>

Secrets == Values \cup {Missing, Fallback}
Configs == [Endpoints -> Secrets]
Ages == 0..TTL

Older(n) == IF n < TTL THEN n + 1 ELSE TTL

Entry(v, n) == [value |-> v, age |-> n]
Empty == Entry(Missing, TTL)

\* A worker generates `config', for the drift check or to deploy it, and has
\* come to the endpoint `next'; now is the age of the time that the running
\* resolution read.  For the properties, old has the dictionaries that had been
\* replaced for a TTL when the generation began.
Flows == [op : {"idle", "drift", "deploy"}, next : 1..(N + 1), config : Configs,
          stage : {"ready", "fetching", "fetched"}, value : Values \cup {Missing},
          now : Ages, old : SUBSET Values]

Idle == [op |-> "idle", next |-> 1, config |-> [e \in Endpoints |-> Missing],
         stage |-> "ready", value |-> Missing, now |-> 0, old |-> {}]

Generation(op) == [Idle EXCEPT !.op = op, !.old = {v \in Values : retired[v] = TTL}]

Generated(w) == flow[w].op # "idle" /\ flow[w].next = N + 1

-----------------------------------------------------------------------------
(* DopplerResolver *)

\* Wrong on purpose: an entry is good for ever.
FreshForEver(entry) == entry # Empty

\* now - fetch_time < cache_ttl
Fresh(entry) == entry.age < TTL

\* The secret of the next endpoint is s.
Resolved(f, s) ==
  [f EXCEPT !.config[f.next] = s, !.next = @ + 1, !.stage = "ready", !.value = Missing, !.now = 0]

\* _get_secrets_with_cache: the clock is read, then the cache.
LookUp(w) ==
  /\ flow[w].op # "idle" /\ flow[w].stage = "ready" /\ flow[w].next \in Endpoints
  /\ flow' = [flow EXCEPT ![w] =
       IF Fresh(cache) THEN Resolved(@, cache.value)
       ELSE [@ EXCEPT !.stage = "fetching"]]
  /\ UNCHANGED <<current, retired, up, cache, file, known>>

\* Doppler answers with what it holds at that moment.
Answer(w) ==
  /\ flow[w].stage = "fetching" /\ up
  /\ flow' = [flow EXCEPT ![w] = [@ EXCEPT !.stage = "fetched", !.value = current]]
  /\ UNCHANGED <<current, retired, up, cache, file, known>>

\* Wrong on purpose: the entry is stamped with the time of the answer.
StoreStampedLate(w) ==
  /\ flow[w].stage = "fetched"
  /\ cache' = Entry(flow[w].value, 0)
  /\ flow' = [flow EXCEPT ![w] = Resolved(@, @.value)]
  /\ UNCHANGED <<current, retired, up, file, known>>

\* The answer arrives.  It is stored over whatever is there by now, stamped
\* with the time read before the fetch.
Store(w) ==
  /\ flow[w].stage = "fetched"
  /\ cache' = Entry(flow[w].value, flow[w].now)
  /\ flow' = [flow EXCEPT ![w] = Resolved(@, @.value)]
  /\ UNCHANGED <<current, retired, up, file, known>>

\* Wrong on purpose: the failure is stored too.
FailCached(w) ==
  /\ flow[w].stage = "fetching" /\ ~up
  /\ cache' = Entry(Missing, flow[w].now)
  /\ flow' = [flow EXCEPT ![w] = Resolved(@, Fallback)]
  /\ UNCHANGED <<current, retired, up, file, known>>

\* 401, 429, another status or a timeout: resolve raises, or falls back to the
\* environment; an expired entry is not used, nor removed.
Fail(w) ==
  /\ flow[w].stage = "fetching" /\ ~up
  /\ flow' = [flow EXCEPT ![w] = Resolved(@, Fallback)]
  /\ UNCHANGED <<current, retired, up, cache, file, known>>

-----------------------------------------------------------------------------
(* Generations and deployments *)

\* POST /rollouts/deploy/{node_id}
Request(w) ==
  /\ w \in Requests /\ flow[w].op = "idle"
  /\ flow' = [flow EXCEPT ![w] = Generation("deploy")]
  /\ UNCHANGED <<current, retired, up, cache, file, known>>

\* A round of the loop comes to the node.
Round ==
  /\ flow[Loop].op = "idle" /\ known
  /\ flow' = [flow EXCEPT ![Loop] = Generation("drift")]
  /\ UNCHANGED <<current, retired, up, cache, file, known>>

\* Wrong on purpose: the keys are masked before the configurations are compared.
CompareMasked ==
  /\ flow[Loop].op = "drift" /\ Generated(Loop)
  /\ flow' = [flow EXCEPT ![Loop] =
       IF file # NoFile /\ \A e \in Endpoints : file[e] = Missing <=> @.config[e] = Missing
       THEN Idle ELSE Generation("deploy")]
  /\ UNCHANGED <<current, retired, up, cache, file, known>>

\* detect_drift compares; deploy_config generates once more, with the write
\* lock that the audit entry has taken.
Compare ==
  /\ flow[Loop].op = "drift" /\ Generated(Loop)
  /\ flow' = [flow EXCEPT ![Loop] = IF @.config = file THEN Idle ELSE Generation("deploy")]
  /\ UNCHANGED <<current, retired, up, cache, file, known>>

\* The write lock is free for w.
MayDeploy(w) == w = Loop \/ flow[Loop].op # "deploy"

\* The deployment succeeds.
Apply(w) ==
  /\ flow[w].op = "deploy" /\ Generated(w) /\ MayDeploy(w)
  /\ file' = flow[w].config
  /\ known' = TRUE
  /\ flow' = [flow EXCEPT ![w] = Idle]
  /\ UNCHANGED <<current, retired, up, cache>>

\* It fails, before or after the path was noted, and leaves the file as it was.
Abandon(w) ==
  /\ flow[w].op = "deploy" /\ Generated(w)
  /\ known' \in {known, TRUE}
  /\ flow' = [flow EXCEPT ![w] = Idle]
  /\ UNCHANGED <<current, retired, up, cache, file>>

\* The control plane dies and is started again; the cache is in memory.
Restart ==
  /\ cache' = Empty
  /\ known' = FALSE
  /\ flow' = [w \in Workers |-> Idle]
  /\ UNCHANGED <<current, retired, up, file>>

-----------------------------------------------------------------------------
(* The environment *)

Remembered(v) ==
  \/ v = current \/ v = cache.value
  \/ file # NoFile /\ \E e \in Endpoints : file[e] = v
  \/ \E w \in Workers : flow[w].value = v \/ \E e \in Endpoints : flow[w].config[e] = v

\* An operator changes a secret in Doppler.
Rotate(v) ==
  /\ ~Remembered(v)
  /\ current' = v
  /\ retired' = [retired EXCEPT ![v] = 0]
  /\ flow' = [w \in Workers |-> [flow[w] EXCEPT !.old = @ \ {v}]]
  /\ UNCHANGED <<up, cache, file, known>>

\* An outage, a rate limit or an expired token begins or ends.
Toggle ==
  /\ up' = ~up
  /\ UNCHANGED <<current, retired, cache, file, known, flow>>

Tick ==
  /\ retired' = [v \in Values |-> IF v = current THEN 0 ELSE Older(retired[v])]
  /\ cache' = [cache EXCEPT !.age = Older(@)]
  /\ flow' = [w \in Workers |->
       IF flow[w].stage = "ready" THEN flow[w] ELSE [flow[w] EXCEPT !.now = Older(@)]]
  /\ UNCHANGED <<current, up, file, known>>

Init ==
  /\ current \in Values
  /\ retired = [v \in Values |-> 0]
  /\ up = TRUE
  /\ cache = Empty
  /\ file = NoFile
  /\ known = FALSE
  /\ flow = [w \in Workers |-> Idle]

Resolve(w) ==
  \/ LookUp(w) \/ Answer(w) \/ Store(w) \/ Fail(w)

Next ==
  \/ \E w \in Workers : Resolve(w) \/ Request(w) \/ Apply(w) \/ Abandon(w)
  \/ Round
  \/ Compare
  \/ Restart
  \/ \E v \in Values : Rotate(v)
  \/ Toggle
  \/ Tick

Spec == Init /\ [][Next]_vars

\* A resolution gets its answer or its error; a deployment ends, and those of
\* the loop succeed now and then; the loop comes round; time goes on.
FairSpec ==
  /\ Spec
  /\ \A w \in Workers : WF_vars(Resolve(w)) /\ WF_vars(Apply(w) \/ Abandon(w))
  /\ WF_vars(Round) /\ WF_vars(Compare) /\ SF_vars(Apply(Loop))
  /\ WF_vars(Tick)

-----------------------------------------------------------------------------
(* Properties that hold *)

TypeOK ==
  /\ current \in Values
  /\ retired \in [Values -> Ages]
  /\ up \in BOOLEAN /\ known \in BOOLEAN
  /\ cache \in [value : Values, age : Ages] \cup {Empty}
  /\ file \in Configs \cup {NoFile}
  /\ flow \in [Workers -> Flows]

\* Whatever fetches overtake each other and whoever filled the cache, a secret
\* that gets into a generated configuration was Doppler's less than a TTL
\* before the generation began: who waits for the TTL after a rotation, as the
\* runbook says, deploys the new secret.
SecretsAreFresh ==
  \A w \in Workers, e \in Endpoints : flow[w].config[e] \notin flow[w].old

\* After a rotation, and after an outage that took endpoints out of the file,
\* the loop alone brings the file to the current secret of every endpoint, and
\* no deployment that is still under way takes it back for long.
RotationReachesNode ==
  \A v \in Values :
    <>[](current = v /\ up /\ known) => <>[](file = [e \in Endpoints |-> v])
==============================================================================
