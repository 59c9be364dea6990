---------------------------- MODULE RolloutProofs ----------------------------
(***************************************************************************)
(* What Rollout guarantees for every set of configurations and requests,    *)
(* whatever fails, and with or without a master key.                        *)
(*                                                                         *)
(* Rows are logged long after they were decided on, so the invariant speaks  *)
(* of the deployments that have not been committed yet: what they would log  *)
(* is decided, unless its verification raised (SoundFlow), and what a         *)
(* rollback restored is a success that was logged before it (LastIsLogged;   *)
(* logged only grows).                                                       *)
(*                                                                         *)
(* That the file is still the one that was written when its deployment        *)
(* commits (WrittenIsOnDisk) rests on one deployment at a time (Exclusive);  *)
(* it is proved on top of Inv, which says which deployments have failed.     *)
(***************************************************************************)
EXTENDS Rollout, TLAPS

Success(c) == [config |-> c, status |-> "success"]

\* Only a deployment that has a configuration gets the lock.
Configured(f) == f.stage \notin {"idle", "waiting"} => f.config \in Configs

\* Outside of its last stage a row is decided only when its rollback is running;
\* it is "applying" in the last stage if the verification raised.
Decided(f) ==
  /\ f.stage \in {"writing", "written"} => f.status = "applying"
  /\ f.stage \in {"failed", "restoring"} => f.status = "failed"
  /\ f.stage = "done" => f.status \in {"success", "failed", "applying"}

SoundFlow(f) ==
  /\ Configured(f)
  /\ Decided(f)
  /\ f.status # "rolled_back"
  /\ f.restored # NoConfig => Success(f.restored) \in logged

LastIsLogged == last # NoConfig => Success(last) \in logged

Inv ==
  /\ TypeOK
  /\ \A w \in Requests : flow[w].stage = "waiting" => flow[w].config \in Configs
  /\ \A w \in Workers : SoundFlow(flow[w])
  /\ LastIsLogged
  /\ RollbacksRestoreSuccess

-----------------------------------------------------------------------------
(* Steps that commit nothing *)

\* A step that only changes the flow of one worker, the file and the path keeps
\* the invariant if the worker's new flow is sound.
LEMMA OneFlow ==
  ASSUME Inv, NEW w \in Workers, NEW f \in Flows,
         flow' = [flow EXCEPT ![w] = f],
         SoundFlow(f),
         f.stage = "waiting" /\ w \in Requests => f.config \in Configs,
         disk' \in Contents, known' \in BOOLEAN,
         UNCHANGED <<masterKey, desired, last, logged>>
  PROVE  Inv'
<1>1. TypeOK'
  BY DEF Inv, TypeOK
<1>2. \A v \in Workers : flow'[v] = IF v = w THEN f ELSE flow[v]
  BY DEF Inv, TypeOK
<1>3. \A v \in Requests : flow'[v].stage = "waiting" => flow'[v].config \in Configs
  BY <1>2 DEF Inv, Workers
<1>4. \A v \in Workers : SoundFlow(flow[v])' 
  BY <1>2 DEF Inv, SoundFlow, Configured, Decided
<1>5. (LastIsLogged /\ RollbacksRestoreSuccess)'
  BY DEF Inv, LastIsLogged, RollbacksRestoreSuccess, Success
<1> QED BY <1>1, <1>3, <1>4, <1>5 DEF Inv

\* The flow of an idle worker is sound.
LEMMA IdleSound ==
  /\ Idle \in Flows
  /\ Idle.stage = "idle"
  /\ SoundFlow(Idle)
BY DEF Idle, Flows, Stages, RowStatuses, Contents, SoundFlow, Configured, Decided

\* A worker's flow has its type; what a rollback writes is a configuration, or
\* what was on disk, and the previous success has been logged.
LEMMA FlowFacts ==
  ASSUME Inv, NEW w \in Workers
  PROVE  /\ flow[w] \in Flows
         /\ flow[w].stage \in Stages /\ flow[w].status \in RowStatuses
         /\ flow[w].config \in Configs \cup {NoConfig}
         /\ flow[w].backup \in Contents
         /\ flow[w].restored \in Configs \cup {NoConfig}
         /\ SoundFlow(flow[w])
         /\ Target(w) \in Contents
BY DEF Inv, TypeOK, Flows, Target, Contents

-----------------------------------------------------------------------------
(* Starting a deployment *)

\* Generating, detecting drift, taking the lock and giving up keep the invariant.
LEMMA StartKeeps ==
  ASSUME Inv, NEW w \in Workers,
         Generate(w) \/ (w = Loop /\ Detect) \/ Begin(w) \/ GiveUp(w)
  PROVE  Inv'
<1> USE FlowFacts
<1>0. disk \in Contents /\ known \in BOOLEAN /\ desired \in Configs
  BY DEF Inv, TypeOK
<1>1. CASE Generate(w)
  <2> DEFINE f == [flow[w] EXCEPT !.stage = "waiting", !.config = desired]
  <2>1. f \in Flows /\ SoundFlow(f) /\ f.config \in Configs
    BY <1>0, <1>1 DEF Flows, Stages, SoundFlow, Configured, Decided
  <2>2. flow' = [flow EXCEPT ![w] = f]
    BY <1>1 DEF Generate
  <2> QED BY <1>0, <1>1, <2>1, <2>2, OneFlow DEF Generate
<1>2. CASE w = Loop /\ Detect
  <2> DEFINE f == [flow[w] EXCEPT !.stage = "waiting"]
  <2>1. f \in Flows /\ SoundFlow(f) /\ w \notin Requests
    BY <1>2, RunAssumption DEF Detect, Flows, Stages, SoundFlow, Configured, Decided
  <2>2. flow' = [flow EXCEPT ![w] = f]
    BY <1>2 DEF Detect, Goto
  <2> QED BY <1>0, <1>2, <2>1, <2>2, OneFlow DEF Detect
<1>3. CASE Begin(w)
  <2>1. PICK b \in Contents :
          flow' = [flow EXCEPT ![w].stage = "pending", ![w].backup = b,
                               ![w].config = IF w = Loop THEN desired ELSE @]
    BY <1>0, <1>3 DEF Begin, Contents
  <2> DEFINE f == [flow[w] EXCEPT !.stage = "pending", !.backup = b,
                                  !.config = IF w = Loop THEN desired ELSE @]
  <2>2. flow' = [flow EXCEPT ![w] = f]
    BY <2>1
  <2>3. f.config \in Configs
    BY <1>0, <1>3 DEF Begin, Inv, Workers, Flows
  <2>4. f \in Flows /\ f.stage = "pending" /\ f.status = flow[w].status
                    /\ f.restored = flow[w].restored
    BY <2>3 DEF Flows, Stages
  <2>5. SoundFlow(f)
    BY <2>3, <2>4 DEF SoundFlow, Configured, Decided
  <2> HIDE DEF f
  <2> QED BY <1>0, <1>3, <2>2, <2>4, <2>5, OneFlow DEF Begin
<1>4. CASE GiveUp(w)
  BY <1>0, <1>4, IdleSound, OneFlow DEF GiveUp
<1> QED BY <1>1, <1>2, <1>3, <1>4

-----------------------------------------------------------------------------
(* The steps of a deployment, up to its commit *)

\* Applying keeps the invariant.
LEMMA ApplyKeeps ==
  ASSUME Inv, NEW w \in Workers, Open(w) \/ Fill(w) \/ WriteFails(w)
  PROVE  Inv'
<1> USE FlowFacts
<1>0. disk \in Contents /\ known \in BOOLEAN /\ Torn \in Contents
  BY DEF Inv, TypeOK, Contents
<1>1. CASE Open(w)
  <2> DEFINE f == [flow[w] EXCEPT !.stage = "writing", !.status = "applying"]
  <2>1. f \in Flows /\ SoundFlow(f) /\ f.stage # "waiting"
    BY <1>1 DEF Open, Flows, Stages, RowStatuses, SoundFlow, Configured, Decided
  <2>2. flow' = [flow EXCEPT ![w] = f]
    BY <1>1 DEF Open
  <2> HIDE DEF f
  <2> QED BY <1>0, <1>1, <2>1, <2>2, OneFlow DEF Open
<1>2. CASE Fill(w)
  <2> DEFINE f == [flow[w] EXCEPT !.stage = "written"]
  <2>1. f \in Flows /\ SoundFlow(f) /\ f.stage # "waiting" /\ flow[w].config \in Configs
    BY <1>2 DEF Fill, Flows, Stages, SoundFlow, Configured, Decided
  <2>2. flow' = [flow EXCEPT ![w] = f]
    BY <1>2 DEF Fill, Goto
  <2> HIDE DEF f
  <2> QED BY <1>0, <1>2, <2>1, <2>2, OneFlow DEF Fill, Contents
<1>3. CASE WriteFails(w)
  <2> DEFINE f == [flow[w] EXCEPT !.stage = "done", !.status = "failed"]
  <2>1. f \in Flows /\ SoundFlow(f) /\ f.stage # "waiting"
    BY <1>3 DEF WriteFails, Flows, Stages, RowStatuses, SoundFlow, Configured, Decided
  <2>2. flow' = [flow EXCEPT ![w] = f]
    BY <1>3 DEF WriteFails, Conclude
  <2> HIDE DEF f
  <2> QED BY <1>0, <1>3, <2>1, <2>2, OneFlow DEF WriteFails
<1> QED BY <1>1, <1>2, <1>3

\* Verifying keeps the invariant.
LEMMA VerifyKeeps ==
  ASSUME Inv, NEW w \in Workers, Verify(w) \/ TimeOut(w) \/ VerifyRaises(w)
  PROVE  Inv'
<1> USE FlowFacts
<1>0. disk \in Contents /\ known \in BOOLEAN
  BY DEF Inv, TypeOK
<1>1. CASE Verify(w)
  <2> DEFINE f == [flow[w] EXCEPT !.stage = "done", !.status = "success"]
  <2>1. f \in Flows /\ SoundFlow(f) /\ f.stage # "waiting"
    BY <1>1 DEF Verify, Flows, Stages, RowStatuses, SoundFlow, Configured, Decided
  <2>2. flow' = [flow EXCEPT ![w] = f]
    BY <1>1 DEF Verify, Conclude
  <2> HIDE DEF f
  <2> QED BY <1>0, <1>1, <2>1, <2>2, OneFlow DEF Verify
<1>2. CASE TimeOut(w)
  <2> DEFINE f == [flow[w] EXCEPT !.stage = "failed", !.status = "failed"]
  <2>1. f \in Flows /\ SoundFlow(f) /\ f.stage # "waiting"
    BY <1>2 DEF TimeOut, Flows, Stages, RowStatuses, SoundFlow, Configured, Decided
  <2>2. flow' = [flow EXCEPT ![w] = f]
    BY <1>2 DEF TimeOut
  <2> HIDE DEF f
  <2> QED BY <1>0, <1>2, <2>1, <2>2, OneFlow DEF TimeOut
<1>3. CASE VerifyRaises(w)
  <2> DEFINE f == [flow[w] EXCEPT !.stage = "done"]
  <2>1. f \in Flows /\ SoundFlow(f) /\ f.stage # "waiting"
    BY <1>3 DEF VerifyRaises, Flows, Stages, SoundFlow, Configured, Decided
  <2>2. flow' = [flow EXCEPT ![w] = f]
    BY <1>3 DEF VerifyRaises, Goto
  <2> HIDE DEF f
  <2> QED BY <1>0, <1>3, <2>1, <2>2, OneFlow DEF VerifyRaises
<1> QED BY <1>1, <1>2, <1>3

\* Rolling back keeps the invariant: what Refill restores has been logged.
LEMMA RollBackKeeps ==
  ASSUME Inv, NEW w \in Workers, Reopen(w) \/ Refill(w) \/ RestoreFails(w)
  PROVE  Inv'
<1> USE FlowFacts
<1>0. disk \in Contents /\ known \in BOOLEAN /\ Torn \in Contents
  BY DEF Inv, TypeOK, Contents
<1> DEFINE g(stage) == [flow[w] EXCEPT !.stage = stage]
<1>1. CASE Reopen(w)
  <2>1. PICK stage \in {"done", "restoring"} : flow' = [flow EXCEPT ![w] = g(stage)]
    BY <1>1 DEF Reopen, Goto
  <2>2. g(stage) \in Flows /\ SoundFlow(g(stage)) /\ g(stage).stage # "waiting"
    BY <1>1 DEF Reopen, Flows, Stages, SoundFlow, Configured, Decided
  <2>3. disk' \in Contents
    BY <1>0, <1>1 DEF Reopen
  <2> HIDE DEF g
  <2> QED BY <1>0, <1>1, <2>1, <2>2, <2>3, OneFlow DEF Reopen
<1>2. CASE Refill(w)
  <2> DEFINE f == [flow[w] EXCEPT !.stage = "done", !.restored = last]
  <2>1. f \in Flows /\ SoundFlow(f) /\ f.stage # "waiting"
    BY <1>2 DEF Refill, Inv, TypeOK, LastIsLogged, Flows, Stages, SoundFlow, Configured, Decided
  <2>2. flow' = [flow EXCEPT ![w] = f]
    BY <1>2 DEF Refill
  <2> HIDE DEF f
  <2> QED BY <1>0, <1>2, <2>1, <2>2, OneFlow DEF Refill
<1>3. CASE RestoreFails(w)
  <2>1. g("done") \in Flows /\ SoundFlow(g("done")) /\ g("done").stage # "waiting"
    BY <1>3 DEF RestoreFails, Flows, Stages, SoundFlow, Configured, Decided
  <2>2. flow' = [flow EXCEPT ![w] = g("done")]
    BY <1>3 DEF RestoreFails, Goto
  <2> HIDE DEF g
  <2> QED BY <1>0, <1>3, <2>1, <2>2, OneFlow DEF RestoreFails
<1> QED BY <1>1, <1>2, <1>3

-----------------------------------------------------------------------------
(* The end of the transaction, and the environment *)

\* A commit logs a rollback next to its success.
LEMMA CommitKeeps ==
  ASSUME Inv, NEW w \in Workers, Commit(w)
  PROVE  Inv'
<1> USE FlowFacts
<1> DEFINE own == [config |-> flow[w].config, status |-> flow[w].status]
           back == [config |-> flow[w].restored, status |-> "rolled_back"]
<1>0. /\ flow[w].config \in Configs /\ flow[w].status # "rolled_back"
      /\ flow[w].restored # NoConfig =>
           flow[w].restored \in Configs /\ Success(flow[w].restored) \in logged
  BY DEF Commit, SoundFlow, Configured, Decided
<1>1. \A r \in logged' : r \in logged \/ r = own \/ (r = back /\ flow[w].restored # NoConfig)
  BY DEF Commit, Rows
<1>2. logged \subseteq logged' /\ own \in logged'
  BY DEF Commit, Rows
<1>3. last' = IF flow[w].status = "success" THEN flow[w].config ELSE last
  BY DEF Commit
<1>4. \A v \in Workers : flow'[v] = IF v = w THEN Idle ELSE flow[v]
  BY DEF Commit, Inv, TypeOK
<1>5. TypeOK'
  <2>1. \A r \in logged' : r \in [config : Configs, status : RowStatuses]
    BY <1>0, <1>1 DEF Inv, TypeOK, RowStatuses
  <2>2. flow' \in [Workers -> Flows]
    BY IdleSound DEF Commit, Inv, TypeOK
  <2> QED BY <1>0, <1>3, <2>1, <2>2 DEF Commit, Inv, TypeOK
<1>6. LastIsLogged'
  BY <1>2, <1>3 DEF Inv, LastIsLogged, Success
<1>7. RollbacksRestoreSuccess'
  <2> SUFFICES ASSUME NEW r \in logged', r.status = "rolled_back"
               PROVE  Success(r.config) \in logged'
    BY DEF RollbacksRestoreSuccess, Success
  <2> QED BY <1>0, <1>1, <1>2 DEF Inv, RollbacksRestoreSuccess, Success
<1>8. \A v \in Workers : SoundFlow(flow[v])'
  <2>1. \A v \in Workers : SoundFlow(flow[v])
    BY DEF Inv
  <2> QED BY <1>2, <1>4, <2>1, IdleSound DEF Commit, SoundFlow, Configured, Decided
<1>9. \A v \in Requests : flow'[v].stage = "waiting" => flow'[v].config \in Configs
  BY <1>4, IdleSound DEF Inv, Workers
<1> QED BY <1>5, <1>6, <1>7, <1>8, <1>9 DEF Inv

\* Rolled back transactions and restarts log nothing; nor does the environment.
LEMMA OthersKeep ==
  ASSUME Inv, (\E w \in Workers : Discard(w)) \/ Restart \/ Change \/ Edit \/ UNCHANGED vars
  PROVE  Inv'
<1>0. disk \in Contents /\ known \in BOOLEAN
  BY DEF Inv, TypeOK
<1>1. ASSUME NEW w \in Workers, Discard(w) PROVE Inv'
  BY <1>0, <1>1, IdleSound, OneFlow DEF Discard
<1>2. CASE Restart
  <2>1. \A v \in Workers : flow'[v] = Idle
    BY <1>2 DEF Restart
  <2>2. TypeOK'
    BY <1>2, IdleSound DEF Restart, Inv, TypeOK
  <2>3. \A v \in Workers : SoundFlow(flow[v])'
    BY <1>2, <2>1, IdleSound DEF Restart, SoundFlow, Configured, Decided
  <2>4. \A v \in Requests : flow'[v].stage # "waiting"
    BY <2>1, IdleSound DEF Workers
  <2> QED BY <1>2, <2>2, <2>3, <2>4 DEF Restart, Inv, LastIsLogged,
             RollbacksRestoreSuccess, Success
<1>3. CASE Change \/ Edit \/ UNCHANGED vars
  <2>1. UNCHANGED <<masterKey, last, logged, known, flow>>
    BY <1>3 DEF Change, Edit, vars
  <2>2. TypeOK'
    BY <1>3, <2>1 DEF Change, Edit, vars, Inv, TypeOK, Contents
  <2>3. \A v \in Workers : SoundFlow(flow[v])'
    BY <2>1 DEF Inv, SoundFlow, Configured, Decided
  <2> QED BY <2>1, <2>2, <2>3 DEF Inv, LastIsLogged, RollbacksRestoreSuccess, Success
<1> QED BY <1>1, <1>2, <1>3

-----------------------------------------------------------------------------
(* The invariant holds throughout *)

\* The invariant holds at first: nothing is logged.
LEMMA InitInv == Init => Inv
<1> SUFFICES ASSUME Init PROVE Inv
  OBVIOUS
<1>1. TypeOK
  BY ConfigsAssumption, RunAssumption, IdleSound DEF Init, TypeOK, Contents
<1>2. \A w \in Workers : SoundFlow(flow[w])
  BY IdleSound DEF Init
<1>3. \A w \in Requests : flow[w].stage # "waiting"
  BY IdleSound DEF Init, Workers
<1> QED BY <1>1, <1>2, <1>3 DEF Init, Inv, LastIsLogged, RollbacksRestoreSuccess

\* Every step keeps it.
LEMMA NextInv == Inv /\ [Next]_vars => Inv'
<1> SUFFICES ASSUME Inv, [Next]_vars PROVE Inv'
  OBVIOUS
<1>1. ASSUME NEW w \in Workers, Generate(w) \/ Begin(w) \/ GiveUp(w) PROVE Inv'
  BY <1>1, StartKeeps
<1>2. ASSUME NEW w \in Workers, Proceed(w) PROVE Inv'
  BY <1>2, ApplyKeeps, VerifyKeeps, RollBackKeeps, CommitKeeps, OthersKeep DEF Proceed
<1>3. CASE Detect
  BY <1>3, StartKeeps DEF Workers
<1>4. CASE Restart \/ Change \/ Edit \/ UNCHANGED vars
  BY <1>4, OthersKeep
<1> QED BY <1>1, <1>2, <1>3, <1>4 DEF Next

\* The invariant holds throughout.
LEMMA Invariance == Spec => []Inv
<1> QED BY InitInv, NextInv, PTL DEF Spec

-----------------------------------------------------------------------------
(* What was written is what is on disk *)

\* The database's write lock: one deployment at a time.
Exclusive == \A v, w \in Workers : Locking(v) /\ Locking(w) => v = w

\* The file was written, and was neither rolled back nor left torn since.
Wrote(f) ==
  \/ f.stage = "written"
  \/ f.stage = "done" /\ f.status \in {"success", "applying"}

WrittenIsOnDisk == \A w \in Workers : Wrote(flow[w]) => disk = flow[w].config

DiskInv == Inv /\ Exclusive /\ WrittenIsOnDisk

\* A step of one worker that takes the lock only when it is free, touches the
\* file only with the lock, and that has written only what is on disk then,
\* leaves every other deployment what it wrote.
LEMMA OneDeploys ==
  ASSUME DiskInv, NEW w \in Workers, NEW f \in Flows,
         flow' = [flow EXCEPT ![w] = f],
         f.stage \notin {"idle", "waiting"} => Locking(w) \/ Unlocked,
         disk' = disk \/ Locking(w),
         Wrote(f) => disk' = f.config
  PROVE  (Exclusive /\ WrittenIsOnDisk)'
<1>1. \A v \in Workers : flow'[v] = IF v = w THEN f ELSE flow[v]
  BY DEF DiskInv, Inv, TypeOK
<1>2. \A v \in Workers : v # w => (Locking(v)' <=> Locking(v)) /\ (Wrote(flow[v])' <=> Wrote(flow[v]))
  BY <1>1 DEF Locking, Wrote
<1>3. Exclusive'
  <2> SUFFICES ASSUME NEW u \in Workers, NEW v \in Workers, Locking(u)', Locking(v)', u # v
               PROVE  FALSE
    BY DEF Exclusive
  <2>1. CASE u # w /\ v # w
    BY <1>2, <2>1 DEF DiskInv, Exclusive
  <2>2. CASE u = w \/ v = w
    <3>1. Locking(w) \/ Unlocked
      BY <1>1, <2>2 DEF Locking
    <3>2. PICK x \in Workers : x # w /\ Locking(x)
      BY <1>2, <2>2
    <3> QED BY <3>1, <3>2 DEF DiskInv, Exclusive, Unlocked
  <2> QED BY <2>1, <2>2
<1>4. WrittenIsOnDisk'
  <2> SUFFICES ASSUME NEW v \in Workers, Wrote(flow[v])'
               PROVE  disk' = flow'[v].config
    BY DEF WrittenIsOnDisk
  <2>1. CASE v = w
    BY <1>1, <2>1 DEF Wrote
  <2>2. CASE v # w
    <3>1. Wrote(flow[v]) /\ flow'[v] = flow[v]
      BY <1>1, <1>2, <2>2
    <3>2. Locking(v)
      BY <3>1 DEF Wrote, Locking
    <3>3. disk' = disk
      BY <2>2, <3>2 DEF DiskInv, Exclusive
    <3> QED BY <3>1, <3>3 DEF DiskInv, WrittenIsOnDisk
  <2> QED BY <2>1, <2>2
<1> QED BY <1>3, <1>4

\* Before it has the lock a worker has written nothing and leaves the file alone.
LEMMA StartWrites ==
  ASSUME DiskInv, NEW w \in Workers,
         Generate(w) \/ (w = Loop /\ Detect) \/ Begin(w) \/ GiveUp(w)
  PROVE  (Exclusive /\ WrittenIsOnDisk)'
<1>0. Inv /\ Inv'
  BY StartKeeps DEF DiskInv
<1> DEFINE f == flow'[w]
<1>1. flow' = [flow EXCEPT ![w] = f] /\ f \in Flows
  BY <1>0 DEF Inv, TypeOK, Generate, Detect, Begin, GiveUp, Goto
<1>2. disk' = disk
  BY DEF Generate, Detect, Begin, GiveUp
<1>3. f.stage \in {"idle", "waiting"} \/ (f.stage = "pending" /\ Unlocked)
  <2>1. CASE Generate(w) \/ (w = Loop /\ Detect)
    BY <1>0, <2>1 DEF Inv, TypeOK, Flows, Generate, Detect, Goto
  <2>2. CASE Begin(w)
    <3>1. PICK b : flow' = [flow EXCEPT ![w].stage = "pending", ![w].backup = b,
                                        ![w].config = IF w = Loop THEN desired ELSE @]
      BY <2>2 DEF Begin
    <3>2. f.stage = "pending"
      BY <1>0, <3>1 DEF Inv, TypeOK, Flows
    <3> QED BY <2>2, <3>2 DEF Begin
  <2>3. CASE GiveUp(w)
    BY <1>0, <2>3, IdleSound DEF Inv, TypeOK, GiveUp
  <2> QED BY <2>1, <2>2, <2>3
<1> HIDE DEF f
<1> QED BY <1>1, <1>2, <1>3, OneDeploys DEF Wrote

\* With the lock it keeps on disk what it wrote, until it failed.
LEMMA ProceedWrites ==
  ASSUME DiskInv, NEW w \in Workers, Proceed(w)
  PROVE  (Exclusive /\ WrittenIsOnDisk)'
<1>0. Inv /\ Inv'
  BY ApplyKeeps, VerifyKeeps, RollBackKeeps, CommitKeeps, OthersKeep DEF DiskInv, Proceed
<1> USE FlowFacts
<1> DEFINE f == flow'[w]
<1>1. flow' = [flow EXCEPT ![w] = f] /\ f \in Flows
  BY <1>0 DEF Inv, TypeOK, Proceed, Open, Fill, WriteFails, Verify, TimeOut, VerifyRaises,
              Reopen, Refill, RestoreFails, Commit, Discard, Goto, Conclude
<1>2. Locking(w)
  BY DEF Locking, Proceed, Open, Fill, WriteFails, Verify, TimeOut, VerifyRaises,
         Reopen, Refill, RestoreFails, Commit, Discard
<1>3. Wrote(f) => disk' = f.config
  <2>1. CASE Open(w) \/ WriteFails(w) \/ TimeOut(w)
    BY <1>0, <2>1 DEF Inv, TypeOK, Flows, Open, WriteFails, TimeOut, Conclude, Wrote
  <2>2. CASE Fill(w)
    BY <1>0, <2>2 DEF Inv, TypeOK, Flows, Fill, Goto
  <2>3. CASE Verify(w) \/ VerifyRaises(w)
    <3>1. disk' = disk /\ flow[w].stage = "written" /\ f.config = flow[w].config
      BY <1>0, <2>3 DEF Inv, TypeOK, Flows, Verify, VerifyRaises, Conclude, Goto
    <3> QED BY <3>1 DEF DiskInv, WrittenIsOnDisk, Wrote
  <2>4. CASE Reopen(w) \/ Refill(w) \/ RestoreFails(w)
    <3>1. flow[w].status = "failed"
      BY <1>0, <2>4 DEF Reopen, Refill, RestoreFails, SoundFlow, Decided
    <3>2. f.status = flow[w].status /\ f.stage # "written"
      BY <1>0, <2>4 DEF Inv, TypeOK, Flows, Reopen, Refill, RestoreFails, Goto
    <3> QED BY <3>1, <3>2 DEF Wrote
  <2>5. CASE Commit(w) \/ Discard(w)
    BY <1>0, <2>5, IdleSound DEF Inv, TypeOK, Commit, Discard, Wrote
  <2> QED BY <2>1, <2>2, <2>3, <2>4, <2>5 DEF Proceed
<1> HIDE DEF f
<1> QED BY <1>1, <1>2, <1>3, OneDeploys

\* A restart ends every deployment; edits by hand come between deployments.
LEMMA OthersWrite ==
  ASSUME DiskInv, Restart \/ Change \/ Edit \/ UNCHANGED vars
  PROVE  (Exclusive /\ WrittenIsOnDisk)'
<1>1. CASE Restart
  <2>1. \A v \in Workers : flow'[v] = Idle
    BY <1>1 DEF Restart
  <2> QED BY <2>1, IdleSound DEF Exclusive, Locking, WrittenIsOnDisk, Wrote
<1>2. CASE Edit
  <2>1. flow' = flow /\ \A v \in Workers : ~Wrote(flow[v])
    BY <1>2 DEF Edit, Unlocked, Locking, Wrote
  <2> QED BY <2>1 DEF DiskInv, Exclusive, Locking, WrittenIsOnDisk, Wrote
<1>3. CASE Change \/ UNCHANGED vars
  BY <1>3 DEF Change, vars, DiskInv, Exclusive, Locking, WrittenIsOnDisk, Wrote
<1> QED BY <1>1, <1>2, <1>3

\* DiskInv is an invariant.
LEMMA DiskInvariance == Spec => []DiskInv
<1>1. Init => DiskInv
  BY InitInv, IdleSound DEF Init, DiskInv, Exclusive, Locking, WrittenIsOnDisk, Wrote
<1>2. DiskInv /\ [Next]_vars => DiskInv'
  <2> SUFFICES ASSUME DiskInv, [Next]_vars PROVE DiskInv'
    OBVIOUS
  <2>1. Inv'
    BY NextInv DEF DiskInv
  <2>2. (Exclusive /\ WrittenIsOnDisk)'
    BY StartWrites, ProceedWrites, OthersWrite DEF Next, Workers
  <2> QED BY <2>1, <2>2 DEF DiskInv
<1> QED BY <1>1, <1>2, PTL DEF Spec

-----------------------------------------------------------------------------
(* The theorems *)

\* What UndecidedIsOnDisk says of one step.
UndecidedSteps ==
  \A w \in Workers :
    Commit(w) /\ flow[w].status \notin {"success", "failed"} =>
      w = Loop /\ flow[w].status = "applying" /\ disk = flow[w].config

\* Every variable has its type, whatever fails, crashes or is edited by hand:
\* no deployment without a configuration is ever recorded as one.
THEOREM TypeCorrect == Spec => []TypeOK
<1>1. Inv => TypeOK
  BY DEF Inv
<1> QED BY <1>1, Invariance, PTL

\* Only the loop commits a deployment without a decision, as "applying", and its
\* configuration is on disk then: whatever fails or crashes in between, and with
\* or without a master key, a failed write and a rollback are never left open.
THEOREM UndecidedAreOnDisk == Spec => UndecidedIsOnDisk
<1>1. DiskInv => UndecidedSteps
  <2> SUFFICES ASSUME DiskInv, NEW w \in Workers, Commit(w),
                      flow[w].status \notin {"success", "failed"}
               PROVE  w = Loop /\ flow[w].status = "applying" /\ disk = flow[w].config
    BY DEF UndecidedSteps
  <2>1. w = Loop /\ flow[w].stage = "done"
    BY DEF Commit
  <2>2. flow[w].status = "applying"
    BY <2>1 DEF DiskInv, Inv, SoundFlow, Decided
  <2> QED BY <2>1, <2>2 DEF DiskInv, WrittenIsOnDisk, Wrote
<1> QED BY <1>1, DiskInvariance, PTL DEF UndecidedIsOnDisk, UndecidedSteps

\* A rolled_back row has the content of a recorded success, although requests
\* and the loop deploy concurrently, fail and are rolled back themselves.
THEOREM RollbacksAreSuccesses == Spec => []RollbacksRestoreSuccess
<1>1. Inv => RollbacksRestoreSuccess
  BY DEF Inv
<1> QED BY <1>1, Invariance, PTL

\* However requests and the loop compete for the file, and whatever fails, a
\* deployment commits as its success what is on disk at that moment.
THEOREM SuccessesAreOnDisk == Spec => []VerifiedIsOnDisk
<1>1. DiskInv => VerifiedIsOnDisk
  BY DEF DiskInv, WrittenIsOnDisk, Wrote, VerifiedIsOnDisk, Delivered
<1> QED BY <1>1, DiskInvariance, PTL
==============================================================================
