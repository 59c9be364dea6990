------------------------- MODULE RolloutAtomicProofs -------------------------
(***************************************************************************)
(* Rollout implements RolloutAtomic, for every set of configurations and     *)
(* requests, when nothing fails but verifications, which find the node not    *)
(* ready in time and do not raise.                                           *)
(*                                                                         *)
(* Between deployments the file is the latest success, if there is one; so   *)
(* the two things a rollback may restore, the latest success and the backup, *)
(* are the same, and a deployment ends either with its own configuration and *)
(* a success or with the file it found.                                      *)
(***************************************************************************)
EXTENDS RolloutRefinement, RolloutProofs

\* What the holder of the lock has on disk at each stage.
Held(f) ==
  /\ f.backup \in Configs
  /\ last # NoConfig => f.backup = last
  /\ f.stage = "pending" => disk = f.backup
  /\ f.stage = "written" => disk = f.config
  /\ f.stage = "done" => /\ f.status \in {"success", "failed"}
                         /\ disk = IF f.status = "success" THEN f.config ELSE f.backup

AtomicInv ==
  /\ Inv
  /\ masterKey
  /\ \A v, w \in Workers : Locking(v) /\ Locking(w) => v = w
  /\ Unlocked => disk \in Configs /\ (last # NoConfig => disk = last)
  /\ \A w \in Workers : Locking(w) => Held(flow[w])

OnlyVerificationsFail == Faults = {} /\ FirstFile \in Configs /\ MasterKeys \subseteq {TRUE}

\* Under the invariant the CHOOSE of Settled is the one holder of the lock.
LEMMA SettledIs ==
  ASSUME AtomicInv
  PROVE  /\ \A w \in Workers : Locking(w) => Settled = flow[w].backup
         /\ Unlocked => Settled = disk
BY DEF AtomicInv, Settled, Unlocked

\* The same of the next state.
LEMMA SettledIsNext ==
  ASSUME AtomicInv'
  PROVE  /\ \A w \in Workers : Locking(w)' => Settled' = flow'[w].backup
         /\ Unlocked' => Settled' = disk'
BY DEF AtomicInv, Settled, Unlocked

-----------------------------------------------------------------------------
(* Three kinds of steps *)

\* A step of the holder that keeps the lock and what it depends on.
LEMMA HolderSteps ==
  ASSUME AtomicInv, Inv', NEW w \in Workers, NEW f \in Flows,
         Locking(w), flow' = [flow EXCEPT ![w] = f],
         f.stage \notin {"idle", "waiting"}, f.backup = flow[w].backup,
         Held(f)',
         UNCHANGED <<masterKey, last>>
  PROVE  AtomicInv' /\ Settled' = Settled /\ UNCHANGED last
<1>1. \A v \in Workers : flow'[v] = IF v = w THEN f ELSE flow[v]
  BY DEF AtomicInv, Inv, TypeOK
<1>2. \A v \in Workers : Locking(v)' <=> Locking(v)
  BY <1>1 DEF Locking
<1>3. \A v \in Workers : Locking(v)' => v = w
  BY <1>2 DEF AtomicInv
<1>4. AtomicInv'
  <2>1. ~Unlocked'
    BY <1>2 DEF Unlocked
  <2>2. \A v \in Workers : Locking(v)' => Held(flow[v])'
    BY <1>1, <1>3
  <2> QED BY <1>3, <2>1, <2>2 DEF AtomicInv
<1>5. Settled = flow[w].backup
  BY SettledIs
<1>6. Settled' = flow'[w].backup
  BY <1>2, <1>4, SettledIsNext
<1> QED BY <1>1, <1>4, <1>5, <1>6

\* A step of a worker that neither has nor takes the lock.
LEMMA OutsideSteps ==
  ASSUME AtomicInv, Inv', NEW w \in Workers, NEW f \in Flows,
         ~Locking(w), flow' = [flow EXCEPT ![w] = f],
         f.stage \in {"idle", "waiting"},
         UNCHANGED <<masterKey, disk, last>>
  PROVE  AtomicInv' /\ Settled' = Settled /\ UNCHANGED last
<1>1. \A v \in Workers : flow'[v] = IF v = w THEN f ELSE flow[v]
  BY DEF AtomicInv, Inv, TypeOK
<1>2. \A v \in Workers : Locking(v)' <=> Locking(v)
  BY <1>1 DEF Locking
<1>3. \A v \in Workers : Locking(v) => flow'[v] = flow[v]
  BY <1>1
<1>4. AtomicInv'
  <2>1. \A v \in Workers : Locking(v)' => Held(flow[v])'
    BY <1>2, <1>3 DEF AtomicInv, Held
  <2>2. Unlocked' <=> Unlocked
    BY <1>2 DEF Unlocked
  <2> QED BY <1>2, <2>1, <2>2 DEF AtomicInv
<1>5. CASE Unlocked
  <2>1. Unlocked'
    BY <1>2, <1>5 DEF Unlocked
  <2> QED BY <1>4, <1>5, <2>1, SettledIs, SettledIsNext
<1>6. CASE ~Unlocked
  <2>1. PICK v \in Workers : Locking(v)
    BY <1>6 DEF Unlocked
  <2> QED BY <1>2, <1>3, <1>4, <2>1, SettledIs, SettledIsNext
<1> QED BY <1>5, <1>6

\* A holder that ends leaves what it has on disk.
LEMMA LastSteps ==
  ASSUME AtomicInv, Inv', NEW w \in Workers, flow[w].stage = "done",
         flow' = [flow EXCEPT ![w] = Idle],
         last' = IF flow[w].status = "success" THEN flow[w].config ELSE last,
         UNCHANGED <<masterKey, disk>>
  PROVE  AtomicInv' /\ Settled = flow[w].backup /\ Settled' = disk
<1>1. \A v \in Workers : flow'[v] = IF v = w THEN Idle ELSE flow[v]
  BY DEF AtomicInv, Inv, TypeOK
<1>2. Locking(w)
  BY DEF Locking
<1>3. Unlocked'
  BY <1>1, <1>2, IdleSound DEF AtomicInv, Unlocked, Locking
<1>4. Held(flow[w]) /\ flow[w].config \in Configs
  BY <1>2, FlowFacts DEF AtomicInv, SoundFlow, Configured
<1>5. AtomicInv'
  BY <1>3, <1>4 DEF AtomicInv, Held, Unlocked
<1> QED BY <1>2, <1>3, <1>5, SettledIs, SettledIsNext

-----------------------------------------------------------------------------
(* Every step is a Publish or a stutter *)

\* Applying, verifying and rolling back do not change the settled file.
LEMMA ProceedStutters ==
  ASSUME OnlyVerificationsFail, AtomicInv, Inv', NEW w \in Workers,
         Proceed(w), ~Commit(w), ~Discard(w)
  PROVE  AtomicInv' /\ Settled' = Settled /\ UNCHANGED last
<1> USE FlowFacts
<1>0. /\ Inv /\ "io" \notin Faults /\ "raise" \notin Faults /\ masterKey
      /\ Locking(w) /\ flow[w] \in Flows
      /\ Held(flow[w]) /\ flow[w].config \in Configs
  BY DEF AtomicInv, OnlyVerificationsFail, Proceed, Locking, SoundFlow, Configured,
         Open, Fill, WriteFails, Verify, TimeOut, VerifyRaises, Reopen, Refill, RestoreFails
<1>1. Target(w) = flow[w].backup /\ Target(w) # NoConfig
  BY <1>0, ConfigsAssumption DEF Held, Target
<1>2. CASE Open(w)
  <2>1. PICK f \in Flows :
          /\ f = [flow[w] EXCEPT !.stage = "writing", !.status = "applying"]
          /\ f.stage = "writing" /\ f.backup = flow[w].backup
    <3> DEFINE g == [flow[w] EXCEPT !.stage = "writing", !.status = "applying"]
    <3>1. g \in Flows /\ g.stage = "writing" /\ g.backup = flow[w].backup
      BY <1>0 DEF Flows, Stages, RowStatuses
    <3> QED BY <3>1
  <2>2. flow' = [flow EXCEPT ![w] = f]
    BY <1>2, <2>1 DEF Open
  <2>3. Held(f)'
    BY <1>0, <1>2, <2>1 DEF Open, Held
  <2> QED BY <1>0, <1>2, <2>1, <2>2, <2>3, HolderSteps DEF Open
<1>3. CASE Fill(w)
  <2>1. PICK f \in Flows :
          /\ f = [flow[w] EXCEPT !.stage = "written"]
          /\ f.stage = "written" /\ f.backup = flow[w].backup /\ f.config = flow[w].config
    <3> DEFINE g == [flow[w] EXCEPT !.stage = "written"]
    <3>1. g \in Flows /\ g.stage = "written" /\ g.backup = flow[w].backup /\ g.config = flow[w].config
      BY <1>0 DEF Flows, Stages
    <3> QED BY <3>1
  <2>2. flow' = [flow EXCEPT ![w] = f]
    BY <1>3, <2>1 DEF Fill, Goto
  <2>3. Held(f)'
    BY <1>0, <1>3, <2>1 DEF Fill, Held
  <2> QED BY <1>0, <1>3, <2>1, <2>2, <2>3, HolderSteps DEF Fill
<1>4. CASE Verify(w)
  <2>1. PICK f \in Flows :
          /\ f = [flow[w] EXCEPT !.stage = "done", !.status = "success"]
          /\ f.stage = "done" /\ f.status = "success" /\ f.backup = flow[w].backup /\ f.config = flow[w].config
    <3> DEFINE g == [flow[w] EXCEPT !.stage = "done", !.status = "success"]
    <3>1. g \in Flows /\ g.stage = "done" /\ g.status = "success" /\ g.backup = flow[w].backup /\ g.config = flow[w].config
      BY <1>0 DEF Flows, Stages, RowStatuses
    <3> QED BY <3>1
  <2>2. flow' = [flow EXCEPT ![w] = f]
    BY <1>4, <2>1 DEF Verify, Conclude
  <2>3. Held(f)'
    BY <1>0, <1>4, <2>1 DEF Verify, Held
  <2> QED BY <1>0, <1>4, <2>1, <2>2, <2>3, HolderSteps DEF Verify
<1>5. CASE TimeOut(w)
  <2>1. PICK f \in Flows :
          /\ f = [flow[w] EXCEPT !.stage = "failed", !.status = "failed"]
          /\ f.stage = "failed" /\ f.backup = flow[w].backup
    <3> DEFINE g == [flow[w] EXCEPT !.stage = "failed", !.status = "failed"]
    <3>1. g \in Flows /\ g.stage = "failed" /\ g.backup = flow[w].backup
      BY <1>0 DEF Flows, Stages, RowStatuses
    <3> QED BY <3>1
  <2>2. flow' = [flow EXCEPT ![w] = f]
    BY <1>5, <2>1 DEF TimeOut
  <2>3. Held(f)'
    BY <1>0, <1>5, <2>1 DEF TimeOut, Held
  <2> QED BY <1>0, <1>5, <2>1, <2>2, <2>3, HolderSteps DEF TimeOut
<1>6. CASE Reopen(w)
  <2>1. PICK f \in Flows :
          /\ f = [flow[w] EXCEPT !.stage = "restoring"]
          /\ f.stage = "restoring" /\ f.backup = flow[w].backup
    <3> DEFINE g == [flow[w] EXCEPT !.stage = "restoring"]
    <3>1. g \in Flows /\ g.stage = "restoring" /\ g.backup = flow[w].backup
      BY <1>0 DEF Flows, Stages
    <3> QED BY <3>1
  <2>2. flow' = [flow EXCEPT ![w] = f]
    BY <1>1, <2>1, <1>6 DEF Reopen, Goto
  <2>3. Held(f)'
    BY <1>0, <1>6, <2>1 DEF Reopen, Held
  <2> QED BY <1>0, <1>6, <2>1, <2>2, <2>3, HolderSteps DEF Reopen
<1>7. CASE Refill(w)
  <2>1. PICK f \in Flows :
          /\ f = [flow[w] EXCEPT !.stage = "done", !.restored = last]
          /\ f.stage = "done" /\ f.backup = flow[w].backup /\ f.status = "failed"
    <3> DEFINE g == [flow[w] EXCEPT !.stage = "done", !.restored = last]
    <3>1. g \in Flows /\ g.stage = "done" /\ g.backup = flow[w].backup /\ g.status = "failed"
      BY <1>0, <1>7 DEF Refill, Inv, TypeOK, Flows, Stages, SoundFlow, Decided
    <3> QED BY <3>1
  <2>2. flow' = [flow EXCEPT ![w] = f]
    BY <1>7, <2>1 DEF Refill
  <2>3. Held(f)'
    BY <1>0, <1>1, <1>7, <2>1 DEF Refill, Held
  <2> QED BY <1>0, <1>7, <2>1, <2>2, <2>3, HolderSteps DEF Refill
<1> QED BY <1>0, <1>2, <1>3, <1>4, <1>5, <1>6, <1>7
        DEF Proceed, WriteFails, VerifyRaises, RestoreFails

\* Taking the lock fixes the settled file at what is on disk.
LEMMA BeginStutters ==
  ASSUME OnlyVerificationsFail, AtomicInv, Inv', NEW w \in Workers, Begin(w)
  PROVE  AtomicInv' /\ Settled' = Settled /\ UNCHANGED last
<1>1. /\ Unlocked
      /\ flow' = [flow EXCEPT ![w].stage = "pending", ![w].backup = disk,
                              ![w].config = IF w = Loop THEN desired ELSE @]
      /\ UNCHANGED <<masterKey, disk, last>>
  BY DEF Begin, OnlyVerificationsFail
<1>2. \A v \in Workers : v # w => flow'[v] = flow[v]
  BY <1>1 DEF AtomicInv, Inv, TypeOK
<1>3. flow'[w].stage = "pending" /\ flow'[w].backup = disk
  <2>1. flow[w] \in Flows
    BY FlowFacts DEF AtomicInv
  <2> QED BY <1>1, <2>1 DEF AtomicInv, Inv, TypeOK, Flows
<1>4. \A v \in Workers : Locking(v)' <=> v = w
  BY <1>1, <1>2, <1>3 DEF Locking, Unlocked
<1>5. AtomicInv'
  BY <1>1, <1>3, <1>4 DEF AtomicInv, Held, Unlocked
<1> QED BY <1>1, <1>3, <1>4, <1>5, SettledIs, SettledIsNext

\* Every step keeps the invariant, and it publishes or changes nothing.
LEMMA Steps ==
  ASSUME OnlyVerificationsFail, AtomicInv, Inv', [Next]_vars
  PROVE  AtomicInv' /\ [\E c \in Configs : Settled' = c /\ last' = c]_<<Settled, last>>
<1>0. Inv /\ Faults = {}
  BY DEF AtomicInv, OnlyVerificationsFail
<1>1. ASSUME NEW w \in Workers, Generate(w) \/ GiveUp(w) \/ (w = Loop /\ Detect)
      PROVE  AtomicInv' /\ Settled' = Settled /\ UNCHANGED last
  <2>1. ~Locking(w)
    BY <1>1 DEF Locking, Generate, GiveUp, Detect
  <2>2. PICK f \in Flows : flow' = [flow EXCEPT ![w] = f] /\ f.stage \in {"idle", "waiting"}
    <3>1. flow[w] \in Flows /\ desired \in Configs
      BY <1>0, FlowFacts DEF Inv, TypeOK
    <3>2. CASE Generate(w)
      <4> DEFINE f == [flow[w] EXCEPT !.stage = "waiting", !.config = desired]
      <4>1. f \in Flows /\ f.stage = "waiting" /\ flow' = [flow EXCEPT ![w] = f]
        BY <3>1, <3>2 DEF Generate, Flows, Stages
      <4> QED BY <4>1
    <3>3. CASE GiveUp(w)
      BY <3>3, IdleSound DEF GiveUp
    <3>4. CASE w = Loop /\ Detect
      <4> DEFINE f == [flow[w] EXCEPT !.stage = "waiting"]
      <4>1. f \in Flows /\ f.stage = "waiting" /\ flow' = [flow EXCEPT ![w] = f]
        BY <3>1, <3>4 DEF Detect, Goto, Flows, Stages
      <4> QED BY <4>1
    <3> QED BY <1>1, <3>2, <3>3, <3>4
  <2>3. UNCHANGED <<masterKey, disk, last>>
    BY <1>1 DEF Generate, GiveUp, Detect
  <2> QED BY <2>1, <2>2, <2>3, OutsideSteps
<1>2. ASSUME NEW w \in Workers, Commit(w)
      PROVE  AtomicInv' /\ [\E c \in Configs : Settled' = c /\ last' = c]_<<Settled, last>>
  <2>1. AtomicInv' /\ Settled = flow[w].backup /\ Settled' = disk
    BY <1>2, LastSteps DEF Commit
  <2>2. Held(flow[w]) /\ flow[w].config \in Configs
    BY <1>0, <1>2, FlowFacts DEF AtomicInv, Commit, Locking, SoundFlow, Configured
  <2> QED BY <1>2, <2>1, <2>2 DEF Commit, Held
<1>3. ASSUME NEW w \in Workers, Discard(w)
      PROVE  AtomicInv' /\ Settled' = Settled /\ UNCHANGED last
  <2>1. flow[w].stage = "done" /\ flow[w].status # "success"
    BY <1>0, <1>3 DEF Discard
  <2>2. AtomicInv' /\ Settled = flow[w].backup /\ Settled' = disk
    BY <1>3, <2>1, LastSteps DEF Discard
  <2>3. Held(flow[w])
    BY <2>1 DEF AtomicInv, Locking
  <2> QED BY <1>3, <2>1, <2>2, <2>3 DEF Discard, Held
<1>4. CASE Change \/ UNCHANGED vars
  <2>1. UNCHANGED <<masterKey, disk, last, flow>>
    BY <1>4 DEF Change, vars
  <2> QED BY <2>1 DEF AtomicInv, Settled, Unlocked, Locking, Held
<1>5. ~Restart /\ ~Edit
  BY <1>0 DEF Restart, Edit
<1>6. Detect => Loop \in Workers
  BY DEF Workers
<1> QED BY <1>1, <1>2, <1>3, <1>4, <1>5, <1>6, BeginStutters, ProceedStutters DEF Next

-----------------------------------------------------------------------------
\* When verifications may find the node not ready but do not raise, nothing else
\* fails, there was a file at first and the master key is set, every deployment,
\* whether it succeeds or is rolled back, and however requests and the loop
\* compete, changes the file and the record of the latest success together or
\* not at all.
THEOREM DeploymentsAreAtomic == OnlyVerificationsFail /\ Spec => DeploysAreAtomic
<1>1. OnlyVerificationsFail /\ Init => AtomicInv /\ Atomic!Init
  <2> SUFFICES ASSUME OnlyVerificationsFail, Init PROVE AtomicInv /\ Atomic!Init
    OBVIOUS
  <2>1. Inv
    BY InitInv
  <2>2. Unlocked /\ \A w \in Workers : ~Locking(w)
    BY IdleSound DEF Init, Unlocked, Locking
  <2>3. AtomicInv
    BY <2>1, <2>2 DEF Init, AtomicInv, OnlyVerificationsFail
  <2> QED BY <2>2, <2>3, SettledIs DEF Init, Atomic!Init
<1>2. OnlyVerificationsFail /\ AtomicInv /\ [Next]_vars
        => AtomicInv' /\ [Atomic!Next]_<<Settled, last>>
  <2> SUFFICES ASSUME OnlyVerificationsFail, AtomicInv, [Next]_vars
               PROVE  AtomicInv' /\ [Atomic!Next]_<<Settled, last>>
    OBVIOUS
  <2>1. Inv'
    BY NextInv DEF AtomicInv
  <2> QED BY <2>1, Steps DEF Atomic!Next, Atomic!Publish
<1>3. OnlyVerificationsFail => []OnlyVerificationsFail
  <2>1. OnlyVerificationsFail => OnlyVerificationsFail'
    BY DEF OnlyVerificationsFail
  <2> QED BY <2>1, PTL
<1> QED BY <1>1, <1>2, <1>3, PTL DEF Spec, DeploysAreAtomic, Atomic!Spec
==============================================================================
