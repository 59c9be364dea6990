------------------------------- MODULE Rollout -------------------------------
(***************************************************************************)
(* Deployments of the configuration of one node: generate, apply, verify,    *)
(* roll back (RolloutOrchestrator), run by API requests and by the drift      *)
(* check of the background loop.                                             *)
(*                                                                         *)
(* A deployment works on three things that fail separately: the file on      *)
(* disk, which changes at once; the rows of `rollouts', which the deployment *)
(* sees but everybody else only after its commit; and node_config_paths,     *)
(* the path the loop needs, which is only in memory.  Its first INSERT takes *)
(* the database's write lock, which it keeps to its end, so that one         *)
(* deployment at a time touches the file.                                    *)
(*                                                                         *)
(* Abstractions: a configuration is a value; of the rows of `rollouts' only  *)
(* their contents and statuses are kept and which success is the latest; one *)
(* node with one path; what the loop does about virtual keys is in KeySync.  *)
(***************************************************************************)
CONSTANTS
  Configs,       \* the configurations the generator may produce
  NoConfig,      \* no file, no backup, no rollout
  Torn,          \* a file that was truncated and not written
  Requests,      \* API requests in flight at a time
  Loop,          \* the reconcile worker
  FirstFile,     \* what is on disk before the first deployment
  MasterKeys,    \* whether LITELLM_MASTER_KEY may be set, may be missing, or both
  Faults         \* what may go wrong: "io", "raise", "crash"; and "edit" by hand

Workers == Requests \cup {Loop}

ASSUME ConfigsAssumption ==
  /\ NoConfig \notin Configs /\ Torn \notin Configs /\ NoConfig # Torn
  /\ FirstFile \in Configs \cup {NoConfig}

ASSUME RunAssumption ==
  /\ Loop \notin Requests
  /\ MasterKeys \subseteq BOOLEAN
  /\ Faults \subseteq {"io", "raise", "crash", "edit"}

VARIABLES
  masterKey,  \* the master key of the node is set, for as long as we look
  desired,    \* what generate_config returns now
  disk,       \* the content of config_filepath
  last,       \* the content of the latest committed success
  logged,     \* the committed rows of `rollouts'
  known,      \* node_config_paths has the path
  flow        \* how far each worker is, with its uncommitted row

vars == <<masterKey, desired, disk, last, logged, known, flow>>

Stages == {"idle", "waiting", "pending", "writing", "written", "failed", "restoring", "done"}

RowStatuses == {"pending", "applying", "success", "failed", "rolled_back"}

Contents == Configs \cup {NoConfig, Torn}

\* restored is the content of the rolled_back row, if there is one.
Flows == [stage : Stages, config : Configs \cup {NoConfig}, backup : Contents,
          status : RowStatuses, restored : Configs \cup {NoConfig}]

Idle == [stage |-> "idle", config |-> NoConfig, backup |-> NoConfig,
         status |-> "pending", restored |-> NoConfig]

Locking(w) == flow[w].stage \notin {"idle", "waiting"}

Unlocked == \A w \in Workers : ~Locking(w)

\* The file was written and nothing has failed since.
Delivered(w) ==
  \/ flow[w].stage = "written"
  \/ flow[w].stage = "done" /\ flow[w].status = "success"

\* The row of the deployment and that of its rollback.
Rows(w) ==
  {[config |-> flow[w].config, status |-> flow[w].status]}
    \cup {[config |-> c, status |-> "rolled_back"] : c \in {flow[w].restored} \ {NoConfig}}

\* What a rollback writes back.
Target(w) == IF last # NoConfig THEN last ELSE flow[w].backup

Goto(w, stage) == flow' = [flow EXCEPT ![w].stage = stage]

Conclude(w, status) == flow' = [flow EXCEPT ![w].stage = "done", ![w].status = status]

-----------------------------------------------------------------------------
(* Starting a deployment *)

\* POST /rollouts/deploy/{node_id}: the configuration is generated, without a lock.
Generate(w) ==
  /\ w \in Requests /\ flow[w].stage = "idle"
  /\ flow' = [flow EXCEPT ![w].stage = "waiting", ![w].config = desired]
  /\ UNCHANGED <<masterKey, desired, disk, last, logged, known>>

\* Wrong on purpose: drift from the latest success instead of the desired state.
DetectAgainstLast ==
  /\ flow[Loop].stage = "idle" /\ known /\ disk # last
  /\ Goto(Loop, "waiting")
  /\ UNCHANGED <<masterKey, desired, disk, last, logged, known>>

\* reconcile_node: detect_drift compares the file with a fresh configuration.
Detect ==
  /\ flow[Loop].stage = "idle" /\ known /\ disk # desired
  /\ Goto(Loop, "waiting")
  /\ UNCHANGED <<masterKey, desired, disk, last, logged, known>>

\* Wrong on purpose: create_rollout does not wait for the lock.
BeginUnlocked(w) ==
  /\ flow[w].stage = "waiting"
  /\ flow' = [flow EXCEPT ![w].stage = "pending", ![w].backup = disk,
                          ![w].config = IF w = Loop THEN desired ELSE @]
  /\ UNCHANGED <<masterKey, desired, disk, last, logged, known>>

\* The lock is taken, by create_rollout or, in the loop, by log_audit before
\* the configuration is generated.  The backup may turn out unreadable.
Begin(w) ==
  /\ flow[w].stage = "waiting" /\ Unlocked
  /\ \E backup \in {disk} \cup (IF "io" \in Faults THEN {NoConfig} ELSE {}) :
       flow' = [flow EXCEPT ![w].stage = "pending", ![w].backup = backup,
                            ![w].config = IF w = Loop THEN desired ELSE @]
  /\ UNCHANGED <<masterKey, desired, disk, last, logged, known>>

\* Generation fails, or the lock is not free for ten seconds.
GiveUp(w) ==
  /\ flow[w].stage = "waiting"
  /\ flow' = [flow EXCEPT ![w] = Idle]
  /\ UNCHANGED <<masterKey, desired, disk, last, logged, known>>

-----------------------------------------------------------------------------
(* Apply *)

\* The row becomes "applying"; opening the file for writing truncates it.
Open(w) ==
  /\ flow[w].stage = "pending"
  /\ flow' = [flow EXCEPT ![w].stage = "writing", ![w].status = "applying"]
  /\ disk' = Torn
  /\ known' = TRUE
  /\ UNCHANGED <<masterKey, desired, last, logged>>

Fill(w) ==
  /\ flow[w].stage = "writing"
  /\ disk' = flow[w].config
  /\ Goto(w, "written")
  /\ UNCHANGED <<masterKey, desired, last, logged, known>>

\* Wrong on purpose: the row is not marked as failed.
WriteFailsUnrecorded(w) ==
  /\ "io" \in Faults
  /\ flow[w].stage \in {"pending", "writing"}
  /\ Conclude(w, "applying")
  /\ known' = TRUE
  /\ UNCHANGED <<masterKey, desired, disk, last, logged>>

\* The directory, the open or the write fails; the file stays as it is then.
WriteFails(w) ==
  /\ "io" \in Faults
  /\ flow[w].stage \in {"pending", "writing"}
  /\ Conclude(w, "failed")
  /\ known' = TRUE
  /\ UNCHANGED <<masterKey, desired, disk, last, logged>>

-----------------------------------------------------------------------------
(* Verify *)

Verify(w) ==
  /\ flow[w].stage = "written" /\ masterKey
  /\ Conclude(w, "success")
  /\ UNCHANGED <<masterKey, desired, disk, last, logged, known>>

TimeOut(w) ==
  /\ flow[w].stage = "written" /\ masterKey
  /\ flow' = [flow EXCEPT ![w].stage = "failed", ![w].status = "failed"]
  /\ UNCHANGED <<masterKey, desired, disk, last, logged, known>>

\* get_node_master_key finds no key, or check_health raises what it does not
\* catch, such as httpx.InvalidURL for the host of the node.
VerifyRaises(w) ==
  /\ flow[w].stage = "written"
  /\ ~masterKey \/ "raise" \in Faults
  /\ Goto(w, "done")
  /\ UNCHANGED <<masterKey, desired, disk, last, logged, known>>

-----------------------------------------------------------------------------
(* Roll back *)

\* Wrong on purpose: a failed verification is not rolled back.
ReopenNothing(w) ==
  /\ flow[w].stage = "failed"
  /\ Goto(w, "done")
  /\ UNCHANGED <<masterKey, desired, disk, last, logged, known>>

\* Without a previous success and without a backup the file is left alone.
Reopen(w) ==
  /\ flow[w].stage = "failed"
  /\ IF Target(w) = NoConfig
     THEN Goto(w, "done") /\ UNCHANGED disk
     ELSE Goto(w, "restoring") /\ disk' = Torn
  /\ UNCHANGED <<masterKey, desired, last, logged, known>>

\* Wrong on purpose: the backup is restored and recorded, whatever it was.
RefillFromBackup(w) ==
  /\ flow[w].stage = "restoring"
  /\ disk' = flow[w].backup
  /\ flow' = [flow EXCEPT ![w].stage = "done", ![w].restored = flow[w].backup]
  /\ UNCHANGED <<masterKey, desired, last, logged, known>>

\* Restoring a success adds the rolled_back row; restoring the backup does not.
Refill(w) ==
  /\ flow[w].stage = "restoring"
  /\ disk' = Target(w)
  /\ flow' = [flow EXCEPT ![w].stage = "done", ![w].restored = last]
  /\ UNCHANGED <<masterKey, desired, last, logged, known>>

\* Errors of the rollback are swallowed.
RestoreFails(w) ==
  /\ "io" \in Faults
  /\ flow[w].stage \in {"failed", "restoring"}
  /\ Target(w) # NoConfig
  /\ Goto(w, "done")
  /\ UNCHANGED <<masterKey, desired, disk, last, logged, known>>

-----------------------------------------------------------------------------
(* The end of the transaction *)

\* get_db commits.  A failed deployment gets there only in the loop, where
\* reconcile_node catches its exception.
Commit(w) ==
  /\ flow[w].stage = "done"
  /\ flow[w].status = "success" \/ w = Loop
  /\ logged' = logged \cup Rows(w)
  /\ last' = IF flow[w].status = "success" THEN flow[w].config ELSE last
  /\ flow' = [flow EXCEPT ![w] = Idle]
  /\ UNCHANGED <<masterKey, desired, disk, known>>

\* get_db rolls back: for the exception the API makes of a failed deployment,
\* or because the commit itself fails.
Discard(w) ==
  /\ flow[w].stage = "done"
  /\ (flow[w].status # "success" /\ w # Loop) \/ "io" \in Faults
  /\ flow' = [flow EXCEPT ![w] = Idle]
  /\ UNCHANGED <<masterKey, desired, disk, last, logged, known>>

\* The control plane dies and is started again: transactions are rolled back
\* and node_config_paths is empty.
Restart ==
  /\ "crash" \in Faults
  /\ flow' = [w \in Workers |-> Idle]
  /\ known' = FALSE
  /\ UNCHANGED <<masterKey, desired, disk, last, logged>>

-----------------------------------------------------------------------------
(* The environment *)

\* A change of the registry, of health or of a secret.
Change ==
  /\ desired' \in Configs
  /\ UNCHANGED <<masterKey, disk, last, logged, known, flow>>

\* Somebody edits or removes the file on the node.  An edit while a deployment
\* runs is overwritten or is as good as an edit right after it.
Edit ==
  /\ "edit" \in Faults /\ Unlocked
  /\ disk' \in Configs \cup {NoConfig}
  /\ UNCHANGED <<masterKey, desired, last, logged, known, flow>>

Init ==
  /\ masterKey \in MasterKeys
  /\ desired \in Configs
  /\ disk = FirstFile
  /\ last = NoConfig
  /\ logged = {}
  /\ known = FALSE
  /\ flow = [w \in Workers |-> Idle]

\* The steps of a deployment that holds the lock.
Proceed(w) ==
  \/ Open(w) \/ Fill(w) \/ WriteFails(w)
  \/ Verify(w) \/ TimeOut(w) \/ VerifyRaises(w)
  \/ Reopen(w) \/ Refill(w) \/ RestoreFails(w)
  \/ Commit(w) \/ Discard(w)

Next ==
  \/ \E w \in Workers : Generate(w) \/ Begin(w) \/ GiveUp(w) \/ Proceed(w)
  \/ Detect
  \/ Restart
  \/ Change
  \/ Edit

Spec == Init /\ [][Next]_vars

\* A running deployment proceeds.  The loop comes round every 30 seconds, and at
\* some of its rounds nobody holds the lock; it gets the lock now and then; and
\* some of its deployments can write the file and find the node ready.
FairSpec ==
  /\ Spec
  /\ \A w \in Workers : WF_vars(Proceed(w))
  /\ SF_vars(Detect /\ Unlocked) /\ SF_vars(Begin(Loop))
  /\ SF_vars(Open(Loop)) /\ SF_vars(Fill(Loop)) /\ SF_vars(Verify(Loop))

-----------------------------------------------------------------------------
(* Properties that hold *)

TypeOK ==
  /\ masterKey \in BOOLEAN /\ known \in BOOLEAN
  /\ desired \in Configs /\ disk \in Contents
  /\ last \in Configs \cup {NoConfig}
  /\ logged \subseteq [config : Configs, status : RowStatuses]
  /\ flow \in [Workers -> Flows]

\* A rolled_back row always has the content of some recorded success, never
\* that of a backup, of a hand-edited file or of a failed deployment.
RollbacksRestoreSuccess ==
  \A r \in logged : r.status = "rolled_back" =>
    [config |-> r.config, status |-> "success"] \in logged

\* What a deployment has verified is on disk when it is committed as a success,
\* although the file is written long before the commit, and requests and the
\* loop write and restore the same file.  (Edits by hand during a deployment are
\* taken to come after it: see Edit.)
VerifiedIsOnDisk == \A w \in Workers : Delivered(w) => disk = flow[w].config

\* A deployment is committed without a decision only by the loop, as "applying",
\* after its verification raised; and then its configuration is on disk.  So what
\* the record leaves open is never whether the write or the rollback has failed,
\* although the row is written several times and an exception may end the
\* deployment after each, and a crash at any time.
UndecidedIsOnDisk ==
  [][\A w \in Workers :
       Commit(w) /\ flow[w].status \notin {"success", "failed"} =>
         w = Loop /\ flow[w].status = "applying" /\ disk = flow[w].config]_vars

\* Once the configuration stays the same and the path stays known, the loop puts
\* that configuration on disk, again after every manual edit, every failure of
\* its own and every request that deploys an older configuration, generated
\* before it got the lock.  (It need not ever be verified: a verification that
\* raises leaves the file, and the loop then sees no drift.)
DriftIsRepaired ==
  \A c \in Configs : <>[](desired = c /\ known) => []<>(disk = c /\ Unlocked)
==============================================================================
