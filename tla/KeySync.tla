------------------------------- MODULE KeySync -------------------------------
(***************************************************************************)
(* Virtual keys of the consumers: the rows of `consumer_keys' and the keys   *)
(* the proxies honour, kept in step by API requests (create, update, delete  *)
(* a consumer) and by the drift check of the background loop.                *)
(*                                                                         *)
(* Every node is called over HTTP in the middle of a transaction.  What a    *)
(* proxy did stays done when the transaction is rolled back, a proxy may do  *)
(* what it was asked and the answer be lost, and the calls a request makes   *)
(* before its first write are made without the database's write lock.        *)
(*                                                                         *)
(* Abstractions: models, budgets and limits of a key are left out; the nodes *)
(* are those that are active proxies; keys are numbered per consumer and     *)
(* node, and a number that only a forgotten key bears may be used again.     *)
(***************************************************************************)
EXTENDS Naturals

CONSTANTS
  Consumers, Nodes,
  Watched,       \* the nodes whose config path the loop knows
  Keys,
  Placeholder,   \* "pending-key-...": there is no key at the node
  NoKey,
  Requests,      \* API requests in flight at a time
  Loop,          \* the reconcile worker
  Answers,       \* how calls of each node may end: done, done but the answer
                 \* lost, refused; and "unset" when it has no master key
  MaxRestarts    \* bound on the restarts of the control plane

Workers == Requests \cup {Loop}

ASSUME KeysAssumption ==
  /\ Placeholder \notin Keys /\ NoKey \notin Keys /\ Placeholder # NoKey
  /\ Watched \subseteq Nodes
  /\ Loop \notin Requests
  /\ Answers \in [Nodes -> SUBSET {"done", "lost", "refused", "unset"}]
  /\ MaxRestarts \in Nat
  /\ Consumers # {} /\ Nodes # {}   \* so that an idle worker has values

VARIABLES
  db,       \* consumers.status and consumer_keys, as committed
  view,     \* the same as the holder of the write lock sees it
  live,     \* the keys each node honours
  flow,     \* what each worker is doing
  restarts

vars == <<db, view, live, flow, restarts>>

ConsumerStatuses == {"absent", "active", "disabled"}

Row(key, status) == [key |-> key, status |-> status]
NoRow == Row(NoKey, "none")
KeyRows == [key : Keys \cup {Placeholder}, status : {"active", "pending-sync"}] \cup {NoRow}

Databases == [status : [Consumers -> ConsumerStatuses],
              rows   : [Consumers -> [Nodes -> KeyRows]]]

\* The write that follows a call.
Call(do, n, key) == [do |-> do, node |-> n, key |-> key]
NoCalls == [do : {"none"}, node : Nodes, key : {NoKey}]
Calls == [do : {"insert", "replace"}, node : Nodes, key : Keys \cup {Placeholder}]
           \cup [do : {"suspend", "remove"}, node : Nodes, key : {NoKey}]

None == CHOOSE n \in Nodes : TRUE
NoCall == Call("none", None, NoKey)
NoRows == [n \in Nodes |-> NoRow]

\* What a request wants of its consumer: a status, the deletion, other columns
\* (its status kept), or nothing but a synchronization (the same); and whether
\* the last transaction of an idle worker was committed (done).
Wants == {"active", "disabled", "absent", "kept", "same", "done", "nothing"}

\* A worker synchronizes the key of `consumer' to the nodes `todo', or revokes
\* the keys it saw in `seen'; the loop does so for the consumers that its drift
\* check found to be missing or orphaned on one node.
Flows == [op : {"idle", "sync", "revoke", "detect", "reconcile"}, locked : BOOLEAN,
          consumer : Consumers, wants : Wants,
          todo : SUBSET Nodes, seen : [Nodes -> KeyRows],
          call : NoCalls \cup Calls, node : Nodes,
          missing : SUBSET Consumers, orphaned : SUBSET Consumers]

Idle == [op |-> "idle", locked |-> FALSE, consumer |-> CHOOSE c \in Consumers : TRUE,
         wants |-> "nothing", todo |-> {}, seen |-> NoRows, call |-> NoCall, node |-> None,
         missing |-> {}, orphaned |-> {}]

\* A worker whose transaction was committed; nobody asks it of the loop.
Finished(w) == IF w = Loop THEN Idle ELSE [Idle EXCEPT !.wants = "done"]

Unlocked == \A w \in Workers : ~flow[w].locked

\* The lock is w's, or free for it.
MayWrite(w) == flow[w].locked \/ Unlocked

Sees(w) == IF flow[w].locked THEN view ELSE db

\* No node and no row is left to synchronize or to revoke.
Done(w) ==
  flow[w].call = NoCall /\ flow[w].todo = {} /\ flow[w].seen = NoRows

-----------------------------------------------------------------------------
(* Ends of a transaction *)

Commit(w) ==
  /\ db' = Sees(w)
  /\ flow' = [flow EXCEPT ![w] = Finished(w)]
  /\ UNCHANGED <<view, live, restarts>>

Rollback(w) ==
  /\ view' = IF flow[w].locked THEN db ELSE view
  /\ flow' = [flow EXCEPT ![w] = Idle]
  /\ UNCHANGED <<db, live, restarts>>

\* Wrong on purpose: a request keeps what it did before an exception, as the loop.
RaiseCommitted(w) == Commit(w)

\* An exception is a rollback for a request; reconcile_node catches it, and what
\* it did until then is committed.
Raise(w) == IF w = Loop THEN Commit(w) ELSE Rollback(w)

-----------------------------------------------------------------------------
(* Requests *)

Start(w, op, c, wants, locked) ==
  flow' = [flow EXCEPT ![w] = [Idle EXCEPT !.op = op, !.consumer = c,
             !.wants = wants, !.locked = locked,
             !.todo = IF op = "sync" THEN Nodes ELSE {},
             !.seen = IF op = "revoke" THEN db.rows[c] ELSE NoRows]]

\* POST /registry/consumers: the INSERT takes the lock.
CreateConsumer(w, c, s) ==
  /\ flow[w].op = "idle" /\ Unlocked
  /\ db.status[c] = "absent"
  /\ view' = [db EXCEPT !.status[c] = s]
  /\ Start(w, "sync", c, s, TRUE)
  /\ UNCHANGED <<db, live, restarts>>

\* Wrong on purpose: a status that was left out is taken for the default.
UpdateToDefault(w, c, s) ==
  /\ flow[w].op = "idle" /\ Unlocked
  /\ db.status[c] # "absent"
  /\ view' = [db EXCEPT !.status[c] = IF s = "kept" THEN "active" ELSE s]
  /\ Start(w, "sync", c, s, TRUE)
  /\ UNCHANGED <<db, live, restarts>>

\* PATCH /registry/consumers/{id} with some fields; the status may be one, else
\* it is kept.
UpdateConsumer(w, c, s) ==
  /\ flow[w].op = "idle" /\ Unlocked
  /\ db.status[c] # "absent"
  /\ view' = IF s = "kept" THEN db ELSE [db EXCEPT !.status[c] = s]
  /\ Start(w, "sync", c, s, TRUE)
  /\ UNCHANGED <<db, live, restarts>>

\* PATCH with an empty body: nothing is written before the synchronization.
ResyncConsumer(w, c) ==
  /\ flow[w].op = "idle"
  /\ db.status[c] # "absent"
  /\ Start(w, "sync", c, "same", FALSE)
  /\ UNCHANGED <<db, view, live, restarts>>

\* DELETE /registry/consumers/{id}: the keys are listed without the lock.
DeleteConsumer(w, c) ==
  /\ flow[w].op = "idle"
  /\ db.status[c] # "absent"
  /\ Start(w, "revoke", c, "absent", FALSE)
  /\ UNCHANGED <<db, view, live, restarts>>

\* A write of its own is next: that after a call, the deletion, or the record of
\* the drift.
IsWriting(w) ==
  \/ flow[w].call # NoCall
  \/ flow[w].op = "revoke" /\ Done(w)
  \/ flow[w].op = "reconcile"

\* The lock is not free for ten seconds.
TimeOut(w) ==
  /\ IsWriting(w) /\ ~flow[w].locked /\ ~Unlocked
  /\ flow[w].call.do # "replace"
  /\ Rollback(w)

\* The recovery of a pending row takes that for a refusal of the node; the key it
\* has generated is forgotten, and the synchronization goes on.
RecoverLater(w) ==
  /\ flow[w].call.do = "replace" /\ ~flow[w].locked /\ ~Unlocked
  /\ flow' = [flow EXCEPT ![w].call = NoCall]
  /\ UNCHANGED <<db, view, live, restarts>>

-----------------------------------------------------------------------------
(* sync_consumer_to_all_nodes *)

\* A key that no row, in either view, and no worker knows of.
Fresh(c, n, k) ==
  /\ k # db.rows[c][n].key /\ k # view.rows[c][n].key
  /\ \A v \in Workers : flow[v].consumer = c =>
       k # flow[v].seen[n].key /\ ~(flow[v].call.node = n /\ flow[v].call.key = k)

Called(w, n, call) ==
  flow' = [flow EXCEPT ![w].todo = @ \ {n}, ![w].call = call]

\* generate_key, without a row or to recover a pending one.
GenerateKey(w, n, answer) ==
  LET c == flow[w].consumer
      row == Sees(w).rows[c][n]
  IN  /\ row.status # "active"
      /\ IF answer \in {"done", "lost"}
         THEN \E k \in Keys :
                /\ Fresh(c, n, k)
                /\ live' = [live EXCEPT ![c][n] = @ \cup {k}]
                /\ Called(w, n, IF answer = "done"
                                THEN Call(IF row = NoRow THEN "insert" ELSE "replace", n, k)
                                ELSE IF row = NoRow THEN Call("insert", n, Placeholder) ELSE NoCall)
         ELSE /\ Called(w, n, IF row = NoRow THEN Call("insert", n, Placeholder) ELSE NoCall)
              /\ UNCHANGED live

\* update_key; a proxy refuses it for a key it does not know.
UpdateKey(w, n, answer) ==
  LET row == Sees(w).rows[flow[w].consumer][n]
  IN  /\ row.status = "active"
      /\ answer = "done" => row.key \in live[flow[w].consumer][n]
      /\ Called(w, n, IF answer = "done" THEN NoCall ELSE Call("suspend", n, NoKey))
      /\ UNCHANGED live

SyncNode(w, n, answer) ==
  /\ flow[w].op = "sync" /\ flow[w].call = NoCall /\ n \in flow[w].todo
  /\ IF answer = "unset" THEN Raise(w)
     ELSE /\ GenerateKey(w, n, answer) \/ UpdateKey(w, n, answer)
          /\ UNCHANGED <<db, view, restarts>>

-----------------------------------------------------------------------------
(* delete_consumer_from_all_nodes, and the orphans of reconcile_node *)

\* delete_key; its result is ignored.  Not called for a row that is pending.
RevokeNode(w, n, answer) ==
  LET c == flow[w].consumer
      row == flow[w].seen[n]
  IN  /\ flow[w].op = "revoke" /\ flow[w].call = NoCall /\ row # NoRow
      /\ IF answer = "unset" /\ row.status = "active" THEN Raise(w)
         ELSE /\ live' = IF row.status = "active" /\ answer \in {"done", "lost"}
                         THEN [live EXCEPT ![c][n] = @ \ {row.key}] ELSE live
              /\ flow' = [flow EXCEPT ![w].seen[n] = NoRow, ![w].call = Call("remove", n, NoKey)]
              /\ UNCHANGED <<db, view, restarts>>

-----------------------------------------------------------------------------
(* The write after a call *)

\* Wrong on purpose: the insert does not mind a consumer that is gone.
ViolatesWithoutReference(tables, c, call) ==
  call.do = "insert" /\ tables.rows[c][call.node] # NoRow

\* The INSERT meets its primary key or its foreign key.
Violates(tables, c, call) ==
  call.do = "insert" /\ (tables.rows[c][call.node] # NoRow \/ tables.status[c] = "absent")

\* Wrong on purpose: a key that could not be generated is stored as active.
ResultAlwaysActive(row, call) ==
  CASE call.do = "insert"  -> Row(call.key, "active")
    [] call.do = "replace" -> Row(call.key, "active")
    [] call.do = "suspend" -> [row EXCEPT !.status = "pending-sync"]
    [] call.do = "remove"  -> NoRow

\* Wrong on purpose: a key that could not be generated leaves a row without one.
ResultKeyless(row, call) ==
  IF call.do = "insert" /\ call.key = Placeholder THEN Row(NoKey, "pending-sync")
  ELSE ResultAlwaysActive(row, call)

\* create_consumer_key, update_consumer_key, update_consumer_key_status and
\* delete_consumer_key.
Result(row, call) ==
  CASE call.do = "insert"  -> Row(call.key, IF call.key = Placeholder
                                            THEN "pending-sync" ELSE "active")
    [] call.do = "replace" -> Row(call.key, "active")
    [] call.do = "suspend" -> [row EXCEPT !.status = "pending-sync"]
    [] call.do = "remove"  -> NoRow

\* All but the insert look first whether the row is still there, and write
\* nothing when it is not.
Write(w) ==
  LET c == flow[w].consumer
      call == flow[w].call
      row == Sees(w).rows[c][call.node]
  IN  /\ call # NoCall
      /\ IF call.do # "insert" /\ row = NoRow
         THEN /\ flow' = [flow EXCEPT ![w].call = NoCall]
              /\ UNCHANGED <<db, view, live, restarts>>
         ELSE /\ MayWrite(w)
              /\ IF Violates(Sees(w), c, call) THEN Raise(w)
                 ELSE /\ view' = [Sees(w) EXCEPT !.rows[c][call.node] = Result(row, call)]
                      /\ flow' = [flow EXCEPT ![w].call = NoCall, ![w].locked = TRUE]
                      /\ UNCHANGED <<db, live, restarts>>

FinishSync(w) ==
  /\ w # Loop /\ flow[w].op = "sync" /\ Done(w)
  /\ Commit(w)

\* DELETE FROM consumers, which cascades to its keys, and the commit.
FinishDelete(w) ==
  /\ w # Loop /\ flow[w].op = "revoke" /\ Done(w)
  /\ MayWrite(w)
  /\ LET c == flow[w].consumer
         after == [Sees(w) EXCEPT !.status[c] = "absent", !.rows[c] = NoRows]
     IN  db' = after /\ view' = after
  /\ flow' = [flow EXCEPT ![w] = Finished(w)]
  /\ UNCHANGED <<live, restarts>>

-----------------------------------------------------------------------------
(* The drift check of the loop *)

\* Wrong on purpose: any key row will do, also one without a key.
KeylessOrRowless(n) == {c \in Consumers : db.rows[c][n] = NoRow}

\* The consumers without an active key at the node.
Keyless(n) == {c \in Consumers : db.rows[c][n].status # "active"}

Active == {c \in Consumers : db.status[c] = "active"}

\* Wrong on purpose: only the keys of deleted consumers.
OrphanedByDeletion(listed) == {c \in listed : db.status[c] = "absent"}

\* Of the consumers with a key row, those whose rows have to go.
Orphaned(listed) == listed \ Active

\* detect_drift lists the keys without the lock...
DetectKeys(n) ==
  /\ flow[Loop].op = "idle"
  /\ flow' = [flow EXCEPT ![Loop] = [Idle EXCEPT !.op = "detect", !.node = n,
                !.missing = Keyless(n),
                !.orphaned = {c \in Consumers : db.rows[c][n] # NoRow}]]
  /\ UNCHANGED <<db, view, live, restarts>>

\* ... and then the consumers, which may have changed since.
DetectConsumers ==
  LET missing == flow[Loop].missing \cap Active
      orphaned == Orphaned(flow[Loop].orphaned)
  IN  /\ flow[Loop].op = "detect"
      /\ flow' = [flow EXCEPT ![Loop] =
                    IF missing \cup orphaned = {} THEN Idle
                    ELSE [@ EXCEPT !.op = "reconcile", !.missing = missing, !.orphaned = orphaned]]
      /\ UNCHANGED <<db, view, live, restarts>>

\* log_audit takes the lock.
LockForReconcile ==
  /\ flow[Loop].op = "reconcile" /\ ~flow[Loop].locked /\ Unlocked
  /\ flow' = [flow EXCEPT ![Loop].locked = TRUE]
  /\ UNCHANGED <<db, view, live, restarts>>

SyncMissing(c) ==
  /\ flow[Loop].op = "reconcile" /\ flow[Loop].locked
  /\ c \in flow[Loop].missing
  /\ flow' = [flow EXCEPT ![Loop].missing = @ \ {c}, ![Loop].consumer = c,
                ![Loop].op = "sync",
                ![Loop].todo = IF view.status[c] = "absent" THEN {} ELSE Nodes]
  /\ UNCHANGED <<db, view, live, restarts>>

\* The row is read again, the status of its consumer is not.
CleanOrphan(c) ==
  /\ flow[Loop].op = "reconcile" /\ flow[Loop].locked
  /\ flow[Loop].missing = {} /\ c \in flow[Loop].orphaned
  /\ flow' = [flow EXCEPT ![Loop].orphaned = @ \ {c}, ![Loop].consumer = c,
                ![Loop].op = "revoke",
                ![Loop].seen = [NoRows EXCEPT ![flow[Loop].node] = view.rows[c][flow[Loop].node]]]
  /\ UNCHANGED <<db, view, live, restarts>>

NextItem ==
  /\ flow[Loop].op \in {"sync", "revoke"} /\ Done(Loop)
  /\ flow' = [flow EXCEPT ![Loop].op = "reconcile"]
  /\ UNCHANGED <<db, view, live, restarts>>

FinishReconcile ==
  /\ flow[Loop].op = "reconcile" /\ flow[Loop].locked
  /\ flow[Loop].missing = {} /\ flow[Loop].orphaned = {}
  /\ Commit(Loop)

\* The control plane dies: every transaction is rolled back.
Restart ==
  /\ restarts < MaxRestarts
  /\ restarts' = restarts + 1
  /\ view' = db
  /\ flow' = [w \in Workers |-> Idle]
  /\ UNCHANGED <<db, live>>

-----------------------------------------------------------------------------
Init ==
  /\ db = [status |-> [c \in Consumers |-> "absent"], rows |-> [c \in Consumers |-> NoRows]]
  /\ view = db
  /\ live = [c \in Consumers |-> [n \in Nodes |-> {}]]
  /\ flow = [w \in Workers |-> Idle]
  /\ restarts = 0

Request(w) ==
  \E c \in Consumers :
    \/ \E s \in {"active", "disabled"} : CreateConsumer(w, c, s)
    \/ \E s \in {"active", "disabled", "kept"} : UpdateConsumer(w, c, s)
    \/ ResyncConsumer(w, c)
    \/ DeleteConsumer(w, c)

\* What follows in a running transaction.
Proceed(w) ==
  \/ \E n \in Nodes : \E answer \in Answers[n] :
       SyncNode(w, n, answer) \/ RevokeNode(w, n, answer)
  \/ Write(w)
  \/ FinishSync(w) \/ FinishDelete(w)

Reconcile ==
  \/ \E c \in Consumers : SyncMissing(c) \/ CleanOrphan(c)
  \/ NextItem
  \/ FinishReconcile

Next ==
  \/ \E w \in Requests : Request(w)
  \/ \E w \in Workers : TimeOut(w) \/ RecoverLater(w) \/ Proceed(w)
  \/ \E n \in Watched : DetectKeys(n)
  \/ DetectConsumers
  \/ LockForReconcile
  \/ Reconcile
  \/ Restart

Spec == Init /\ [][Next]_vars

\* A running transaction proceeds.  The loop comes round to every node every 30
\* seconds, at some rounds while nobody holds the lock, and gets the lock now
\* and then; and now and then a node does what the loop asks of it.
FairSpec ==
  /\ Spec
  /\ \A w \in Workers : WF_vars(Proceed(w))
  /\ WF_vars(Reconcile)
  /\ SF_vars(LockForReconcile)
  /\ \A n \in Watched : SF_vars(DetectKeys(n) /\ Unlocked)
  /\ SF_vars(DetectConsumers /\ Unlocked)
  /\ \A n \in Nodes :
       /\ SF_vars(SyncNode(Loop, n, "done"))
       /\ SF_vars(\E answer \in Answers[n] \ {"unset"} : RevokeNode(Loop, n, answer))

-----------------------------------------------------------------------------
(* Properties that hold *)

TypeOK ==
  /\ db \in Databases /\ view \in Databases
  /\ live \in [Consumers -> [Nodes -> SUBSET Keys]]
  /\ flow \in [Workers -> Flows]
  /\ restarts \in 0..MaxRestarts

\* A consumer that is deleted while another request synchronizes it, or between
\* the drift check and its repair, does not get a key row again.
RowsHaveConsumers ==
  \A c \in Consumers, n \in Nodes :
    db.rows[c][n] # NoRow => db.status[c] # "absent"

\* The row of a consumer is only active with a key as generate_key returns it:
\* clients are never handed the placeholder as if it worked, not even after a
\* key was suspended, forgotten by its node and recovered.
ActiveRowsHaveKeys ==
  \A c \in Consumers, n \in Nodes :
    db.rows[c][n].status = "active" => db.rows[c][n].key \in Keys

\* A consumer that stays active gets a key on every node the loop watches,
\* again after every refusal of the node and every request that suspends it.
ActiveConsumersGetKeys ==
  \A c \in Consumers, n \in Watched :
    <>[](db.status[c] = "active") => []<>(db.rows[c][n].status = "active")

\* A consumer that stays disabled loses its row on every watched node, also the
\* rows that an update of the disabled consumer makes again.
DisabledConsumersLoseRows ==
  \A c \in Consumers, n \in Watched :
    <>[](db.status[c] = "disabled") => []<>(db.rows[c][n] = NoRow)
==============================================================================
