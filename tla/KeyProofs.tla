------------------------------ MODULE KeyProofs ------------------------------
(***************************************************************************)
(* What KeySync guarantees for every set of consumers, nodes and keys, every  *)
(* number of requests and every way calls to the nodes may end.              *)
(*                                                                         *)
(* A transaction works on its own view of the tables, which becomes the       *)
(* committed one at its end; so both have to be sound throughout, and a call  *)
(* in flight has to carry what its write will store.                         *)
(*                                                                         *)
(* That every commit is the whole work of one transaction (KeyTables) needs   *)
(* to be said of transactions that are still running: how far each view may   *)
(* differ from what is committed (Kept), given what the worker has yet to do  *)
(* (Shape), and that nobody else writes meanwhile (Exclusive).                *)
(***************************************************************************)
EXTENDS KeyRefinement, TLAPS

\* A key row has a consumer, and an active one a key.
SoundTables ==
  {d \in Databases : \A c \in Consumers, n \in Nodes :
     /\ d.rows[c][n] # NoRow => d.status[c] # "absent"
     /\ d.rows[c][n].status = "active" => d.rows[c][n].key \in Keys}

\* A recovered key replaces the placeholder only if there is one.
SoundCalls == {NoCall} \cup {call \in Calls : call.do = "replace" => call.key \in Keys}

SoundFlows == {f \in Flows : f.call \in SoundCalls}

Inv ==
  /\ db \in SoundTables /\ view \in SoundTables
  /\ live \in [Consumers -> [Nodes -> SUBSET Keys]]
  /\ flow \in [Workers -> SoundFlows]
  /\ restarts \in 0..MaxRestarts

-----------------------------------------------------------------------------
(* Tables *)

\* Setting a status other than absent keeps tables sound.
LEMMA StatusSound ==
  ASSUME NEW d \in SoundTables, NEW c \in Consumers, NEW s \in {"active", "disabled"}
  PROVE  [d EXCEPT !.status[c] = s] \in SoundTables
<1> DEFINE e == [d EXCEPT !.status[c] = s]
<1>1. /\ e \in Databases /\ e.rows = d.rows
      /\ \A b \in Consumers : e.status[b] = IF b = c THEN s ELSE d.status[b]
  BY DEF SoundTables, Databases, ConsumerStatuses
<1> QED BY <1>1 DEF SoundTables

\* So does deleting a consumer with all its rows.
LEMMA DeletionSound ==
  ASSUME NEW d \in SoundTables, NEW c \in Consumers
  PROVE  [d EXCEPT !.status[c] = "absent", !.rows[c] = NoRows] \in SoundTables
<1> DEFINE e == [d EXCEPT !.status[c] = "absent", !.rows[c] = NoRows]
<1>1. NoRows \in [Nodes -> KeyRows]
  BY DEF NoRows, KeyRows
<1>2. /\ e \in Databases
      /\ \A b \in Consumers : /\ e.status[b] = IF b = c THEN "absent" ELSE d.status[b]
                              /\ e.rows[b] = IF b = c THEN NoRows ELSE d.rows[b]
  BY <1>1 DEF SoundTables, Databases, ConsumerStatuses
<1>3. \A n \in Nodes : NoRows[n] = NoRow /\ NoRow.status # "active"
  BY DEF NoRows, NoRow, Row
<1>4. e \in SoundTables
  <2> HIDE DEF e
  <2> QED BY <1>2, <1>3 DEF SoundTables
<1> QED BY <1>4

\* So does the write that follows a call, if it violates no constraint.
LEMMA WriteSound ==
  ASSUME NEW d \in SoundTables, NEW c \in Consumers, NEW call \in SoundCalls,
         call # NoCall, call.do = "insert" \/ d.rows[c][call.node] # NoRow,
         ~Violates(d, c, call)
  PROVE  [d EXCEPT !.rows[c][call.node] = Result(@, call)] \in SoundTables
<1> DEFINE n == call.node
           row == Result(d.rows[c][n], call)
           e == [d EXCEPT !.rows[c][n] = Result(@, call)]
<1>1. n \in Nodes /\ call.do \in {"insert", "replace", "suspend", "remove"}
  BY DEF SoundCalls, Calls, NoCalls
<1>2. d.rows[c][n] \in KeyRows
  BY <1>1 DEF SoundTables, Databases
<1>3. row \in KeyRows /\ (row.status = "active" => row.key \in Keys)
  <2>1. CASE call.do = "insert"
    <3>1. call.key \in Keys \cup {Placeholder}
      BY <2>1 DEF SoundCalls, Calls, NoCalls
    <3> QED BY <2>1, <3>1 DEF Result, Row, KeyRows
  <2>2. CASE call.do = "replace"
    <3>1. call.key \in Keys
      BY <2>2 DEF SoundCalls
    <3> QED BY <2>2, <3>1 DEF Result, Row, KeyRows
  <2>3. CASE call.do = "suspend"
    <3>1. d.rows[c][n] \in [key : Keys \cup {Placeholder}, status : {"active", "pending-sync"}]
      BY <1>2, <2>3 DEF KeyRows
    <3> QED BY <2>3, <3>1 DEF Result, KeyRows
  <2>4. CASE call.do = "remove"
    BY <2>4 DEF Result, Row, NoRow, KeyRows
  <2> QED BY <1>1, <2>1, <2>2, <2>3, <2>4
<1>4. d.status[c] # "absent"
  BY <1>1 DEF Violates, SoundTables
<1>5. e.status = d.status
  BY DEF SoundTables, Databases
<1>6. \A b \in Consumers, m \in Nodes :
        e.rows[b][m] = IF b = c /\ m = n THEN row ELSE d.rows[b][m]
  BY <1>1 DEF SoundTables, Databases
<1>7. e \in Databases
  <2> HIDE DEF row
  <2>1. d.rows[c] \in [Nodes -> KeyRows] /\ d.rows \in [Consumers -> [Nodes -> KeyRows]]
        /\ d.status \in [Consumers -> ConsumerStatuses]
    BY DEF SoundTables, Databases
  <2>2. [d.rows[c] EXCEPT ![n] = row] \in [Nodes -> KeyRows]
    BY <1>1, <1>3, <2>1
  <2>3. PICK rows \in [Consumers -> [Nodes -> KeyRows]] :
          rows = [d.rows EXCEPT ![c] = [d.rows[c] EXCEPT ![n] = row]]
    BY <2>1, <2>2
  <2>4. [d EXCEPT !.rows = rows] \in Databases
    BY <2>1 DEF SoundTables, Databases
  <2>5. e = [d EXCEPT !.rows = rows]
    <3>1. e = [d EXCEPT !.rows[c][n] = row]
      BY Zenon DEF row
    <3>2. [d EXCEPT !.rows[c][n] = row] = [d EXCEPT !.rows = [d.rows EXCEPT ![c][n] = row]]
      BY Zenon
    <3>3. [d.rows EXCEPT ![c][n] = row] = [d.rows EXCEPT ![c] = [d.rows[c] EXCEPT ![n] = row]]
      BY Zenon
    <3> QED BY <2>3, <3>1, <3>2, <3>3
  <2> QED BY <2>4, <2>5
<1>8. e \in SoundTables
  <2> HIDE DEF e, row
  <2> QED BY <1>3, <1>4, <1>5, <1>6, <1>7 DEF SoundTables
<1> QED BY <1>8

-----------------------------------------------------------------------------
(* Workers *)

\* There are a node and a consumer for idle workers to name; an idle worker is
\* sound, and so is one that starts.
LEMMA IdleSound ==
  /\ None \in Nodes /\ NoCall \in SoundCalls
  /\ Idle \in SoundFlows /\ Idle.call = NoCall
  /\ \A w : /\ Finished(w) \in SoundFlows /\ Finished(w).call = NoCall
            /\ Finished(w).op = "idle" /\ ~Finished(w).locked
  /\ NoRows \in [Nodes -> KeyRows]
<1>1. None \in Nodes /\ (CHOOSE c \in Consumers : TRUE) \in Consumers
  BY KeysAssumption DEF None
<1>2. NoCall \in SoundCalls
  BY DEF SoundCalls
<1>3. NoCall \in NoCalls \cup Calls
  BY <1>1 DEF NoCall, Call, NoCalls
<1>4. NoRows \in [Nodes -> KeyRows]
  BY DEF NoRows, KeyRows
<1>5. Idle \in Flows /\ Idle.call = NoCall
  BY <1>1, <1>3, <1>4 DEF Idle, Flows, Wants
<1>6. ASSUME NEW w
      PROVE  /\ Finished(w) \in Flows /\ Finished(w).call = NoCall
             /\ Finished(w).op = "idle" /\ ~Finished(w).locked
  BY <1>1, <1>3, <1>4 DEF Finished, Idle, Flows, Wants
<1> QED BY <1>1, <1>2, <1>4, <1>5, <1>6 DEF SoundFlows

\* Sound calls are calls.
LEMMA CallsTyped == SoundCalls \subseteq NoCalls \cup Calls
BY IdleSound DEF SoundCalls, NoCalls, NoCall, Call

\* What every sound flow has, by field.
LEMMA FlowFacts ==
  ASSUME Inv, NEW w \in Workers
  PROVE  /\ flow[w] \in SoundFlows /\ flow[w] \in Flows
         /\ flow[w].consumer \in Consumers /\ flow[w].node \in Nodes
         /\ flow[w].todo \subseteq Nodes /\ flow[w].seen \in [Nodes -> KeyRows]
         /\ flow[w].call \in SoundCalls
         /\ flow[w].missing \subseteq Consumers /\ flow[w].orphaned \subseteq Consumers
         /\ Sees(w) \in SoundTables
BY DEF Inv, SoundFlows, Flows, Sees

\* A step that changes one worker's flow and nothing in the tables.
LEMMA OneFlow ==
  ASSUME Inv, NEW w \in Workers, NEW f \in SoundFlows, flow' = [flow EXCEPT ![w] = f],
         db' \in SoundTables, view' \in SoundTables,
         live' \in [Consumers -> [Nodes -> SUBSET Keys]], UNCHANGED restarts
  PROVE  Inv'
BY DEF Inv

\* The end of a transaction, in whatever way.
LEMMA EndKeeps ==
  ASSUME Inv, NEW w \in Workers, Commit(w) \/ Rollback(w) \/ Raise(w)
  PROVE  Inv'
<1>1. Commit(w) \/ Rollback(w)
  BY DEF Raise
<1>2. db' \in SoundTables /\ view' \in SoundTables /\ live' = live
  BY <1>1, FlowFacts DEF Commit, Rollback, Inv
<1>3. PICK f \in {Idle, Finished(w)} : flow' = [flow EXCEPT ![w] = f] /\ UNCHANGED restarts
  BY <1>1 DEF Commit, Rollback
<1> QED BY <1>2, <1>3, IdleSound, OneFlow DEF Inv

-----------------------------------------------------------------------------
(* Requests *)

\* Creating, updating, synchronizing and deleting a consumer start soundly.
LEMMA RequestKeeps ==
  ASSUME Inv, NEW w \in Workers, Request(w)
  PROVE  Inv'
<1>1. PICK c \in Consumers :
        \/ \E s \in {"active", "disabled"} : CreateConsumer(w, c, s)
        \/ \E s \in {"active", "disabled", "kept"} : UpdateConsumer(w, c, s)
        \/ ResyncConsumer(w, c)
        \/ DeleteConsumer(w, c)
  BY DEF Request
<1>2. PICK op \in {"sync", "revoke"}, wants \in Wants, locked \in BOOLEAN :
        Start(w, op, c, wants, locked)
  BY <1>1 DEF CreateConsumer, UpdateConsumer, ResyncConsumer, DeleteConsumer, Wants
<1>3. PICK f \in SoundFlows : flow' = [flow EXCEPT ![w] = f]
  <2> DEFINE f == [Idle EXCEPT !.op = op, !.consumer = c, !.wants = wants, !.locked = locked,
                     !.todo = IF op = "sync" THEN Nodes ELSE {},
                     !.seen = IF op = "revoke" THEN db.rows[c] ELSE NoRows]
  <2>1. db.rows[c] \in [Nodes -> KeyRows]
    BY DEF Inv, SoundTables, Databases
  <2>2. f \in SoundFlows
    BY <2>1, IdleSound DEF SoundFlows, Flows
  <2>3. flow' = [flow EXCEPT ![w] = f]
    BY <1>2 DEF Start
  <2> QED BY <2>2, <2>3
<1>4. db' = db /\ (view' \in {view, db} \/ \E s \in {"active", "disabled"} :
                                         view' = [db EXCEPT !.status[c] = s])
  BY <1>1 DEF CreateConsumer, UpdateConsumer, ResyncConsumer, DeleteConsumer
<1>6. db' \in SoundTables /\ view' \in SoundTables
  BY <1>4, StatusSound DEF Inv
<1>5. UNCHANGED <<live, restarts>>
  BY <1>1 DEF CreateConsumer, UpdateConsumer, ResyncConsumer, DeleteConsumer
<1> QED BY <1>3, <1>5, <1>6, OneFlow DEF Inv

-----------------------------------------------------------------------------
(* Calls and writes *)

\* What a call may leave to be written.
LEMMA CallSound ==
  ASSUME NEW n \in Nodes, NEW k \in Keys
  PROVE  /\ Call("insert", n, k) \in SoundCalls
         /\ Call("replace", n, k) \in SoundCalls
         /\ Call("insert", n, Placeholder) \in SoundCalls
BY DEF Call, SoundCalls, Calls

\* The calls without a key.
LEMMA KeylessCallSound ==
  ASSUME NEW n \in Nodes
  PROVE  /\ Call("insert", n, Placeholder) \in SoundCalls
         /\ Call("suspend", n, NoKey) \in SoundCalls
         /\ Call("remove", n, NoKey) \in SoundCalls
BY DEF Call, SoundCalls, Calls

\* A worker that has called a node is sound if the call is.
LEMMA CalledSound ==
  ASSUME NEW f \in SoundFlows, NEW call \in SoundCalls, NEW todo \in SUBSET Nodes
  PROVE  /\ [f EXCEPT !.todo = todo, !.call = call] \in SoundFlows
         /\ [f EXCEPT !.call = call] \in SoundFlows
         /\ [f EXCEPT !.call = call, !.locked = TRUE] \in SoundFlows
<1>1. call \in NoCalls \cup Calls
  BY CallsTyped
<1> QED BY <1>1 DEF SoundFlows, Flows

\* Changing the keys of one consumer at one node keeps their type.
LEMMA LiveTyped ==
  ASSUME NEW l \in [Consumers -> [Nodes -> SUBSET Keys]],
         NEW c \in Consumers, NEW n \in Nodes, NEW K \in SUBSET Keys
  PROVE  [l EXCEPT ![c][n] = K] \in [Consumers -> [Nodes -> SUBSET Keys]]
<1>1. l[c] \in [Nodes -> SUBSET Keys]
  OBVIOUS
<1>2. [l[c] EXCEPT ![n] = K] \in [Nodes -> SUBSET Keys]
  BY <1>1
<1>3. [l EXCEPT ![c][n] = K] = [l EXCEPT ![c] = [l[c] EXCEPT ![n] = K]]
  OBVIOUS
<1> QED BY <1>2, <1>3

\* A call of generate_key or update_key keeps the invariant.
LEMMA SyncKeeps ==
  ASSUME Inv, NEW w \in Workers, NEW n \in Nodes, NEW answer,
         SyncNode(w, n, answer)
  PROVE  Inv'
<1> USE FlowFacts
<1>1. CASE answer = "unset"
  BY <1>1, EndKeeps DEF SyncNode
<1>2. CASE answer # "unset"
  <2> DEFINE c == flow[w].consumer
  <2>1. PICK call \in SoundCalls : Called(w, n, call)
    <3>1. CASE GenerateKey(w, n, answer)
      <4>1. CASE answer \in {"done", "lost"}
        BY <3>1, <4>1, CallSound, IdleSound DEF GenerateKey
      <4>2. CASE answer \notin {"done", "lost"}
        BY <3>1, <4>2, KeylessCallSound, IdleSound DEF GenerateKey
      <4> QED BY <4>1, <4>2
    <3>2. CASE UpdateKey(w, n, answer)
      BY <3>2, KeylessCallSound, IdleSound DEF UpdateKey
    <3> QED BY <1>2, <3>1, <3>2 DEF SyncNode
  <2>2. live' \in [Consumers -> [Nodes -> SUBSET Keys]]
    <3>1. live' = live \/ \E k \in Keys : live' = [live EXCEPT ![c][n] = live[c][n] \cup {k}]
      BY <1>2 DEF SyncNode, GenerateKey, UpdateKey
    <3>2. live[c][n] \subseteq Keys
      BY DEF Inv
    <3>3. \A k \in Keys : live[c][n] \cup {k} \in SUBSET Keys
      BY <3>2
    <3>4. \A k \in Keys : [live EXCEPT ![c][n] = live[c][n] \cup {k}]
                            \in [Consumers -> [Nodes -> SUBSET Keys]]
      BY <3>3, LiveTyped DEF Inv
    <3>5. ASSUME NEW k \in Keys, live' = [live EXCEPT ![c][n] = live[c][n] \cup {k}]
          PROVE  live' \in [Consumers -> [Nodes -> SUBSET Keys]]
      <4> HIDE DEF c
      <4> QED BY <3>4, <3>5
    <3>6. live' = live => live' \in [Consumers -> [Nodes -> SUBSET Keys]]
      BY DEF Inv
    <3> QED BY <3>1, <3>5, <3>6
  <2>3. PICK f \in SoundFlows : flow' = [flow EXCEPT ![w] = f]
    <3> DEFINE f == [flow[w] EXCEPT !.todo = flow[w].todo \ {n}, !.call = call]
    <3>1. f \in SoundFlows
      BY CalledSound
    <3>2. flow' = [flow EXCEPT ![w] = f]
      BY <2>1 DEF Called
    <3> QED BY <3>1, <3>2
  <2>4. UNCHANGED <<db, view, restarts>>
    BY <1>2 DEF SyncNode
  <2> QED BY <2>2, <2>3, <2>4, OneFlow DEF Inv
<1> QED BY <1>1, <1>2

\* A call of delete_key keeps the invariant.
LEMMA RevokeKeeps ==
  ASSUME Inv, NEW w \in Workers, NEW n \in Nodes, NEW answer,
         RevokeNode(w, n, answer)
  PROVE  Inv'
<1> USE FlowFacts
<1> DEFINE c == flow[w].consumer
           row == flow[w].seen[n]
<1>1. CASE answer = "unset" /\ row.status = "active"
  BY <1>1, EndKeeps DEF RevokeNode
<1>2. CASE ~(answer = "unset" /\ row.status = "active")
  <2>1. /\ flow' = [flow EXCEPT ![w].seen[n] = NoRow, ![w].call = Call("remove", n, NoKey)]
        /\ UNCHANGED <<db, view, restarts>>
        /\ live' = live \/ live' = [live EXCEPT ![c][n] = live[c][n] \ {row.key}]
    BY <1>2 DEF RevokeNode
  <2>2. live' \in [Consumers -> [Nodes -> SUBSET Keys]]
    <3>1. live[c][n] \subseteq Keys
      BY DEF Inv
    <3>2. live[c][n] \ {row.key} \in SUBSET Keys
      BY <3>1
    <3>3. [live EXCEPT ![c][n] = live[c][n] \ {row.key}] \in [Consumers -> [Nodes -> SUBSET Keys]]
      BY <3>2, LiveTyped DEF Inv
    <3> QED BY <2>1, <3>3 DEF Inv
  <2> DEFINE f == [flow[w] EXCEPT !.seen[n] = NoRow, !.call = Call("remove", n, NoKey)]
  <2>3. f \in SoundFlows
    <3>1. NoRow \in KeyRows
      BY DEF KeyRows
    <3>2. [flow[w].seen EXCEPT ![n] = NoRow] \in [Nodes -> KeyRows]
      BY <3>1
    <3>3. Call("remove", n, NoKey) \in SoundCalls
      BY KeylessCallSound
    <3>4. Call("remove", n, NoKey) \in NoCalls \cup Calls
      BY <3>3, CallsTyped
    <3> QED BY <3>2, <3>3, <3>4 DEF SoundFlows, Flows
  <2>4. flow' = [flow EXCEPT ![w] = f]
    BY <2>1
  <2> QED BY <2>1, <2>2, <2>3, <2>4, OneFlow DEF Inv
<1> QED BY <1>1, <1>2

\* The write that follows a call keeps the invariant, also when the row or the
\* consumer has gone since.
LEMMA WriteKeeps ==
  ASSUME Inv, NEW w \in Workers, Write(w)
  PROVE  Inv'
<1> USE FlowFacts
<1> DEFINE c == flow[w].consumer
           call == flow[w].call
           row == Sees(w).rows[c][call.node]
<1>1. CASE call.do # "insert" /\ row = NoRow
  <2>1. flow' = [flow EXCEPT ![w] = [flow[w] EXCEPT !.call = NoCall]]
    BY <1>1 DEF Write
  <2>2. [flow[w] EXCEPT !.call = NoCall] \in SoundFlows
    BY CalledSound, IdleSound
  <2>3. UNCHANGED <<db, view, live, restarts>>
    BY <1>1 DEF Write
  <2> QED BY <2>1, <2>2, <2>3, OneFlow DEF Inv
<1>2. CASE ~(call.do # "insert" /\ row = NoRow) /\ Violates(Sees(w), c, call)
  BY <1>2, EndKeeps DEF Write
<1>3. CASE ~(call.do # "insert" /\ row = NoRow) /\ ~Violates(Sees(w), c, call)
  <2>1. /\ view' = [Sees(w) EXCEPT !.rows[c][call.node] = Result(row, call)]
        /\ flow' = [flow EXCEPT ![w].call = NoCall, ![w].locked = TRUE]
        /\ UNCHANGED <<db, live, restarts>>
        /\ call # NoCall
    BY <1>3 DEF Write
  <2>2. view' \in SoundTables
    <3>1. view' = [Sees(w) EXCEPT !.rows[c][call.node] = Result(@, call)]
      BY <2>1 DEF SoundTables, Databases
    <3> QED BY <1>3, <2>1, <3>1, WriteSound
  <2>3. flow' = [flow EXCEPT ![w] = [flow[w] EXCEPT !.call = NoCall, !.locked = TRUE]]
    BY <2>1
  <2>4. [flow[w] EXCEPT !.call = NoCall, !.locked = TRUE] \in SoundFlows
    BY CalledSound, IdleSound
  <2> QED BY <2>1, <2>2, <2>3, <2>4, OneFlow DEF Inv
<1> QED BY <1>1, <1>2, <1>3

-----------------------------------------------------------------------------
(* The end of a request, and the loop *)

\* Ending a synchronization or a deletion keeps the invariant, and so does
\* giving up before the lock.
LEMMA FinishKeeps ==
  ASSUME Inv, NEW w \in Workers,
         FinishSync(w) \/ FinishDelete(w) \/ TimeOut(w) \/ RecoverLater(w)
  PROVE  Inv'
<1>1. CASE FinishSync(w) \/ TimeOut(w)
  BY <1>1, EndKeeps DEF FinishSync, TimeOut
<1>3. CASE RecoverLater(w)
  <2>1. flow' = [flow EXCEPT ![w] = [flow[w] EXCEPT !.call = NoCall]]
        /\ UNCHANGED <<db, view, live, restarts>>
    BY <1>3 DEF RecoverLater
  <2>2. [flow[w] EXCEPT !.call = NoCall] \in SoundFlows
    BY FlowFacts, CalledSound, IdleSound
  <2> QED BY <2>1, <2>2, OneFlow DEF Inv
<1>2. CASE FinishDelete(w)
  <2> DEFINE after == [Sees(w) EXCEPT !.status[flow[w].consumer] = "absent",
                                      !.rows[flow[w].consumer] = NoRows]
  <2>1. after \in SoundTables
    BY FlowFacts, DeletionSound
  <2>2. db' = after /\ view' = after /\ flow' = [flow EXCEPT ![w] = Finished(w)]
        /\ UNCHANGED <<live, restarts>>
    BY <1>2 DEF FinishDelete
  <2> HIDE DEF after
  <2> QED BY <2>1, <2>2, IdleSound, OneFlow DEF Inv
<1> QED BY <1>1, <1>2, <1>3

\* The steps of the drift check keep the invariant: they change the tables only
\* through the calls and writes above.
LEMMA LoopKeeps ==
  ASSUME Inv,
         (\E n \in Watched : DetectKeys(n)) \/ DetectConsumers \/ LockForReconcile \/ Reconcile
  PROVE  Inv'
<1> DEFINE f == flow[Loop]
<1>0. /\ Loop \in Workers /\ f \in SoundFlows /\ f \in Flows
      /\ f.missing \subseteq Consumers /\ f.orphaned \subseteq Consumers /\ f.node \in Nodes
  BY FlowFacts DEF Workers
<1>1. ASSUME NEW g \in SoundFlows, flow' = [flow EXCEPT ![Loop] = g],
             UNCHANGED <<db, view, live, restarts>>
      PROVE  Inv'
  BY <1>0, <1>1, OneFlow DEF Inv
<1>2. ASSUME NEW n \in Watched, DetectKeys(n) PROVE Inv'
  <2> DEFINE listed == {c \in Consumers : db.rows[c][n] # NoRow}
             g == [Idle EXCEPT !.op = "detect", !.node = n,
                               !.missing = Keyless(n), !.orphaned = listed]
  <2>1. n \in Nodes /\ Keyless(n) \subseteq Consumers /\ listed \subseteq Consumers
    BY KeysAssumption DEF Keyless
  <2>2. g \in SoundFlows
    <3> HIDE DEF listed
    <3> QED BY <2>1, IdleSound DEF SoundFlows, Flows
  <2>3. flow' = [flow EXCEPT ![Loop] = g] /\ UNCHANGED <<db, view, live, restarts>>
    BY <1>2 DEF DetectKeys
  <2> QED BY <1>1, <2>2, <2>3
<1>8. CASE DetectConsumers
  <2> DEFINE g == [f EXCEPT !.op = "reconcile", !.missing = f.missing \cap Active,
                            !.orphaned = Orphaned(f.orphaned)]
  <2>1. g \in SoundFlows
    BY <1>0 DEF SoundFlows, Flows, Orphaned
  <2>2. (flow' = [flow EXCEPT ![Loop] = g] \/ flow' = [flow EXCEPT ![Loop] = Idle])
        /\ UNCHANGED <<db, view, live, restarts>>
    BY <1>8 DEF DetectConsumers
  <2> HIDE DEF g
  <2> QED BY <1>1, <2>1, <2>2, IdleSound
<1>3. CASE LockForReconcile
  <2> DEFINE g == [f EXCEPT !.locked = TRUE]
  <2>1. g \in SoundFlows
    BY <1>0 DEF SoundFlows, Flows
  <2>2. flow' = [flow EXCEPT ![Loop] = g] /\ UNCHANGED <<db, view, live, restarts>>
    BY <1>3 DEF LockForReconcile
  <2> QED BY <1>1, <2>1, <2>2
<1>4. ASSUME NEW c \in Consumers, SyncMissing(c) PROVE Inv'
  <2> DEFINE todo == IF view.status[c] = "absent" THEN {} ELSE Nodes
             g == [f EXCEPT !.missing = f.missing \ {c}, !.consumer = c, !.op = "sync",
                            !.todo = todo]
  <2>1. g \in SoundFlows
    BY <1>0 DEF SoundFlows, Flows
  <2>2. flow' = [flow EXCEPT ![Loop] = g] /\ UNCHANGED <<db, view, live, restarts>>
    BY <1>4 DEF SyncMissing
  <2> QED BY <1>1, <2>1, <2>2
<1>5. ASSUME NEW c \in Consumers, CleanOrphan(c) PROVE Inv'
  <2> DEFINE seen == [NoRows EXCEPT ![f.node] = view.rows[c][f.node]]
             g == [f EXCEPT !.orphaned = f.orphaned \ {c}, !.consumer = c, !.op = "revoke",
                            !.seen = seen]
  <2>1. view.rows[c][f.node] \in KeyRows
    BY <1>0 DEF Inv, SoundTables, Databases
  <2>2. seen \in [Nodes -> KeyRows]
    BY <2>1, IdleSound
  <2>3. g \in SoundFlows
    <3> HIDE DEF seen
    <3> QED BY <1>0, <2>2 DEF SoundFlows, Flows
  <2>4. flow' = [flow EXCEPT ![Loop] = g] /\ UNCHANGED <<db, view, live, restarts>>
    BY <1>5 DEF CleanOrphan
  <2> QED BY <1>1, <2>3, <2>4
<1>6. CASE NextItem
  <2> DEFINE g == [f EXCEPT !.op = "reconcile"]
  <2>1. g \in SoundFlows
    BY <1>0 DEF SoundFlows, Flows
  <2>2. flow' = [flow EXCEPT ![Loop] = g] /\ UNCHANGED <<db, view, live, restarts>>
    BY <1>6 DEF NextItem
  <2> QED BY <1>1, <2>1, <2>2
<1>7. CASE FinishReconcile
  BY <1>0, <1>7, EndKeeps DEF FinishReconcile
<1> QED BY <1>2, <1>3, <1>4, <1>5, <1>6, <1>7, <1>8 DEF Reconcile

-----------------------------------------------------------------------------
(* The theorems *)

\* The invariant holds of empty tables and idle workers.
LEMMA InitInv == Init => Inv
<1> SUFFICES ASSUME Init PROVE Inv
  OBVIOUS
<1>1. db \in SoundTables
  <2>1. db \in Databases
    BY IdleSound DEF Init, Databases, ConsumerStatuses
  <2>2. \A c \in Consumers, n \in Nodes : db.rows[c][n] = NoRow
    BY DEF Init, NoRows
  <2> QED BY <2>1, <2>2 DEF SoundTables, NoRow, Row
<1>2. flow \in [Workers -> SoundFlows]
  BY IdleSound DEF Init
<1> QED BY <1>1, <1>2, KeysAssumption DEF Init, Inv

\* Every step keeps it.
LEMMA NextInv == Inv /\ [Next]_vars => Inv'
<1> SUFFICES ASSUME Inv, [Next]_vars PROVE Inv'
  OBVIOUS
<1>1. ASSUME NEW w \in Requests, Request(w) PROVE Inv'
  BY <1>1, RequestKeeps DEF Workers
<1>2. ASSUME NEW w \in Workers, TimeOut(w) \/ RecoverLater(w) \/ Proceed(w) PROVE Inv'
  BY <1>2, SyncKeeps, RevokeKeeps, WriteKeeps, FinishKeeps DEF Proceed
<1>3. CASE (\E n \in Watched : DetectKeys(n)) \/ DetectConsumers \/ LockForReconcile \/ Reconcile
  BY <1>3, LoopKeeps
<1>4. CASE Restart
  <2>1. flow' \in [Workers -> SoundFlows]
    BY <1>4, IdleSound DEF Restart
  <2>2. restarts' \in 0..MaxRestarts
    BY <1>4, KeysAssumption DEF Restart, Inv
  <2> QED BY <1>4, <2>1, <2>2 DEF Restart, Inv
<1>5. CASE UNCHANGED vars
  BY <1>5 DEF vars, Inv
<1> QED BY <1>1, <1>2, <1>3, <1>4, <1>5 DEF Next

\* The invariant holds throughout.
LEMMA Invariance == Spec => []Inv
<1> QED BY InitInv, NextInv, PTL DEF Spec

\* Tables, keys and workers have their types: no call is in flight without a
\* node and a key to store.
THEOREM TypeCorrect == Spec => []TypeOK
<1>1. Inv => TypeOK
  BY DEF Inv, TypeOK, SoundTables, SoundFlows
<1> QED BY <1>1, Invariance, PTL

\* However requests, the loop, refused and lost calls and restarts interleave, no
\* committed key row outlives its consumer or is made for one that is gone.
THEOREM KeyRowsHaveConsumers == Spec => []RowsHaveConsumers
<1>1. Inv => RowsHaveConsumers
  BY DEF Inv, RowsHaveConsumers, SoundTables
<1> QED BY <1>1, Invariance, PTL

\* Nor is a committed row ever active with the placeholder, or nothing, as its
\* key, whether calls were refused, lost or recovered.
THEOREM ActiveKeysAreReal == Spec => []ActiveRowsHaveKeys
<1>1. Inv => ActiveRowsHaveKeys
  BY DEF Inv, ActiveRowsHaveKeys, SoundTables
<1> QED BY <1>1, Invariance, PTL

-----------------------------------------------------------------------------
(* Commits are isolated *)

\* The write lock: one writer at a time, and nothing uncommitted without it.
Exclusive == \A v, w \in Workers : flow[v].locked /\ flow[w].locked => v = w

Settled == Unlocked => view = db

\* The nodes whose row a synchronization has yet to write.
Ahead(f) == {n \in Nodes : n \in f.todo \/ (f.call # NoCall /\ f.call.node = n)}

\* The calls that an operation makes, and who may be without the lock: an update
\* without a write of its own, a deletion, and the drift check.  The loop handles
\* each consumer once, and revokes only at the node whose drift it detected.
Shape(w, f) ==
  /\ f.op \in {"idle", "detect"} => ~f.locked
  /\ f.op \in {"idle", "detect", "reconcile"} => f.call = NoCall
  /\ f.op # "detect" => f.missing \cap f.orphaned = {}
  /\ f.op \in {"sync", "revoke"} => f.consumer \notin f.missing \cup f.orphaned
  /\ f.op = "sync" =>
       /\ f.call.do # "remove"
       /\ f.call # NoCall => f.call.node \notin f.todo
  /\ f.op = "revoke" => f.missing = {} /\ (f.call # NoCall => f.call.do = "remove")
  /\ w = Loop =>
       /\ f.wants = "nothing"
       /\ f.op # "idle" => f.node \in Watched
       /\ f.op \in {"sync", "revoke"} => f.locked
       /\ f.op = "revoke" =>
            /\ \A n \in Nodes : f.seen[n] # NoRow => n = f.node
            /\ f.call # NoCall => f.call.node = f.node
  /\ w # Loop =>
       /\ f.op = "idle" => f.wants \in {"done", "nothing"}
       /\ f.op = "sync" => f.wants \in {"active", "disabled", "kept", "same"}
       /\ f.op = "sync" /\ ~f.locked => f.wants = "same"
       /\ f.op = "revoke" => f.wants = "absent"

\* A call was made for the row as it is.
Fits(call, row) ==
  /\ call.do = "insert"  => row = NoRow
  /\ call.do = "replace" => row.status = "pending-sync"
  /\ call.do = "suspend" => row.status = "active"

\* How far a synchronization has got: rows it has yet to write are as they were,
\* and those behind it have been worked on; of a consumer that is gone there are
\* none.
SoFar(f, old, new) ==
  \A n \in Nodes :
    LET was == old.rows[f.consumer][n]
        is  == new.rows[f.consumer][n]
    IN  IF n \in Ahead(f) THEN is = was
        ELSE \/ Tables!Worked(was, is)
             \/ f.wants = "same" /\ Tables!Touched(was, is)
             \/ new.status[f.consumer] = "absent" /\ is = was

InFlight(f, new) ==
  f.wants # "same" /\ f.call # NoCall => Fits(f.call, new.rows[f.consumer][f.call.node])

\* How far the tables `new' that a request will commit may differ from `old'.
KeptByRequest(f, old, new) ==
  /\ \A b \in Consumers \ {f.consumer} :
       new.status[b] = old.status[b] /\ new.rows[b] = old.rows[b]
  /\ f.op = "sync" =>
       /\ SoFar(f, old, new)
       /\ InFlight(f, new)
       /\ new.status[f.consumer] = IF f.wants \in {"active", "disabled"} THEN f.wants
                                   ELSE old.status[f.consumer]
       /\ f.wants # "same" => new.status[f.consumer] # "absent"

\* A consumer the loop is not at: it was left alone, synchronized, or lost its row
\* at n.
Whole(n, b, old, new) ==
  \/ \A m \in Nodes : new.rows[b][m] = old.rows[b][m]
  \/ /\ old.status[b] # "absent"
     /\ \A m \in Nodes : Tables!Worked(old.rows[b][m], new.rows[b][m])
  \/ \A m \in Nodes : new.rows[b][m] = IF m = n THEN NoRow ELSE old.rows[b][m]

\* How far they may differ for the loop.
KeptByLoop(f, old, new) ==
  /\ new.status = old.status
  /\ \A b \in f.missing \cup f.orphaned, m \in Nodes : new.rows[b][m] = old.rows[b][m]
  /\ \A b \in Consumers : (f.op = "sync" /\ b = f.consumer) \/ Whole(f.node, b, old, new)
  /\ f.op = "sync" => SoFar(f, old, new) /\ InFlight(f, new)
  /\ f.op = "revoke" =>
       \A m \in Nodes \ {f.node} : new.rows[f.consumer][m] = old.rows[f.consumer][m]

Kept(w, f, old, new) == IF w = Loop THEN KeptByLoop(f, old, new) ELSE KeptByRequest(f, old, new)

Isolated ==
  /\ Exclusive
  /\ Settled
  /\ \A w \in Workers : Shape(w, flow[w]) /\ Kept(w, flow[w], db, Sees(w))

\* Whoever has written nothing keeps everything.
LEMMA KeptAtFirst ==
  ASSUME NEW w, NEW f, NEW d, f.op = "sync" => w # Loop /\ f.wants = "same"
  PROVE  Kept(w, f, d, d)
<1>1. CASE w = Loop
  BY <1>1 DEF Kept, KeptByLoop, Whole
<1>2. CASE w # Loop
  <2>1. f.op = "sync" => SoFar(f, d, d)
    BY DEF SoFar, Tables!Touched
  <2> QED BY <1>2, <2>1 DEF Kept, KeptByRequest, InFlight
<1> QED BY <1>1, <1>2

\* A step of one worker that touches the tables only when it may write, and
\* leaves them to others as committed, leaves every other worker isolated.
LEMMA OneWorks ==
  ASSUME Inv, Isolated, NEW w \in Workers, NEW f \in SoundFlows,
         flow' = [flow EXCEPT ![w] = f],
         Shape(w, f),
         Kept(w, f, db', IF f.locked THEN view' ELSE db'),
         MayWrite(w) \/ (UNCHANGED <<db, view>> /\ ~f.locked),
         f.locked \/ view' = db' \/ (UNCHANGED <<db, view>> /\ ~flow[w].locked)
  PROVE  Isolated'
<1>1. \A v \in Workers : flow'[v] = IF v = w THEN f ELSE flow[v]
  BY DEF Inv
<1>2. \A v \in Workers : flow[v].locked /\ v # w => UNCHANGED <<db, view>> /\ ~f.locked
  BY DEF Isolated, Exclusive, MayWrite, Unlocked
<1>3. Exclusive'
  BY <1>1, <1>2 DEF Isolated, Exclusive
<1>4. Settled'
  <2> SUFFICES ASSUME Unlocked' PROVE view' = db'
    BY DEF Settled
  <2>1. ~f.locked /\ \A v \in Workers \ {w} : ~flow[v].locked
    BY <1>1 DEF Unlocked
  <2>2. ~flow[w].locked => view = db
    BY <2>1 DEF Isolated, Settled, Unlocked
  <2> QED BY <2>1, <2>2
<1>5. \A v \in Workers : Shape(v, flow[v])'
  BY <1>1 DEF Isolated, Shape, Workers
<1>6. Kept(w, flow[w], db, Sees(w))'
  <2>1. Sees(w)' = (IF f.locked THEN view' ELSE db') /\ flow'[w] = f
    BY <1>1 DEF Sees
  <2>2. Kept(w, flow'[w], db', Sees(w)')
    BY <2>1
  <2> QED BY <2>2 DEF Kept, KeptByRequest, KeptByLoop, SoFar, InFlight, Ahead, Whole
<1>7. ASSUME NEW v \in Workers, v # w PROVE Kept(v, flow[v], db, Sees(v))'
  <2>1. flow'[v] = flow[v]
    BY <1>1, <1>7
  <2>2. CASE flow[v].locked
    <3>1. Sees(v)' = Sees(v) /\ db' = db
      BY <1>2, <1>7, <2>1, <2>2 DEF Sees
    <3>2. Kept(v, flow[v], db, Sees(v))
      BY DEF Isolated
    <3>3. Kept(v, flow'[v], db', Sees(v)')
      BY <2>1, <3>1, <3>2
    <3> QED BY <3>3 DEF Kept, KeptByRequest, KeptByLoop, SoFar, InFlight, Ahead, Whole
  <2>3. CASE ~flow[v].locked
    <3>1. Sees(v)' = db'
      BY <2>1, <2>3 DEF Sees
    <3>2. flow[v].op = "sync" => v # Loop /\ flow[v].wants = "same"
      BY <2>3 DEF Isolated, Shape
    <3>3. Kept(v, flow'[v], db', Sees(v)')
      BY <2>1, <3>1, <3>2, KeptAtFirst
    <3> QED BY <3>3 DEF Kept, KeptByRequest, KeptByLoop, SoFar, InFlight, Ahead, Whole
  <2> QED BY <2>2, <2>3
<1> QED BY <1>3, <1>4, <1>5, <1>6, <1>7 DEF Isolated

\* An idle worker is in shape.
LEMMA IdleShaped ==
  /\ \A w : Shape(w, Idle) /\ ~Idle.locked /\ Idle.op = "idle"
  /\ \A w : Shape(w, Finished(w)) /\ ~Finished(w).locked /\ Finished(w).op = "idle"
BY IdleSound DEF Shape, Idle, Finished

\* The end of a transaction, in whatever way, leaves nothing behind.
LEMMA EndIsolated ==
  ASSUME Inv, Isolated, NEW w \in Workers, Commit(w) \/ Rollback(w) \/ Raise(w)
  PROVE  Isolated'
<1>1. Commit(w) \/ Rollback(w)
  BY DEF Raise
<1>2. PICK f \in {Idle, Finished(w)} : flow' = [flow EXCEPT ![w] = f]
  BY <1>1 DEF Commit, Rollback
<1>3. f \in SoundFlows /\ Shape(w, f) /\ ~f.locked /\ f.op = "idle"
  BY <1>2, IdleSound, IdleShaped
<1>4. Kept(w, f, db', db')
  BY <1>3, KeptAtFirst
<1>5. CASE flow[w].locked
  <2>1. view' = db' /\ MayWrite(w)
    BY <1>1, <1>5 DEF Commit, Rollback, Sees, MayWrite
  <2> QED BY <1>2, <1>3, <1>4, <2>1, OneWorks
<1>6. CASE ~flow[w].locked
  <2>1. UNCHANGED <<db, view>>
    BY <1>1, <1>6 DEF Commit, Rollback, Sees
  <2> QED BY <1>2, <1>3, <1>4, <1>6, <2>1, OneWorks
<1> QED BY <1>5, <1>6

\* A step that writes nothing and takes no lock only has to keep the worker in
\* shape, and what it will commit.
LEMMA OneCalls ==
  ASSUME Inv, Isolated, NEW w \in Workers, NEW f \in SoundFlows,
         flow' = [flow EXCEPT ![w] = f], f.locked = flow[w].locked,
         UNCHANGED <<db, view>>, Shape(w, f), Kept(w, f, db, Sees(w))
  PROVE  Isolated'
<1>1. Kept(w, f, db', IF f.locked THEN view' ELSE db')
  BY DEF Sees
<1>2. f.locked => MayWrite(w)
  BY DEF MayWrite
<1> QED BY <1>1, <1>2, OneWorks

\* Requests start with one consumer, and write at most its status.
LEMMA RequestIsolated ==
  ASSUME Inv, Isolated, NEW w \in Requests, Request(w)
  PROVE  Isolated'
<1>1. PICK c \in Consumers :
        \/ \E s \in {"active", "disabled"} : CreateConsumer(w, c, s)
        \/ \E s \in {"active", "disabled", "kept"} : UpdateConsumer(w, c, s)
        \/ ResyncConsumer(w, c)
        \/ DeleteConsumer(w, c)
  BY DEF Request
<1>2. w \in Workers /\ w # Loop /\ db \in SoundTables
  BY KeysAssumption DEF Workers, Inv
<1> DEFINE f(op, wants, locked) ==
      [Idle EXCEPT !.op = op, !.consumer = c, !.wants = wants, !.locked = locked,
                   !.todo = IF op = "sync" THEN Nodes ELSE {},
                   !.seen = IF op = "revoke" THEN db.rows[c] ELSE NoRows]
<1>3. db.rows[c] \in [Nodes -> KeyRows] /\ NoCall.do = "none"
  BY <1>2 DEF SoundTables, Databases, NoCall, Call
<1> HIDE DEF f
<1>4. ASSUME NEW s \in {"active", "disabled", "kept"},
             (s # "kept" /\ CreateConsumer(w, c, s)) \/ UpdateConsumer(w, c, s)
      PROVE  Isolated'
  <2>1. /\ flow' = [flow EXCEPT ![w] = f("sync", s, TRUE)] /\ MayWrite(w) /\ db' = db
        /\ view' = IF s = "kept" THEN db ELSE [db EXCEPT !.status[c] = s]
        /\ s = "kept" => db.status[c] # "absent"
    BY <1>4 DEF CreateConsumer, UpdateConsumer, Start, MayWrite, f
  <2>2. /\ view'.rows = db.rows
        /\ \A b \in Consumers : view'.status[b] = IF b = c /\ s # "kept" THEN s ELSE db.status[b]
    BY <1>2, <2>1 DEF SoundTables, Databases
  <2>3. /\ f("sync", s, TRUE) \in SoundFlows /\ Shape(w, f("sync", s, TRUE))
        /\ f("sync", s, TRUE).locked /\ f("sync", s, TRUE).consumer = c
        /\ f("sync", s, TRUE).op = "sync" /\ f("sync", s, TRUE).wants = s
        /\ f("sync", s, TRUE).call = NoCall /\ f("sync", s, TRUE).todo = Nodes
    <3>1. f("sync", s, TRUE) \in SoundFlows
      BY <1>3, IdleSound DEF SoundFlows, Flows, Wants, f
    <3>2. /\ f("sync", s, TRUE).locked /\ f("sync", s, TRUE).consumer = c
          /\ f("sync", s, TRUE).op = "sync" /\ f("sync", s, TRUE).wants = s
          /\ f("sync", s, TRUE).call = NoCall /\ f("sync", s, TRUE).todo = Nodes
          /\ f("sync", s, TRUE).missing = {} /\ f("sync", s, TRUE).orphaned = {}
      BY IdleSound DEF f, Idle
    <3> QED BY <1>2, <1>3, <3>1, <3>2 DEF Shape
  <2>4. SoFar(f("sync", s, TRUE), db, view')
    BY <2>2, <2>3 DEF SoFar, Ahead
  <2>5. KeptByRequest(f("sync", s, TRUE), db, view')
    BY <2>1, <2>2, <2>3, <2>4 DEF KeptByRequest, InFlight
  <2> QED BY <1>2, <2>1, <2>3, <2>5, OneWorks DEF Kept
<1>5. ASSUME NEW op \in {"sync", "revoke"}, NEW wants \in {"same", "absent"},
             Start(w, op, c, wants, FALSE), op = "sync" <=> wants = "same",
             flow[w].op = "idle", UNCHANGED <<db, view, live, restarts>>
      PROVE  Isolated'
  <2>1. flow' = [flow EXCEPT ![w] = f(op, wants, FALSE)]
    BY <1>5 DEF Start, f
  <2>2. /\ f(op, wants, FALSE) \in SoundFlows /\ Shape(w, f(op, wants, FALSE))
        /\ ~f(op, wants, FALSE).locked
        /\ f(op, wants, FALSE).op = op /\ f(op, wants, FALSE).wants = wants
    <3>1. f(op, wants, FALSE) \in SoundFlows
      <4> DEFINE todo == IF op = "sync" THEN Nodes ELSE {}
                 seen == IF op = "revoke" THEN db.rows[c] ELSE NoRows
      <4>1. todo \subseteq Nodes /\ seen \in [Nodes -> KeyRows] /\ wants \in Wants
        BY <1>3, IdleSound DEF Wants
      <4>2. f(op, wants, FALSE) = [Idle EXCEPT !.op = op, !.consumer = c, !.wants = wants,
                                     !.locked = FALSE, !.todo = todo, !.seen = seen]
        BY DEF f
      <4> HIDE DEF todo, seen
      <4> QED BY <4>1, <4>2, IdleSound DEF SoundFlows, Flows
    <3>2. /\ ~f(op, wants, FALSE).locked
          /\ f(op, wants, FALSE).op = op /\ f(op, wants, FALSE).wants = wants
          /\ f(op, wants, FALSE).call = NoCall
          /\ f(op, wants, FALSE).missing = {} /\ f(op, wants, FALSE).orphaned = {}
      BY IdleSound DEF f, Idle
    <3> QED BY <1>2, <1>3, <1>5, <3>1, <3>2 DEF Shape
  <2>3. Kept(w, f(op, wants, FALSE), db', db')
    BY <1>2, <1>5, <2>2, KeptAtFirst
  <2>4. ~flow[w].locked
    BY <1>2, <1>5 DEF Isolated, Shape
  <2> QED BY <1>2, <1>5, <2>1, <2>2, <2>3, <2>4, OneWorks
<1> QED BY <1>1, <1>4, <1>5 DEF ResyncConsumer, DeleteConsumer

-----------------------------------------------------------------------------
(* Calls and writes, isolated *)

\* A synchronization calls a node before it writes its row, and when it has
\* nothing to write there is a row.
LEMMA CallFits ==
  ASSUME Inv, NEW w \in Workers, NEW n \in Nodes, NEW answer,
         GenerateKey(w, n, answer) \/ UpdateKey(w, n, answer)
  PROVE  \E call \in SoundCalls :
           LET row == Sees(w).rows[flow[w].consumer][n]
           IN  /\ Called(w, n, call)
               /\ \/ call = NoCall /\ row # NoRow
                  \/ call # NoCall /\ call.node = n /\ call.do # "remove" /\ Fits(call, row)
<1> DEFINE row == Sees(w).rows[flow[w].consumer][n]
           Made(call) == /\ call \in SoundCalls
                         /\ \/ call = NoCall /\ row # NoRow
                            \/ /\ call # NoCall /\ call.node = n /\ call.do # "remove"
                               /\ Fits(call, row)
<1> SUFFICES \E call : Called(w, n, call) /\ Made(call)
  OBVIOUS
<1>1. row \in KeyRows /\ NoRow.status = "none" /\ NoCall \in SoundCalls
  BY FlowFacts, IdleSound DEF SoundTables, Databases, NoRow, Row
<1> HIDE DEF row
<1>2. CASE UpdateKey(w, n, answer)
  <2> DEFINE suspend == Call("suspend", n, NoKey)
  <2>1. row.status = "active" /\ row # NoRow
        /\ Called(w, n, IF answer = "done" THEN NoCall ELSE suspend)
    BY <1>1, <1>2 DEF UpdateKey, row
  <2>2. Made(NoCall)
    BY <1>1, <2>1
  <2>3. Made(suspend)
    BY <2>1, KeylessCallSound DEF Fits, Call, NoCall
  <2> HIDE DEF suspend, Made
  <2> QED BY <2>1, <2>2, <2>3
<1>3. CASE GenerateKey(w, n, answer)
  <2>1. row = NoRow \/ row.status = "pending-sync"
    BY <1>1, <1>3 DEF GenerateKey, KeyRows, row
  <2>2. row # NoRow => Made(NoCall)
    BY <1>1
  <2>3. ASSUME NEW k \in Keys
        PROVE  Made(Call(IF row = NoRow THEN "insert" ELSE "replace", n, k))
    BY <2>1, CallSound DEF Fits, Call, NoCall
  <2>4. row = NoRow => Made(Call("insert", n, Placeholder))
    BY KeylessCallSound DEF Fits, Call, NoCall
  <2>5. \/ \E k \in Keys : Called(w, n, Call(IF row = NoRow THEN "insert" ELSE "replace", n, k))
        \/ Called(w, n, IF row = NoRow THEN Call("insert", n, Placeholder) ELSE NoCall)
    BY <1>3 DEF GenerateKey, row
  <2> HIDE DEF Made
  <2> QED BY <2>2, <2>3, <2>4, <2>5
<1> QED BY <1>2, <1>3

\* After a call of a synchronization one node less is ahead, or still is for the
\* write that follows.
LEMMA SyncIsolated ==
  ASSUME Inv, Isolated, NEW w \in Workers, NEW n \in Nodes, NEW answer,
         SyncNode(w, n, answer)
  PROVE  Isolated'
<1>1. CASE answer = "unset"
  BY <1>1, EndIsolated DEF SyncNode
<1>2. CASE answer # "unset"
  <2> DEFINE g == flow[w]
             c == g.consumer
             row == Sees(w).rows[c][n]
  <2>1. PICK call \in SoundCalls :
          /\ Called(w, n, call)
          /\ \/ call = NoCall /\ row # NoRow
             \/ call # NoCall /\ call.node = n /\ call.do # "remove" /\ Fits(call, row)
    BY <1>2, CallFits DEF SyncNode
  <2> DEFINE f == [g EXCEPT !.todo = g.todo \ {n}, !.call = call]
  <2>2. /\ f \in SoundFlows /\ flow' = [flow EXCEPT ![w] = f] /\ UNCHANGED <<db, view>>
        /\ g.op = "sync" /\ n \in g.todo /\ g.call = NoCall
    BY <1>2, <2>1, FlowFacts, CalledSound DEF SyncNode, Called
  <2>3. /\ f.op = "sync" /\ f.locked = g.locked /\ f.consumer = c /\ f.node = g.node
        /\ f.missing = g.missing /\ f.orphaned = g.orphaned /\ f.seen = g.seen
        /\ f.wants = g.wants
        /\ f.todo = g.todo \ {n} /\ f.call = call
    BY <2>2, FlowFacts DEF Flows
  <2> HIDE DEF f
  <2>4. Shape(w, f)
    BY <2>1, <2>2, <2>3 DEF Isolated, Shape, NoCall, Call
  <2>5. n \in Ahead(g) /\ \A m \in Nodes \ {n} : m \in Ahead(f) <=> m \in Ahead(g)
    BY <2>1, <2>2, <2>3 DEF Ahead
  <2>6. SoFar(g, db, Sees(w)) => SoFar(f, db, Sees(w))
    <3> SUFFICES ASSUME SoFar(g, db, Sees(w)), NEW m \in Nodes
                 PROVE  LET was == db.rows[c][m]
                            is  == Sees(w).rows[c][m]
                        IN  IF m \in Ahead(f) THEN is = was
                            ELSE \/ Tables!Worked(was, is)
                                 \/ f.wants = "same" /\ Tables!Touched(was, is)
                                 \/ Sees(w).status[c] = "absent" /\ is = was
      BY <2>3 DEF SoFar
    <3>1. CASE m # n
      BY <2>3, <2>5, <3>1 DEF SoFar
    <3>2. CASE m = n
      <4>1. Sees(w).rows[c][m] = db.rows[c][m]
        BY <2>5, <3>2 DEF SoFar
      <4>2. m \notin Ahead(f) => row # NoRow
        BY <2>1, <2>3, <3>2, IdleSound DEF Ahead
      <4> QED BY <3>2, <4>1, <4>2 DEF Tables!Worked, Tables!NoRow, NoRow, Row
    <3> QED BY <3>1, <3>2
  <2>7. InFlight(f, Sees(w))
    BY <2>1, <2>3 DEF InFlight
  <2>8. Kept(w, f, db, Sees(w))
    BY <2>2, <2>3, <2>6, <2>7 DEF Isolated, Kept, KeptByRequest, KeptByLoop
  <2> QED BY <2>2, <2>3, <2>4, <2>8, OneCalls
<1> QED BY <1>1, <1>2

\* A revocation calls the nodes of the rows it saw.
LEMMA RevokeIsolated ==
  ASSUME Inv, Isolated, NEW w \in Workers, NEW n \in Nodes, NEW answer,
         RevokeNode(w, n, answer)
  PROVE  Isolated'
<1> DEFINE g == flow[w]
           call == Call("remove", n, NoKey)
           f == [g EXCEPT !.seen[n] = NoRow, !.call = call]
<1>1. CASE answer = "unset" /\ g.seen[n].status = "active"
  BY <1>1, EndIsolated DEF RevokeNode
<1>2. CASE ~(answer = "unset" /\ g.seen[n].status = "active")
  <2>1. /\ flow' = [flow EXCEPT ![w] = f] /\ UNCHANGED <<db, view, restarts>>
        /\ g.op = "revoke" /\ g.seen[n] # NoRow
    BY <1>2 DEF RevokeNode
  <2>2. /\ call \in SoundCalls /\ call \in Calls /\ call.node = n /\ call.do = "remove"
        /\ call # NoCall /\ NoRow \in KeyRows
    BY KeylessCallSound DEF SoundCalls, Call, NoCall, Calls, KeyRows
  <2>3. /\ f \in SoundFlows
        /\ f.op = "revoke" /\ f.locked = g.locked /\ f.consumer = g.consumer
        /\ f.node = g.node /\ f.missing = g.missing /\ f.orphaned = g.orphaned
        /\ f.wants = g.wants /\ f.call = call
        /\ \A m \in Nodes : f.seen[m] = IF m = n THEN NoRow ELSE g.seen[m]
    <3>1. g \in Flows /\ g.seen \in [Nodes -> KeyRows]
      BY FlowFacts
    <3>2. [g.seen EXCEPT ![n] = NoRow] \in [Nodes -> KeyRows]
      BY <2>2, <3>1
    <3>3. f \in Flows
      BY <2>2, <3>1, <3>2 DEF Flows
    <3>4. f.call = call
      BY <3>1 DEF Flows
    <3> QED BY <2>1, <2>2, <3>1, <3>3, <3>4 DEF SoundFlows, Flows
  <2> HIDE DEF f, call
  <2>4. Shape(w, f)
    BY <2>1, <2>2, <2>3 DEF Isolated, Shape
  <2>5. Kept(w, f, db, Sees(w))
    BY <2>1, <2>3 DEF Isolated, Kept, KeptByRequest, KeptByLoop
  <2> QED BY <2>1, <2>3, <2>4, <2>5, OneCalls
<1> QED BY <1>1, <1>2

\* The write after a call that was made for the row as it is, is the work of a
\* synchronization on it.
LEMMA ResultWorked ==
  ASSUME NEW row \in KeyRows, NEW call \in SoundCalls, call # NoCall, call.do # "remove",
         Fits(call, row)
  PROVE  Tables!Worked(row, Result(row, call))
<1>1. call \in Calls /\ (call.do = "replace" => call.key \in Keys)
  BY DEF SoundCalls
<1>2. CASE call.do = "insert"
  <2>1. call.key \in Keys \cup {Placeholder} /\ row = NoRow
    BY <1>1, <1>2 DEF Calls, Fits
  <2> QED BY <1>2, <2>1 DEF Result, Row, Tables!Worked, NoRow, Tables!NoRow
<1>3. CASE call.do = "replace"
  BY <1>1, <1>3 DEF Result, Row, Tables!Worked, Fits
<1>4. CASE call.do = "suspend"
  BY <1>4 DEF Result, Row, Tables!Worked, Fits
<1> QED BY <1>1, <1>2, <1>3, <1>4 DEF Calls

\* If the row has changed since, it is what one without the lock makes of it.
LEMMA ResultTouched ==
  ASSUME NEW row \in KeyRows, NEW call \in SoundCalls, call # NoCall, call.do # "remove",
         (call.do = "insert") <=> (row = NoRow)
  PROVE  Tables!Touched(row, Result(row, call))
<1>1. call \in Calls /\ (call.do = "replace" => call.key \in Keys)
  BY DEF SoundCalls
<1>2. CASE call.do = "insert"
  <2>1. Fits(call, row)
    BY <1>2 DEF Fits
  <2> QED BY <2>1, ResultWorked DEF Tables!Touched
<1>3. CASE call.do = "replace"
  BY <1>1, <1>3 DEF Result, Row, Tables!Touched, NoRow, Tables!NoRow
<1>4. CASE call.do = "suspend"
  <2>1. row.status \in {"active", "pending-sync"}
    BY <1>4 DEF KeyRows
  <2>2. CASE row.status = "active"
    BY <1>4, <2>2 DEF Result, Tables!Touched, Tables!Worked
  <2>3. CASE row.status = "pending-sync"
    <3>1. row \in [key : Keys \cup {Placeholder}, status : {"active", "pending-sync"}]
      BY <1>4 DEF KeyRows
    <3>2. [row EXCEPT !.status = "pending-sync"] = row
      BY <2>3, <3>1
    <3> QED BY <1>4, <3>2 DEF Result, Tables!Touched
  <2> QED BY <2>1, <2>2, <2>3
<1> QED BY <1>1, <1>2, <1>3, <1>4 DEF Calls

\* The node whose write has come or is not needed is behind the synchronization.
LEMMA Written ==
  ASSUME NEW f, NEW g, NEW old, NEW seen, NEW new, NEW n \in Nodes,
         g.call # NoCall, g.call.node = n, g.call.node \notin g.todo,
         f.call = NoCall, f.todo = g.todo, f.consumer = g.consumer, f.wants = g.wants,
         SoFar(g, old, seen),
         new.status = seen.status,
         \A m \in Nodes \ {n} : new.rows[g.consumer][m] = seen.rows[g.consumer][m],
         \/ Tables!Worked(old.rows[g.consumer][n], new.rows[g.consumer][n])
         \/ g.wants = "same" /\ Tables!Touched(old.rows[g.consumer][n], new.rows[g.consumer][n])
  PROVE  SoFar(f, old, new)
<1>1. n \notin Ahead(f) /\ \A m \in Nodes \ {n} : m \in Ahead(f) <=> m \in Ahead(g)
  BY DEF Ahead
<1> QED BY <1>1 DEF SoFar

\* A write takes the lock, if its worker has not got it, and changes one row that
\* its transaction has not written before.
LEMMA WriteIsolated ==
  ASSUME Inv, Isolated, NEW w \in Workers, Write(w)
  PROVE  Isolated'
<1> DEFINE g == flow[w]
           c == g.consumer
           n == g.call.node
           row == Sees(w).rows[c][n]
<1>0. /\ g \in SoundFlows /\ g \in Flows /\ c \in Consumers /\ g.call \in SoundCalls
      /\ Sees(w) \in SoundTables /\ NoCall \in SoundCalls
      /\ Shape(w, g) /\ Kept(w, g, db, Sees(w)) /\ g.call # NoCall
  BY FlowFacts, IdleSound DEF Isolated, Write
<1>n. /\ n \in Nodes /\ g.call \in Calls /\ g.op \in {"sync", "revoke"}
      /\ g.op = "sync" => n \in Ahead(g) /\ n \notin g.todo /\ g.call.do # "remove"
  BY <1>0 DEF SoundCalls, Calls, Shape, Flows, Ahead
<1>r. row \in KeyRows
  BY <1>0, <1>n DEF SoundTables, Databases
<1>s. g.op = "sync" => /\ SoFar(g, db, Sees(w)) /\ InFlight(g, Sees(w))
                       /\ row = db.rows[c][n]
  BY <1>0, <1>n DEF Kept, KeptByRequest, KeptByLoop, SoFar
<1>1. CASE g.call.do # "insert" /\ row = NoRow
  <2> DEFINE f == [g EXCEPT !.call = NoCall]
  <2>1. flow' = [flow EXCEPT ![w] = f] /\ UNCHANGED <<db, view>> /\ f \in SoundFlows
    BY <1>0, <1>1, CalledSound DEF Write
  <2>2. /\ f.op = g.op /\ f.locked = g.locked /\ f.consumer = g.consumer /\ f.node = g.node
        /\ f.missing = g.missing /\ f.orphaned = g.orphaned /\ f.wants = g.wants
        /\ f.seen = g.seen /\ f.todo = g.todo /\ f.call = NoCall
    BY <1>0 DEF Flows
  <2> HIDE DEF f
  <2>3. Shape(w, f)
    BY <1>0, <2>2 DEF Shape, NoCall, Call
  <2>4. g.op = "sync" => SoFar(f, db, Sees(w)) /\ InFlight(f, Sees(w))
    <3> SUFFICES ASSUME g.op = "sync" PROVE SoFar(f, db, Sees(w)) /\ InFlight(f, Sees(w))
      OBVIOUS
    <3>1. g.wants = "same"
      <4>1. NoRow.status = "none" /\ g.call.do \in {"replace", "suspend"}
        BY <1>1, <1>n DEF NoRow, Row, Calls
      <4> QED BY <1>0, <1>1, <1>s, <4>1 DEF InFlight, Fits
    <3>2. Tables!Touched(db.rows[c][n], Sees(w).rows[c][n])
      BY <1>s DEF Tables!Touched
    <3>3. SoFar(f, db, Sees(w))
      BY <1>0, <1>n, <1>s, <2>2, <3>1, <3>2, Written
    <3> QED BY <2>2, <3>3 DEF InFlight
  <2>5. Kept(w, f, db, Sees(w))
    BY <1>0, <2>2, <2>4 DEF Kept, KeptByRequest, KeptByLoop
  <2> QED BY <2>1, <2>2, <2>3, <2>5, OneCalls
<1>2. CASE ~(g.call.do # "insert" /\ row = NoRow) /\ Violates(Sees(w), c, g.call)
  BY <1>2, EndIsolated DEF Write
<1>3. CASE ~(g.call.do # "insert" /\ row = NoRow) /\ ~Violates(Sees(w), c, g.call)
  <2> DEFINE f == [g EXCEPT !.call = NoCall, !.locked = TRUE]
             new == Result(row, g.call)
  <2>1. /\ flow' = [flow EXCEPT ![w] = f] /\ db' = db /\ MayWrite(w)
        /\ view' = [Sees(w) EXCEPT !.rows[c][n] = new]
    BY <1>3 DEF Write
  <2>2. f \in SoundFlows
    BY <1>0, CalledSound
  <2>3. /\ f.op = g.op /\ f.locked /\ f.consumer = c /\ f.node = g.node /\ f.wants = g.wants
        /\ f.missing = g.missing /\ f.orphaned = g.orphaned
        /\ f.seen = g.seen /\ f.todo = g.todo /\ f.call = NoCall
    BY <1>0 DEF Flows
  <2> HIDE DEF f
  <2>5. Shape(w, f)
    BY <1>0, <1>n, <2>3 DEF Shape, NoCall, Call
  <2>6. /\ view'.status = Sees(w).status
        /\ \A b \in Consumers \ {c} : view'.rows[b] = Sees(w).rows[b]
        /\ \A b \in Consumers, m \in Nodes :
             view'.rows[b][m] = IF b = c /\ m = n THEN new ELSE Sees(w).rows[b][m]
    <3> HIDE DEF new
    <3> DEFINE d == Sees(w)
    <3>1. d \in SoundTables /\ view' = [d EXCEPT !.rows[c][n] = new]
      BY <1>0, <2>1
    <3> HIDE DEF d, c, n
    <3>2. c \in Consumers /\ n \in Nodes
      BY <1>0, <1>n DEF c, n
    <3> QED BY <3>1, <3>2 DEF SoundTables, Databases, d
  <2>7. g.op = "sync" => SoFar(f, db, view') /\ InFlight(f, view')
    <3> SUFFICES ASSUME g.op = "sync" PROVE SoFar(f, db, view') /\ InFlight(f, view')
      OBVIOUS
    <3>1. \/ Tables!Worked(row, new)
          \/ g.wants = "same" /\ Tables!Touched(row, new)
      <4>1. CASE g.wants = "same"
        <5>1. (g.call.do = "insert") <=> (row = NoRow)
          BY <1>3 DEF Violates
        <5> QED BY <1>0, <1>n, <1>r, <4>1, <5>1, ResultTouched
      <4>2. CASE g.wants # "same"
        BY <1>0, <1>n, <1>r, <1>s, <4>2, ResultWorked DEF InFlight
      <4> QED BY <4>1, <4>2
    <3> HIDE DEF new
    <3>2. view'.rows[c][n] = new /\ \A m \in Nodes \ {n} : view'.rows[c][m] = Sees(w).rows[c][m]
      BY <1>0, <1>n, <2>6
    <3>3. \/ Tables!Worked(db.rows[c][n], view'.rows[c][n])
          \/ g.wants = "same" /\ Tables!Touched(db.rows[c][n], view'.rows[c][n])
      BY <1>s, <3>1, <3>2
    <3>4. SoFar(f, db, view')
      <4> HIDE DEF g, c, n, row
      <4> QED BY <1>0, <1>n, <1>s, <2>3, <2>6, <3>2, <3>3, Written DEF c, n
    <3> QED BY <2>3, <3>4 DEF InFlight
  <2>8. g.op = "revoke" => new = NoRow /\ (w = Loop => n = g.node)
    BY <1>0 DEF Shape, Result
  <2> HIDE DEF new
  <2>9. CASE w = Loop
    <3>1. KeptByLoop(g, db, Sees(w))
      BY <1>0, <2>9 DEF Kept
    <3>2. c \notin f.missing \cup f.orphaned /\ f.missing \cup f.orphaned \subseteq Consumers
      BY <1>0, <1>n, <2>3 DEF Shape, Flows
    <3>3. \A b \in f.missing \cup f.orphaned, m \in Nodes : view'.rows[b][m] = db.rows[b][m]
      BY <2>3, <2>6, <3>1, <3>2 DEF KeptByLoop
    <3>4. ASSUME NEW b \in Consumers, ~(f.op = "sync" /\ b = f.consumer)
          PROVE  Whole(f.node, b, db, view')
      <4>1. CASE b # c
        <5>1. Whole(g.node, b, db, Sees(w))
          BY <3>1, <4>1 DEF KeptByLoop
        <5>2. \A m \in Nodes : view'.rows[b][m] = Sees(w).rows[b][m]
          BY <2>6, <4>1
        <5> QED BY <2>3, <5>1, <5>2 DEF Whole
      <4>2. CASE b = c
        <5>1. g.op = "revoke"
          BY <1>n, <2>3, <3>4, <4>2
        <5>2. \A m \in Nodes : view'.rows[c][m] = IF m = g.node THEN NoRow ELSE db.rows[c][m]
          BY <1>0, <2>6, <2>8, <2>9, <3>1, <5>1 DEF KeptByLoop
        <5> QED BY <2>3, <4>2, <5>2 DEF Whole
      <4> QED BY <4>1, <4>2
    <3>5. f.op = "revoke" =>
            \A m \in Nodes \ {f.node} : view'.rows[f.consumer][m] = db.rows[f.consumer][m]
      BY <1>0, <2>3, <2>6, <2>8, <2>9, <3>1 DEF KeptByLoop
    <3>6. KeptByLoop(f, db, view')
      BY <2>3, <2>6, <2>7, <3>1, <3>3, <3>4, <3>5 DEF KeptByLoop
    <3> QED BY <2>1, <2>2, <2>3, <2>5, <2>9, <3>6, OneWorks DEF Kept
  <2>10. CASE w # Loop
    <3>1. KeptByRequest(g, db, Sees(w))
      BY <1>0, <2>10 DEF Kept
    <3>2. KeptByRequest(f, db, view')
      BY <1>0, <2>3, <2>6, <2>7, <3>1 DEF KeptByRequest
    <3> QED BY <2>1, <2>2, <2>3, <2>5, <2>10, <3>2, OneWorks DEF Kept
  <2> QED BY <2>9, <2>10
<1> QED BY <1>1, <1>2, <1>3

-----------------------------------------------------------------------------
(* The end of a request, and the loop, isolated *)

\* A request ends with its commit, with a deletion, or for want of the lock.
LEMMA FinishIsolated ==
  ASSUME Inv, Isolated, NEW w \in Workers,
         FinishSync(w) \/ FinishDelete(w) \/ TimeOut(w) \/ RecoverLater(w)
  PROVE  Isolated'
<1> DEFINE g == flow[w]
<1>1. CASE FinishSync(w) \/ TimeOut(w)
  BY <1>1, EndIsolated DEF FinishSync, TimeOut
<1>2. CASE FinishDelete(w)
  <2>1. flow' = [flow EXCEPT ![w] = Finished(w)] /\ db' = view' /\ MayWrite(w)
    BY <1>2 DEF FinishDelete
  <2>2. /\ Finished(w) \in SoundFlows /\ ~Finished(w).locked /\ Shape(w, Finished(w))
        /\ Finished(w).op = "idle"
    BY IdleSound, IdleShaped
  <2>3. Kept(w, Finished(w), db', db')
    BY <2>2, KeptAtFirst
  <2> QED BY <2>1, <2>2, <2>3, OneWorks
<1>3. CASE RecoverLater(w)
  <2> DEFINE f == [g EXCEPT !.call = NoCall]
  <2>1. /\ flow' = [flow EXCEPT ![w] = f] /\ UNCHANGED <<db, view>> /\ f \in SoundFlows
        /\ ~g.locked
    BY <1>3, FlowFacts, CalledSound, IdleSound DEF RecoverLater
  <2>2. /\ f.op = g.op /\ f.locked = g.locked /\ f.consumer = g.consumer /\ f.node = g.node
        /\ f.missing = g.missing /\ f.orphaned = g.orphaned /\ f.wants = g.wants
        /\ f.seen = g.seen /\ f.todo = g.todo /\ f.call = NoCall
    BY FlowFacts DEF Flows
  <2> HIDE DEF f
  <2>3. Shape(w, f)
    BY <2>2 DEF Isolated, Shape, NoCall, Call
  <2>4. Sees(w) = db
    BY <2>1 DEF Sees
  <2>5. f.op = "sync" => w # Loop /\ f.wants = "same"
    BY <2>1, <2>2, <2>3 DEF Shape
  <2> QED BY <2>1, <2>2, <2>3, <2>4, <2>5, KeptAtFirst, OneCalls
<1> QED BY <1>1, <1>2, <1>3

\* A synchronization by the loop with nothing ahead is whole.
LEMMA SyncedWhole ==
  ASSUME NEW f, NEW n, NEW old \in SoundTables, NEW new \in SoundTables,
         f.consumer \in Consumers, f.wants = "nothing", Ahead(f) = {},
         SoFar(f, old, new), new.status = old.status
  PROVE  Whole(n, f.consumer, old, new)
<1> DEFINE c == f.consumer
<1>1. CASE old.status[c] = "absent"
  <2>1. \A m \in Nodes : old.rows[c][m] = NoRow /\ new.rows[c][m] = NoRow
    BY <1>1 DEF SoundTables
  <2> QED BY <2>1 DEF Whole
<1>2. CASE old.status[c] # "absent"
  <2>1. \A m \in Nodes : Tables!Worked(old.rows[c][m], new.rows[c][m])
    BY <1>2 DEF SoFar
  <2> QED BY <1>2, <2>1 DEF Whole
<1> QED BY <1>1, <1>2

\* The loop reads what is missing and orphaned, takes the lock, and goes through
\* its lists.
LEMMA LoopIsolated ==
  ASSUME Inv, Isolated,
         (\E n \in Watched : DetectKeys(n)) \/ DetectConsumers \/ LockForReconcile \/ Reconcile
  PROVE  Isolated'
<1> DEFINE g == flow[Loop]
<1>0. /\ Loop \in Workers /\ g \in SoundFlows /\ g \in Flows
      /\ g.missing \subseteq Consumers /\ g.orphaned \subseteq Consumers /\ g.node \in Nodes
      /\ Sees(Loop) \in SoundTables /\ db \in SoundTables
  BY FlowFacts DEF Workers, Inv
<1>k. Shape(Loop, g) /\ KeptByLoop(g, db, Sees(Loop))
  BY <1>0 DEF Isolated, Kept
<1>1. ASSUME NEW n \in Watched, DetectKeys(n) PROVE Isolated'
  <2> DEFINE listed == {c \in Consumers : db.rows[c][n] # NoRow}
             f == [Idle EXCEPT !.op = "detect", !.node = n,
                               !.missing = Keyless(n), !.orphaned = listed]
  <2>1. n \in Nodes /\ Keyless(n) \subseteq Consumers /\ listed \subseteq Consumers
    BY KeysAssumption DEF Keyless
  <2>2. f \in SoundFlows
    <3> HIDE DEF listed
    <3> QED BY <2>1, IdleSound DEF SoundFlows, Flows
  <2>3. flow' = [flow EXCEPT ![Loop] = f] /\ UNCHANGED <<db, view>> /\ g.op = "idle"
    BY <1>1 DEF DetectKeys
  <2>4. f.op = "detect" /\ f.call = NoCall /\ f.node = n /\ ~f.locked /\ f.wants = "nothing"
    BY IdleSound DEF Idle
  <2> HIDE DEF f
  <2>5. Shape(Loop, f)
    BY <2>4 DEF Shape
  <2>6. ~g.locked
    BY <1>k, <2>3 DEF Shape
  <2>7. Kept(Loop, f, db', db')
    BY <2>4, KeptAtFirst
  <2> QED BY <1>0, <2>2, <2>3, <2>4, <2>5, <2>6, <2>7, OneWorks
<1>7. CASE DetectConsumers
  <2> DEFINE h == [g EXCEPT !.op = "reconcile", !.missing = g.missing \cap Active,
                            !.orphaned = Orphaned(g.orphaned)]
  <2>1. /\ h \in SoundFlows
        /\ h.op = "reconcile" /\ h.call = g.call /\ h.node = g.node /\ h.locked = g.locked
        /\ h.wants = g.wants /\ h.missing \cap h.orphaned = {}
    BY <1>0 DEF SoundFlows, Flows, Orphaned
  <2>2. g.op = "detect" /\ UNCHANGED <<db, view>>
        /\ \E f \in {Idle, h} : flow' = [flow EXCEPT ![Loop] = f]
    BY <1>7 DEF DetectConsumers
  <2> HIDE DEF h
  <2>3. PICK f \in {Idle, h} : flow' = [flow EXCEPT ![Loop] = f]
    BY <2>2
  <2>4. Shape(Loop, h) /\ ~g.locked
    BY <1>k, <2>1, <2>2 DEF Shape
  <2>5. f \in SoundFlows /\ Shape(Loop, f) /\ ~f.locked /\ f.op # "sync"
    BY <2>1, <2>3, <2>4, IdleSound, IdleShaped
  <2>6. Kept(Loop, f, db', db')
    BY <2>5, KeptAtFirst
  <2> QED BY <1>0, <2>2, <2>3, <2>4, <2>5, <2>6, OneWorks
<1>2. CASE LockForReconcile
  <2> DEFINE f == [g EXCEPT !.locked = TRUE]
  <2>1. /\ flow' = [flow EXCEPT ![Loop] = f] /\ UNCHANGED <<db, view>>
        /\ Unlocked /\ g.op = "reconcile" /\ f \in SoundFlows
    BY <1>0, <1>2 DEF LockForReconcile, SoundFlows, Flows
  <2>2. /\ f.op = g.op /\ f.call = g.call /\ f.node = g.node /\ f.locked /\ f.wants = g.wants
        /\ f.missing = g.missing /\ f.orphaned = g.orphaned
    BY <1>0 DEF Flows
  <2> HIDE DEF f
  <2>3. Shape(Loop, f)
    BY <1>k, <2>1, <2>2 DEF Shape
  <2>4. view' = db'
    BY <2>1 DEF Isolated, Settled
  <2>5. Kept(Loop, f, db', db')
    BY <2>1, <2>2, KeptAtFirst
  <2> QED BY <1>0, <2>1, <2>2, <2>3, <2>4, <2>5, OneWorks DEF MayWrite
<1>3. ASSUME NEW c \in Consumers, SyncMissing(c) PROVE Isolated'
  <2> DEFINE todo == IF view.status[c] = "absent" THEN {} ELSE Nodes
             f == [g EXCEPT !.missing = g.missing \ {c}, !.consumer = c, !.op = "sync",
                            !.todo = todo]
  <2>1. /\ flow' = [flow EXCEPT ![Loop] = f] /\ UNCHANGED <<db, view>> /\ f \in SoundFlows
        /\ g.op = "reconcile" /\ c \in g.missing /\ g.locked
    BY <1>0, <1>3 DEF SyncMissing, SoundFlows, Flows
  <2>2. /\ f.op = "sync" /\ f.call = g.call /\ f.node = g.node /\ f.locked = g.locked
        /\ f.consumer = c /\ f.missing = g.missing \ {c} /\ f.orphaned = g.orphaned
        /\ f.wants = g.wants /\ f.todo = todo
    BY <1>0 DEF Flows
  <2> HIDE DEF f
  <2>3. Shape(Loop, f)
    BY <1>k, <2>1, <2>2 DEF Shape, NoCall, Call
  <2>4. SoFar(f, db, Sees(Loop)) /\ InFlight(f, Sees(Loop))
    <3>1. Sees(Loop) = view /\ g.call = NoCall
      BY <1>k, <2>1 DEF Sees, Shape
    <3>2. \A n \in Nodes : Sees(Loop).rows[c][n] = db.rows[c][n]
      BY <1>k, <2>1 DEF KeptByLoop
    <3>3. \A n \in Nodes : n \in Ahead(f) \/ Sees(Loop).status[c] = "absent"
      BY <2>2, <3>1 DEF Ahead
    <3> QED BY <2>2, <3>1, <3>2, <3>3 DEF SoFar, InFlight
  <2>5. KeptByLoop(f, db, Sees(Loop))
    BY <1>k, <2>1, <2>2, <2>4 DEF KeptByLoop
  <2> QED BY <1>0, <2>1, <2>2, <2>3, <2>5, OneCalls DEF Kept
<1>4. ASSUME NEW c \in Consumers, CleanOrphan(c) PROVE Isolated'
  <2> DEFINE seen == [NoRows EXCEPT ![g.node] = view.rows[c][g.node]]
             f == [g EXCEPT !.orphaned = g.orphaned \ {c}, !.consumer = c, !.op = "revoke",
                            !.seen = seen]
  <2>1. view.rows[c][g.node] \in KeyRows
    BY <1>0 DEF Inv, SoundTables, Databases
  <2>2. seen \in [Nodes -> KeyRows] /\ \A n \in Nodes : n # g.node => seen[n] = NoRow
    BY <2>1, IdleSound DEF NoRows
  <2>3. /\ flow' = [flow EXCEPT ![Loop] = f] /\ UNCHANGED <<db, view>>
        /\ g.op = "reconcile" /\ g.missing = {} /\ c \in g.orphaned /\ g.locked
    BY <1>4 DEF CleanOrphan
  <2> HIDE DEF seen
  <2>4. /\ f \in SoundFlows
        /\ f.op = "revoke" /\ f.call = g.call /\ f.node = g.node /\ f.locked = g.locked
        /\ f.missing = g.missing /\ f.orphaned = g.orphaned \ {c} /\ f.consumer = c
        /\ f.wants = g.wants /\ f.seen = seen
    BY <1>0, <2>2 DEF SoundFlows, Flows
  <2> HIDE DEF f
  <2>5. Shape(Loop, f)
    BY <1>k, <2>2, <2>3, <2>4 DEF Shape
  <2>6. KeptByLoop(f, db, Sees(Loop))
    BY <1>k, <2>3, <2>4 DEF KeptByLoop
  <2> QED BY <1>0, <2>3, <2>4, <2>5, <2>6, OneCalls DEF Kept
<1>5. CASE NextItem
  <2> DEFINE f == [g EXCEPT !.op = "reconcile"]
  <2>1. /\ flow' = [flow EXCEPT ![Loop] = f] /\ UNCHANGED <<db, view>> /\ f \in SoundFlows
        /\ g.op \in {"sync", "revoke"} /\ g.call = NoCall /\ g.todo = {}
    BY <1>0, <1>5 DEF NextItem, Done, SoundFlows, Flows
  <2>2. /\ f.op = "reconcile" /\ f.call = g.call /\ f.node = g.node /\ f.locked = g.locked
        /\ f.missing = g.missing /\ f.orphaned = g.orphaned /\ f.wants = g.wants
    BY <1>0 DEF Flows
  <2> HIDE DEF f
  <2>3. Shape(Loop, f)
    BY <1>k, <2>1, <2>2 DEF Shape
  <2>4. ASSUME g.op = "sync" PROVE Whole(g.node, g.consumer, db, Sees(Loop))
    <3>1. Ahead(g) = {} /\ g.wants = "nothing"
      BY <1>k, <2>1 DEF Ahead, Shape
    <3>2. SoFar(g, db, Sees(Loop)) /\ Sees(Loop).status = db.status
      BY <1>k, <2>4 DEF KeptByLoop
    <3> QED BY <1>0, <3>1, <3>2, SyncedWhole, FlowFacts
  <2>5. KeptByLoop(f, db, Sees(Loop))
    BY <1>k, <2>1, <2>2, <2>4 DEF KeptByLoop
  <2> QED BY <1>0, <2>1, <2>2, <2>3, <2>5, OneCalls DEF Kept
<1>6. CASE FinishReconcile
  BY <1>0, <1>6, EndIsolated DEF FinishReconcile
<1> QED BY <1>1, <1>2, <1>3, <1>4, <1>5, <1>6, <1>7 DEF Reconcile

\* Nobody writes at first.
LEMMA InitIsolated == Init => Isolated
<1> SUFFICES ASSUME Init PROVE Isolated
  OBVIOUS
<1>1. view = db /\ \A w \in Workers : flow[w] = Idle
  BY DEF Init
<1>2. \A w \in Workers : Kept(w, flow[w], db, Sees(w))
  BY <1>1, IdleShaped, KeptAtFirst DEF Sees
<1> QED BY <1>1, <1>2, IdleShaped DEF Isolated, Exclusive, Settled

\* A restart forgets every open transaction, and with it what it had written.
LEMMA RestIsolated ==
  ASSUME Isolated, Restart \/ UNCHANGED vars
  PROVE  Isolated'
<1>1. CASE Restart
  <2>1. view' = db' /\ \A w \in Workers : flow'[w] = Idle
    BY <1>1 DEF Restart
  <2>2. \A w \in Workers : Sees(w)' = db'
    BY <2>1 DEF Sees
  <2>3. ASSUME NEW w \in Workers PROVE Kept(w, flow[w], db, Sees(w))'
    <3>1. Kept(w, flow'[w], db', Sees(w)')
      BY <2>1, <2>2, IdleShaped, KeptAtFirst
    <3> QED BY <3>1 DEF Kept, KeptByRequest, KeptByLoop, SoFar, InFlight, Ahead, Whole
  <2>4. \A w \in Workers : Shape(w, flow[w])'
    BY <2>1, IdleShaped DEF Shape
  <2> QED BY <2>1, <2>3, <2>4, IdleShaped DEF Isolated, Exclusive, Settled
<1>2. CASE UNCHANGED vars
  <2>1. UNCHANGED <<db, view, flow>> /\ \A w \in Workers : Sees(w)' = Sees(w)
    BY <1>2 DEF vars, Sees
  <2>2. ASSUME NEW w \in Workers PROVE Kept(w, flow[w], db, Sees(w))'
    BY <2>1 DEF Isolated, Kept, KeptByRequest, KeptByLoop, SoFar, InFlight, Ahead, Whole
  <2>3. \A w \in Workers : Shape(w, flow[w])'
    BY <2>1 DEF Isolated, Shape
  <2>4. (Exclusive /\ Settled)'
    BY <2>1 DEF Isolated, Exclusive, Settled, Unlocked
  <2> QED BY <2>2, <2>3, <2>4 DEF Isolated
<1> QED BY <1>1, <1>2

\* Isolated is kept by every step.
LEMMA NextIsolated == Inv /\ Isolated /\ [Next]_vars => Isolated'
<1> SUFFICES ASSUME Inv, Isolated, [Next]_vars PROVE Isolated'
  OBVIOUS
<1>1. ASSUME NEW w \in Workers, TimeOut(w) \/ RecoverLater(w) \/ Proceed(w) PROVE Isolated'
  BY <1>1, SyncIsolated, RevokeIsolated, WriteIsolated, FinishIsolated DEF Proceed
<1> QED BY <1>1, RequestIsolated, LoopIsolated, RestIsolated DEF Next

-----------------------------------------------------------------------------
(* Each commit is a step of KeyTables *)

\* A step of one worker changes what is asked of that worker only.
LEMMA OneAsked ==
  ASSUME Inv, NEW w \in Workers, NEW f, flow' = [flow EXCEPT ![w] = f]
  PROVE  /\ \A r \in Requests : /\ Asked[r].consumer = flow[r].consumer
                                /\ Asked[r].wants = flow[r].wants
         /\ \A r \in Requests \ {w} : Asked'[r] = Asked[r]
         /\ w \in Requests => Asked'[w].wants = f.wants
         /\ ((f.consumer = flow[w].consumer /\ f.wants = flow[w].wants) \/ w = Loop)
              => UNCHANGED Asked
<1>1. \A v \in Workers : flow'[v] = IF v = w THEN f ELSE flow[v]
  BY DEF Inv
<1>2. \A r \in Requests : r \in Workers /\ r # Loop
  BY KeysAssumption DEF Workers
<1> QED BY <1>1, <1>2 DEF Asked

\* A request whose transaction is committed is done.
LEMMA Answered ==
  ASSUME Inv, NEW w \in Requests, flow' = [flow EXCEPT ![w] = Finished(w)]
  PROVE  /\ Asked[w].consumer = flow[w].consumer /\ Asked[w].wants = flow[w].wants
         /\ Tables!Ends(w, "done")
<1>1. w \in Workers /\ w # Loop
  BY KeysAssumption DEF Workers
<1>2. Finished(w).wants = "done"
  BY <1>1 DEF Finished, Idle
<1> QED BY <1>1, <1>2, OneAsked DEF Tables!Ends

\* What a request commits it saves, and nothing else.
LEMMA SaveRefines ==
  ASSUME Inv, Isolated, NEW w \in Workers, FinishSync(w)
  PROVE  Tables!Save(w) \/ Tables!Resync(w)
<1> DEFINE g == flow[w]
           c == g.consumer
<1>1. /\ w \in Requests /\ w # Loop /\ db' = Sees(w) /\ flow' = [flow EXCEPT ![w] = Finished(w)]
      /\ db' \in SoundTables /\ db \in SoundTables /\ c \in Consumers
      /\ g.op = "sync" /\ g.call = NoCall /\ g.todo = {}
  BY FlowFacts DEF FinishSync, Done, Commit, Workers, Inv
<1>2. KeptByRequest(g, db, db') /\ Shape(w, g)
  BY <1>1 DEF Isolated, Kept
<1>3. Ahead(g) = {}
  BY <1>1 DEF Ahead
<1>4. Tables!Only(c)
  BY <1>2 DEF KeptByRequest, Tables!Only
<1>5. /\ Asked[w].consumer = c /\ Asked[w].wants = g.wants
      /\ Tables!Ends(w, "done")
  BY <1>1, Answered
<1>6. CASE g.wants # "same"
  <2>1. \A n \in Nodes : Tables!Worked(db.rows[c][n], db'.rows[c][n])
    BY <1>1, <1>2, <1>3, <1>6 DEF KeptByRequest, SoFar
  <2> QED BY <1>1, <1>2, <1>4, <1>5, <1>6, <2>1 DEF KeptByRequest, Shape, Tables!Save
<1>7. CASE g.wants = "same"
  <2>1. \A n \in Nodes : Tables!Touched(db.rows[c][n], db'.rows[c][n])
    BY <1>1, <1>2, <1>3 DEF KeptByRequest, SoFar, Tables!Touched
  <2>2. db'.status[c] = db.status[c]
    BY <1>1, <1>2, <1>7 DEF KeptByRequest
  <2>3. db.status[c] = "absent" => \A n \in Nodes : db'.rows[c][n] = Tables!NoRow
    BY <1>1, <2>2 DEF SoundTables, Tables!NoRow, NoRow, Row
  <2> QED BY <1>4, <1>5, <1>7, <2>1, <2>2, <2>3 DEF Tables!Resync
<1> QED BY <1>6, <1>7

\* A deletion deletes its consumer.
LEMMA DeletionRefines ==
  ASSUME Inv, Isolated, NEW w \in Workers, FinishDelete(w)
  PROVE  w \in Requests /\ Tables!Delete(w)
<1> DEFINE c == flow[w].consumer
<1>1. /\ db' = [Sees(w) EXCEPT !.status[c] = "absent", !.rows[c] = NoRows]
      /\ Sees(w) \in SoundTables /\ c \in Consumers /\ w # Loop /\ w \in Requests
      /\ flow' = [flow EXCEPT ![w] = Finished(w)] /\ flow[w].op = "revoke"
  BY FlowFacts DEF FinishDelete, Workers
<1>2. KeptByRequest(flow[w], db, Sees(w)) /\ Shape(w, flow[w])
  BY <1>1 DEF Isolated, Kept
<1>3. \A b \in Consumers : /\ db'.status[b] = IF b = c THEN "absent" ELSE Sees(w).status[b]
                           /\ db'.rows[b] = IF b = c THEN NoRows ELSE Sees(w).rows[b]
  <2> HIDE DEF c
  <2> QED BY <1>1 DEF SoundTables, Databases
<1>4. Tables!Only(c)
  BY <1>2, <1>3 DEF KeptByRequest, Tables!Only
<1>5. \A n \in Nodes : db'.rows[c][n] = Tables!NoRow
  BY <1>1, <1>3 DEF NoRows, NoRow, Row, Tables!NoRow
<1>6. /\ Asked[w].consumer = c /\ Asked[w].wants = "absent"
      /\ Tables!Ends(w, "done")
  BY <1>1, <1>2, Answered DEF Shape
<1> QED BY <1>1, <1>3, <1>4, <1>5, <1>6 DEF Tables!Delete

\* What the loop commits, at the end of a round or when one stops, repairs the
\* node whose drift it detected.
LEMMA RepairRefines ==
  ASSUME Inv, Isolated, Commit(Loop), flow[Loop].op # "idle"
  PROVE  \E n \in Watched : Tables!Repair(n)
<1> DEFINE g == flow[Loop]
<1>1. /\ Loop \in Workers /\ db' = Sees(Loop) /\ flow' = [flow EXCEPT ![Loop] = Finished(Loop)]
      /\ db' \in SoundTables /\ db \in SoundTables /\ g.consumer \in Consumers
  BY FlowFacts DEF Commit, Workers, Inv
<1>2. KeptByLoop(g, db, db') /\ Shape(Loop, g) /\ g.node \in Watched
  BY <1>1 DEF Isolated, Kept, Shape
<1>3. UNCHANGED Asked
  BY <1>1, OneAsked
<1>4. Tables!NoRow = NoRow
  BY DEF Tables!NoRow, NoRow, Row
<1>5. ASSUME NEW c \in Consumers
      PROVE  \/ \A m \in Nodes : db'.rows[c][m] = db.rows[c][m]
             \/ /\ db.status[c] # "absent"
                /\ \A m \in Nodes : \/ Tables!Worked(db.rows[c][m], db'.rows[c][m])
                                    \/ c = g.consumer /\ db'.rows[c][m] = db.rows[c][m]
             \/ \A m \in Nodes : db'.rows[c][m] = IF m = g.node THEN Tables!NoRow
                                                 ELSE db.rows[c][m]
  <2>1. CASE ~(g.op = "sync" /\ c = g.consumer)
    <3>1. Whole(g.node, c, db, db')
      BY <1>2, <2>1 DEF KeptByLoop
    <3> QED BY <1>4, <3>1 DEF Whole
  <2>2. CASE g.op = "sync" /\ c = g.consumer
    <3>1. SoFar(g, db, db') /\ g.wants # "same" /\ db'.status = db.status
      BY <1>2, <2>2 DEF KeptByLoop, Shape
    <3>2. CASE db.status[c] = "absent"
      <4>1. \A m \in Nodes : db'.rows[c][m] = NoRow /\ db.rows[c][m] = NoRow
        BY <1>1, <3>1, <3>2 DEF SoundTables
      <4> QED BY <4>1
    <3>3. CASE db.status[c] # "absent"
      BY <2>2, <3>1, <3>3 DEF SoFar
    <3> QED BY <3>2, <3>3
  <2> QED BY <2>1, <2>2
<1>6. Tables!Repair(g.node)
  BY <1>1, <1>2, <1>3, <1>5 DEF Tables!Repair, KeptByLoop
<1> QED BY <1>2, <1>6

\* A transaction that fails leaves nothing, or what a round of the loop may leave.
LEMMA FailureRefines ==
  ASSUME Inv, Isolated, NEW w \in Workers, Rollback(w) \/ Raise(w), flow[w].op # "idle"
  PROVE  Tables!Next \/ UNCHANGED Tables!vars
<1>1. CASE Rollback(w)
  <2>1. db' = db /\ flow' = [flow EXCEPT ![w] = Idle] /\ Idle.wants = "nothing"
    BY <1>1 DEF Rollback, Idle
  <2>2. Tables!Fail
    BY <2>1, OneAsked DEF Tables!Fail
  <2> QED BY <2>2 DEF Tables!Next
<1>2. CASE ~Rollback(w)
  <2>1. w = Loop /\ Commit(Loop)
    BY <1>2 DEF Raise
  <2> QED BY <2>1, RepairRefines DEF Tables!Next
<1> QED BY <1>1, <1>2

\* No other step changes what is committed or was asked.
LEMMA NextRefines == Inv /\ Isolated /\ [Next]_vars => Tables!Next \/ UNCHANGED Tables!vars
<1> SUFFICES ASSUME Inv, Isolated, [Next]_vars PROVE Tables!Next \/ UNCHANGED Tables!vars
  OBVIOUS
<1>0. ASSUME NEW w \in Workers, NEW f, flow' = [flow EXCEPT ![w] = f], db' = db,
             (f.consumer = flow[w].consumer /\ f.wants = flow[w].wants) \/ w = Loop
      PROVE  UNCHANGED Tables!vars
  BY <1>0, OneAsked DEF Tables!vars
<1>1. ASSUME NEW w \in Workers, NEW n \in Nodes, NEW answer, SyncNode(w, n, answer)
      PROVE  Tables!Next \/ UNCHANGED Tables!vars
  <2>1. CASE answer = "unset"
    BY <1>1, <2>1, FailureRefines DEF SyncNode
  <2>2. CASE answer # "unset"
    <3>1. PICK call : Called(w, n, call) /\ db' = db
      BY <1>1, <2>2 DEF SyncNode, GenerateKey, UpdateKey
    <3> DEFINE f == [flow[w] EXCEPT !.todo = flow[w].todo \ {n}, !.call = call]
    <3>2. flow' = [flow EXCEPT ![w] = f]
      BY <3>1 DEF Called
    <3>3. f.consumer = flow[w].consumer /\ f.wants = flow[w].wants
      BY FlowFacts DEF Flows
    <3> QED BY <1>0, <3>1, <3>2, <3>3
  <2> QED BY <2>1, <2>2
<1>2. ASSUME NEW w \in Workers, NEW n \in Nodes, NEW answer, RevokeNode(w, n, answer)
      PROVE  Tables!Next \/ UNCHANGED Tables!vars
  <2>1. CASE answer = "unset" /\ flow[w].seen[n].status = "active"
    BY <1>2, <2>1, FailureRefines DEF RevokeNode
  <2>2. CASE ~(answer = "unset" /\ flow[w].seen[n].status = "active")
    <3> DEFINE f == [flow[w] EXCEPT !.seen[n] = NoRow, !.call = Call("remove", n, NoKey)]
    <3>1. flow' = [flow EXCEPT ![w] = f] /\ db' = db
      BY <1>2, <2>2 DEF RevokeNode
    <3>2. f.consumer = flow[w].consumer /\ f.wants = flow[w].wants
      BY FlowFacts DEF Flows
    <3> QED BY <1>0, <3>1, <3>2
  <2> QED BY <2>1, <2>2
<1>3. ASSUME NEW w \in Workers, Write(w) PROVE Tables!Next \/ UNCHANGED Tables!vars
  <2> DEFINE call == flow[w].call
             row == Sees(w).rows[flow[w].consumer][call.node]
             f == [flow[w] EXCEPT !.call = NoCall]
             g == [flow[w] EXCEPT !.call = NoCall, !.locked = TRUE]
  <2>1. flow[w].op # "idle"
    BY <1>3 DEF Write, Isolated, Shape
  <2>2. \/ Raise(w)
        \/ db' = db /\ flow' = [flow EXCEPT ![w] = f]
        \/ db' = db /\ flow' = [flow EXCEPT ![w] = g]
    BY <1>3 DEF Write
  <2>3. /\ f.consumer = flow[w].consumer /\ f.wants = flow[w].wants
        /\ g.consumer = flow[w].consumer /\ g.wants = flow[w].wants
    BY FlowFacts DEF Flows
  <2> HIDE DEF f, g
  <2> QED BY <1>0, <2>1, <2>2, <2>3, FailureRefines
<1>4. ASSUME NEW w \in Workers,
             FinishSync(w) \/ FinishDelete(w) \/ TimeOut(w) \/ RecoverLater(w)
      PROVE  Tables!Next \/ UNCHANGED Tables!vars
  <2>1. CASE FinishSync(w)
    BY <2>1, SaveRefines DEF FinishSync, Workers, Tables!Next
  <2>2. CASE FinishDelete(w)
    BY <2>2, DeletionRefines DEF Tables!Next
  <2>3. CASE TimeOut(w)
    <3>1. flow[w].op # "idle"
      BY <2>3 DEF TimeOut, IsWriting, Isolated, Shape
    <3> QED BY <2>3, <3>1, FailureRefines DEF TimeOut
  <2>4. CASE RecoverLater(w)
    <3> DEFINE f == [flow[w] EXCEPT !.call = NoCall]
    <3>1. flow' = [flow EXCEPT ![w] = f] /\ db' = db
      BY <2>4 DEF RecoverLater
    <3>2. f.consumer = flow[w].consumer /\ f.wants = flow[w].wants
      BY FlowFacts DEF Flows
    <3> QED BY <1>0, <3>1, <3>2
  <2> QED BY <1>4, <2>1, <2>2, <2>3, <2>4
<1>5. ASSUME NEW w \in Requests, Request(w) PROVE Tables!Next \/ UNCHANGED Tables!vars
  <2>1. w \in Workers /\ w # Loop
    BY KeysAssumption DEF Workers
  <2>2. PICK f : flow' = [flow EXCEPT ![w] = f] /\ db' = db /\ flow[w].op = "idle"
    BY <1>5 DEF Request, CreateConsumer, UpdateConsumer, ResyncConsumer, DeleteConsumer, Start
  <2>3. flow[w].wants \in {"done", "nothing"}
    BY <2>1, <2>2 DEF Isolated, Shape
  <2>4. Asked[w].wants = flow[w].wants /\ \A q \in Requests \ {w} : Asked'[q] = Asked[q]
    BY <2>1, <2>2, OneAsked
  <2>5. Tables!Ask(w)
    BY <2>2, <2>3, <2>4 DEF Tables!Ask
  <2> QED BY <2>5 DEF Tables!Next
<1>6. CASE (\E n \in Watched : DetectKeys(n)) \/ DetectConsumers \/ LockForReconcile \/ Reconcile
  <2>0. Loop \in Workers
    BY DEF Workers
  <2>1. CASE FinishReconcile
    BY <2>1, RepairRefines DEF FinishReconcile, Tables!Next
  <2>2. CASE ~FinishReconcile
    <3>1. \E f : flow' = [flow EXCEPT ![Loop] = f] /\ db' = db
      BY <1>6, <2>2 DEF DetectKeys, DetectConsumers, LockForReconcile, Reconcile, SyncMissing,
                        CleanOrphan, NextItem
    <3> QED BY <1>0, <2>0, <3>1
  <2> QED BY <2>1, <2>2
<1>7. CASE Restart
  <2>1. db' = db /\ flow' = [w \in Workers |-> Idle] /\ Idle.wants = "nothing"
    BY <1>7 DEF Restart, Idle
  <2>2. \A r \in Requests : Asked'[r].wants = "nothing"
    BY <2>1 DEF Asked, Workers
  <2>3. Tables!Fail
    BY <2>1, <2>2 DEF Tables!Fail
  <2> QED BY <2>3 DEF Tables!Next
<1>8. CASE UNCHANGED vars
  BY <1>8 DEF vars, Asked, Tables!vars
<1> QED BY <1>1, <1>2, <1>3, <1>4, <1>5, <1>6, <1>7, <1>8 DEF Next, Proceed

\* A request that commits has stored the status it was asked for and one outcome
\* of every node, one that fails nothing, and a round of the loop is whole up to
\* the consumer it stopped at: for any number of requests, nodes and consumers,
\* whatever the nodes answer.
THEOREM CommitsAreWhole == Spec => CommitsAreIsolated
<1>1. Init => Tables!Init
  <2> SUFFICES ASSUME Init PROVE Tables!Init
    OBVIOUS
  <2>1. \A r \in Requests : Asked[r].wants = "nothing"
    BY DEF Init, Asked, Idle, Workers
  <2> QED BY <2>1 DEF Init, NoRows, NoRow, Row, Tables!Init, Tables!NoRow
<1>2. Init => Inv /\ Isolated
  BY InitInv, InitIsolated
<1>3. Inv /\ Isolated /\ [Next]_vars => (Inv /\ Isolated)'
  BY NextInv, NextIsolated
<1>4. Inv /\ Isolated /\ [Next]_vars => [Tables!Next]_(Tables!vars)
  BY NextRefines
<1> QED BY <1>1, <1>2, <1>3, <1>4, PTL DEF Spec, CommitsAreIsolated, Tables!Spec
==============================================================================
