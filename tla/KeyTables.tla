------------------------------- MODULE KeyTables -------------------------------
(***************************************************************************)
(* What KeySync promises of the committed consumers and key rows.  A request *)
(* that commits has done what it was asked, to one consumer and with every    *)
(* node, as if it had run alone; one that does not leaves no trace.  A round  *)
(* of the loop changes no status and removes rows at one node only; when a    *)
(* node has no master key it stops, and what it did until then is committed:  *)
(* then one consumer, at most, is synchronized with some of the nodes.        *)
(***************************************************************************)
CONSTANTS
  Consumers, Nodes,
  Watched,      \* the nodes whose rows the loop may remove
  Keys,
  Placeholder,
  NoKey,
  Requests

VARIABLES
  tables,   \* consumers.status and consumer_keys
  asked     \* what each request wants of a consumer, or whether it is done

vars == <<tables, asked>>

NoRow == [key |-> NoKey, status |-> "none"]

\* What a synchronization under the write lock makes of a row: one with a key or
\* the placeholder where there was none; a key for a row that waits for one, or
\* no change when the node refuses again; a suspension of an active row that the
\* node does not update.
Worked(old, new) ==
  \/ old = NoRow /\ new = [key |-> Placeholder, status |-> "pending-sync"]
  \/ old.status # "active" /\ new.status = "active" /\ new.key \in Keys
  \/ old # NoRow /\ new = old
  \/ old.status = "active" /\ new = [old EXCEPT !.status = "pending-sync"]

\* What one does that begins without the lock, on rows that change meanwhile: a
\* row that is gone stays away, and a key that another request recovered is
\* replaced.
Touched(old, new) ==
  \/ new = old
  \/ Worked(old, new)
  \/ old # NoRow /\ new.status = "active" /\ new.key \in Keys

\* No consumer but c changes.
Only(c) ==
  \A b \in Consumers \ {c} :
    tables'.status[b] = tables.status[b] /\ tables'.rows[b] = tables.rows[b]

\* Request r ends, and no other.
Ends(r, how) ==
  /\ asked'[r].wants = how
  /\ \A q \in Requests \ {r} : asked'[q] = asked[q]

-----------------------------------------------------------------------------
Ask(r) ==
  /\ asked[r].wants \in {"done", "nothing"}
  /\ \A q \in Requests \ {r} : asked'[q] = asked[q]
  /\ UNCHANGED tables

\* A consumer is created or updated.
Save(r) ==
  LET c == asked[r].consumer
      wanted == asked[r].wants
  IN  /\ wanted \in {"active", "disabled", "kept"}
      /\ Only(c)
      /\ tables'.status[c] = IF wanted = "kept" THEN tables.status[c] ELSE wanted
      /\ tables'.status[c] # "absent"
      /\ \A n \in Nodes : Worked(tables.rows[c][n], tables'.rows[c][n])
      /\ Ends(r, "done")

\* A consumer is only synchronized, unless it has gone.
Resync(r) ==
  LET c == asked[r].consumer
  IN  /\ asked[r].wants = "same"
      /\ Only(c)
      /\ tables'.status[c] = tables.status[c]
      /\ \A n \in Nodes : IF tables.status[c] = "absent" THEN tables'.rows[c][n] = NoRow
                          ELSE Touched(tables.rows[c][n], tables'.rows[c][n])
      /\ Ends(r, "done")

\* A consumer is deleted, with every row.
Delete(r) ==
  LET c == asked[r].consumer
  IN  /\ asked[r].wants = "absent"
      /\ Only(c)
      /\ tables'.status[c] = "absent"
      /\ \A n \in Nodes : tables'.rows[c][n] = NoRow
      /\ Ends(r, "done")

\* A request fails, or all of them when the control plane restarts.
Fail ==
  /\ \A r \in Requests : asked'[r] = asked[r] \/ asked'[r].wants = "nothing"
  /\ UNCHANGED tables

\* The loop repairs the drift it found at node n.  Each consumer is left alone,
\* synchronized with all nodes, or loses its row at n; the synchronization of the
\* last may have stopped before some of the nodes.
Repair(n) ==
  /\ tables'.status = tables.status
  /\ \E last \in Consumers : \A c \in Consumers :
       LET old == tables.rows[c]
           new == tables'.rows[c]
       IN  \/ \A m \in Nodes : new[m] = old[m]
           \/ /\ tables.status[c] # "absent"
              /\ \A m \in Nodes : Worked(old[m], new[m]) \/ (c = last /\ new[m] = old[m])
           \/ \A m \in Nodes : new[m] = IF m = n THEN NoRow ELSE old[m]
  /\ UNCHANGED asked

Init ==
  /\ tables.status = [c \in Consumers |-> "absent"]
  /\ tables.rows = [c \in Consumers |-> [n \in Nodes |-> NoRow]]
  /\ \A r \in Requests : asked[r].wants = "nothing"

Next ==
  \/ \E r \in Requests : Ask(r) \/ Save(r) \/ Resync(r) \/ Delete(r)
  \/ Fail
  \/ \E n \in Watched : Repair(n)

Spec == Init /\ [][Next]_vars
==============================================================================
