------------------------------ MODULE KeyClaims ------------------------------
(* What the comments say of the revocation of keys and the code does not keep. *)
EXTENDS KeySync

\* delete_consumer_from_all_nodes: "only call the proxy if this is a real key (not
\* a placeholder)".  A row whose update was refused is pending as well and holds
\* a real key: that key is forgotten and works for ever.
RealKeysAreRevoked ==
  [][\A w \in Workers, n \in Nodes :
       LET c == flow[w].consumer
           key == flow[w].seen[n].key
       IN  key \in Keys /\ RevokeNode(w, n, "done") => key \notin live'[c][n]]_vars
==============================================================================
