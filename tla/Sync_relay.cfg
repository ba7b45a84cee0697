\* Two working replicas that both sync with a relay, at the same time; one is a
\* new repository, and sometimes uses --graph-only.
SPECIFICATION Spec
CONSTANTS
  a = a
  b = b
  relay = relay
  Replica <- MCReplica
  Peers <- MCPeers
  Relay = {relay}
  Cloned = {a}
  GraphOnly = {b}
  MaxChangesets = 3
  MaxSyncs = 2
  MaxDrops = 1
INVARIANTS SyncInv SyncedAgree
 
CHECK_DEADLOCK FALSE
