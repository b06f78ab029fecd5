----------------------------- MODULE MCAuditTrail -----------------------------
(* AuditTrail on small instances: a store an older acline has written to,  *)
(* and a new one a snapshot is restored to.                                *)
EXTENDS AuditTrail

CONSTANTS agent, person

MCProcs  == {agent, person}
MCAgents == {agent}
MCPeople == {person}
=============================================================================
