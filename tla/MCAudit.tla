------------------------------ MODULE MCAudit ------------------------------
(* The audit log of one tenant, with the clock and the column of the build. *)
EXTENDS AuditChain

CONSTANT t1
OneTenant == [w \in Writer |-> t1]
=============================================================================
