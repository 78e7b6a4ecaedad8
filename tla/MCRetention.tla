----------------------------- MODULE MCRetention -----------------------------
(* Retention with two replicas.  Every policy has the shape config.Validate *)
(* admits; the last one does not start, for want of the selector.            *)
EXTENDS Retention

Policy(audit, grant, quota, ban, admin, sel) ==
    [audit |-> audit, grant |-> grant, quota |-> quota, ban |-> ban, admin |-> admin, selector |-> sel]
MCConfigs == {Policy(1, 2, 0, 0, 1, TRUE), Policy(1, 0, 0, 1, 0, FALSE), Policy(1, 2, 0, 0, 0, FALSE)}
=============================================================================
