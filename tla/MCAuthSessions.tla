--------------------------- MODULE MCAuthSessions ---------------------------
\* Instance of AuthSessions: a fresh installation, and one with an administrator,
\* where either a change is made or a call to Redis fails.
EXTENDS AuthSessions, TLC

CONSTANTS u1, u2

MCInitialUsers == {[u \in Users |-> Absent],
                   [u \in Users |-> IF u = u1 THEN [active |-> TRUE, roles |-> {AdminRole}]
                                    ELSE Absent]}
MCGivenRoles == {{"viewer"}}
MCGivenPermissions == {Permissions}

MCAuthInit ==
  /\ AuthInit
  /\ IF \E u \in Users : Exists(u) THEN (edits < MaxEdits) # (faults < MaxFaults)
     ELSE edits = MaxEdits /\ faults = MaxFaults
=============================================================================
