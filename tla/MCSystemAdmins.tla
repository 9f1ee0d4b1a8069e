--------------------------- MODULE MCSystemAdmins ---------------------------
(* Three System Admins, one other user, two instances, two requests.        *)
EXTENDS SystemAdmins, TLC

CONSTANTS i1, i2, r1, r2

\* Both instances are started with the same BOOTSTRAP_ADMIN_* settings.
OneSeed == [i \in Instances |-> 1]
=============================================================================
