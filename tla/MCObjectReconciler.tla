-------------------------- MODULE MCObjectReconciler --------------------------
EXTENDS ObjectReconciler, TLC

CONSTANTS d1, g1, g2

MCDirectories == {d1}
MCGroups == {g1, g2}
MCDomains == {<<"example", ".", "com">>}
MCCommonNames == {"admins", "users"}

\* A third name lets a parent take a name that is neither its old one nor
\* its child's.
MCThreeNames == {"admins", "users", "staff"}

=============================================================================
