-------------------------- MODULE MCPermissionCache -------------------------
\* Small instances of PermissionCache.
EXTENDS PermissionCache

CONSTANTS q1, q2
=============================================================================
