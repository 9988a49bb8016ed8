--------------------------- MODULE MCAuthManager ----------------------------
\* Two connections, two endpoints, two keys; a lockout after three failures.
EXTENDS AuthManager
=============================================================================
