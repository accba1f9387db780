----------------------------- MODULE MCHandshake -----------------------------
EXTENDS Handshake
\* A clock behind the daemon's, one in step and one ahead, each within ClockSkew
\* or out of it once the request is under way.
MCOffset == {-1, 0, 1}
=============================================================================
