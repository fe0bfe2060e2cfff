---------------------------- MODULE MCConnections ----------------------------
\* Three sockets: one open or on its way, one that is closing still, one more.
\* Two processes that may poll for Telegram.
EXTENDS Connections

MCSocket == 1..3
==============================================================================
