------------------------------ MODULE MCStream ------------------------------
\* Two changes, each with its rescoring: four events.  A store that remembers
\* one id forgets an event before its duplicate comes.
EXTENDS Stream
=============================================================================
