---------------------------- MODULE MCClientSession ----------------------------
\* Instance for TLC: see MCClientSession.cfg.
EXTENDS ClientSession
===============================================================================
