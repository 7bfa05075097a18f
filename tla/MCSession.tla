----------------------------- MODULE MCSession -----------------------------
(* A small instance of SessionStore for TLC.                               *)
EXTENDS SessionStore

\* One session in the store, two in the client, one in set_session, and a new one.
FiveSessions == 1..5
=============================================================================
