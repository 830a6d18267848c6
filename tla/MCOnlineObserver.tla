-------------------------- MODULE MCOnlineObserver --------------------------
(* Instances of OnlineObserver for TLC: a tick stands for a second.        *)
EXTENDS OnlineObserver
=============================================================================
