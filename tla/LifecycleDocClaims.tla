-------------------------- MODULE LifecycleDocClaims --------------------------
(***************************************************************************)
(* What src/main.cpp says of the end of the process and does not do.       *)
(***************************************************************************)
EXTENDS LifecycleProperties

\* src/main.cpp:64, "Send SIGINT or SIGTERM to shut down cleanly": a signal the
\* main thread takes while both servers run ends the process, also if a request
\* is with the engine.  The engine abandons that request (19), whose thread
\* waits for its answer for ever, and Shutdown() (20) or the shutdown() of the
\* pool waits for that thread.
ShutsDownCleanly ==
  \A h \in Signals :
    (at[h] = "notify" /\ host[h] = MainThread
       /\ at[MainThread] = "accept" /\ Queued # {})
      ~> (at[MainThread] = "exited")
=============================================================================
