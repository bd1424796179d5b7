--------------------------- MODULE OpalRefinement ---------------------------
(***************************************************************************)
(* OpalCore implements OpalSession: with the mutex, the shared buffers and  *)
(* the exchanges hidden, the calls of several tasks look atomic.            *)
(***************************************************************************)
EXTENDS OpalCore

(* The PSID session of opal_revert_tper, between its two exchanges, is no   *)
(* session any caller can use.                                              *)
Reverting(t) == call[t].op = "revert" /\ cmd_buf.method = "revert"
VisibleSession == IF \E t \in Tasks : pc[t] # "idle" /\ Reverting(t)
                  THEN 0 ELSE tper_session_id

Progress(t) == IF pc[t] # "idle" THEN call[t].op
               ELSE IF ret[t] = OPAL_OK THEN "ok" ELSE "failed"

Session == INSTANCE OpalSession WITH
  Operations <- AllOperations,
  session    <- VisibleSession,
  discovered <- discovered,
  alive      <- (handle = "live"),
  doing      <- [t \in Tasks |-> Progress(t)]

(* The calls of the API are atomic and keep what opal_core.h promises of    *)
(* sessions, for every interleaving and every transport fault: a started    *)
(* session is a new one, a failing call leaves the session alone, a method  *)
(* succeeds only in a session, after end, revert and destroy none is open.  *)
ImplementsSession == Session!SessionSpec
=============================================================================
