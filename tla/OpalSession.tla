----------------------------- MODULE OpalSession -----------------------------
(***************************************************************************)
(* What core/opal_core.h promises the tasks that share a context, without   *)
(* a mutex, buffers, packets or a drive: every call takes effect at once,   *)
(* in the step in which it returns, and one session at a time is open.  A   *)
(* session is known by the number the drive gave it.                        *)
(***************************************************************************)
EXTENDS Naturals

CONSTANTS Tasks, Operations

VARIABLES
  session,      \* the open session's number, 0 when there is none
  discovered,   \* a discovery has succeeded since the last revert
  alive,        \* opal_dev_destroy has not been called
  doing         \* the operation a task is inside, or how its last one ended

sessionSpecVars == <<session, discovered, alive, doing>>

Outcomes == {"ok", "failed"}
IsIdle(t) == doing[t] \in Outcomes
Returns(t, outcome) == doing' = [doing EXCEPT ![t] = outcome]

SessionTypeOK ==
  /\ session \in Nat /\ discovered \in BOOLEAN /\ alive \in BOOLEAN
  /\ doing \in [Tasks -> Operations \cup Outcomes]

SessionInit ==
  /\ session = 0 /\ discovered = FALSE /\ alive = TRUE
  /\ doing = [t \in Tasks |-> "ok"]

-----------------------------------------------------------------------------
(* A call begins, or is turned away at once.  No session is started before  *)
(* a discovery.                                                             *)
Begins(t, op) ==
  /\ IsIdle(t) /\ alive
  /\ op \in {"start_admin", "start_locking"} => discovered
  /\ doing' = [doing EXCEPT ![t] = op]
  /\ alive' = (op # "destroy")
  /\ UNCHANGED <<session, discovered>>

TurnedAway(t) ==
  /\ IsIdle(t) /\ alive /\ Returns(t, "failed")
  /\ UNCHANGED <<session, discovered, alive>>

(* A call that fails changes nothing, except those below that end a session. *)
Fails(t) ==
  /\ doing[t] \in Operations \ {"end_session", "destroy"}
  /\ Returns(t, "failed")
  /\ UNCHANGED <<session, discovered, alive>>

Discovers(t) ==
  /\ doing[t] = "discover" /\ Returns(t, "ok")
  /\ discovered' = TRUE
  /\ UNCHANGED <<session, alive>>

(* A session that starts is a new one; an AdminSP session never replaces    *)
(* another.                                                                 *)
Starts(t) ==
  /\ doing[t] \in {"start_admin", "start_locking"} /\ Returns(t, "ok")
  /\ doing[t] = "start_admin" => session = 0
  /\ session' \in Nat \ {0, session}
  /\ UNCHANGED <<discovered, alive>>

(* A method succeeds only inside a session, and leaves it open. *)
MethodSucceeds(t) ==
  /\ doing[t] \in {"set_lock", "activate", "set_password", "query"}
  /\ session # 0 /\ Returns(t, "ok")
  /\ UNCHANGED <<session, discovered, alive>>

(* After opal_end_session no session is open, whatever it returned. *)
Ends(t) ==
  /\ doing[t] = "end_session"
  /\ \E o \in Outcomes : Returns(t, o)
  /\ session' = 0
  /\ UNCHANGED <<discovered, alive>>

(* opal_revert_tper gives up any open session for one of its own, which no  *)
(* other call ever sees; afterwards the TPer has to be discovered again,    *)
(* whatever the call returned.                                              *)
GivesUpSession(t) ==
  /\ doing[t] = "revert" /\ session' = 0
  /\ UNCHANGED <<discovered, alive, doing>>

Reverts(t) ==
  /\ doing[t] = "revert" /\ session = 0
  /\ \E o \in Outcomes : Returns(t, o)
  /\ discovered' = FALSE
  /\ UNCHANGED <<session, alive>>

(* opal_dev_destroy ends an open session and then frees the context. *)
EndsForDestroy(t) ==
  /\ doing[t] = "destroy" /\ session' = 0
  /\ UNCHANGED <<discovered, alive, doing>>

Destroys(t) ==
  /\ doing[t] = "destroy" /\ session = 0
  /\ \E o \in Outcomes : Returns(t, o)
  /\ UNCHANGED <<session, discovered, alive>>

SessionNext ==
  \E t \in Tasks :
    \/ \E op \in Operations : Begins(t, op)
    \/ TurnedAway(t) \/ Fails(t) \/ Discovers(t) \/ Starts(t) \/ MethodSucceeds(t)
    \/ Ends(t) \/ GivesUpSession(t) \/ Reverts(t)
    \/ EndsForDestroy(t) \/ Destroys(t)

SessionSpec == SessionInit /\ [][SessionNext]_sessionSpecVars
=============================================================================
