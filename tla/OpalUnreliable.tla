---------------------------- MODULE OpalUnreliable ----------------------------
(***************************************************************************)
(* OpalCore in front of drives that are less obliging than OpalDrive.  One  *)
(* loses power at any moment: it comes back without sessions, without the   *)
(* answer it had ready, and locked.  Another keeps the answers nobody       *)
(* fetched, so that a late answer reaches the IF-RECV of a later command.   *)
(* The core knows neither resets nor sequence numbers: a single IF-RECV, no *)
(* retry, and session_open until somebody ends the session.                 *)
(***************************************************************************)
EXTENDS OpalRefinement, Sequences

CONSTANT MaxResets    \* bound: how often the drive loses power

ASSUME UnreliableAssumption == MaxResets \in Nat

VARIABLES
  mode,        \* which drive it is
  queue,       \* the answers not fetched, oldest first
  lost,        \* the sessions a reset ended; with late answers, also a Revert
  executed,    \* the drive did what the last command asked
  cut,         \* it lost power since
  resets

faultVars == <<mode, queue, lost, executed, cut, resets>>
unreliableVars == <<vars, faultVars>>

Modes == {"steady", "reset", "queue"}

UnreliableInit ==
  /\ Init
  /\ mode \in Modes /\ queue = <<>>
  /\ lost = {} /\ executed = FALSE /\ cut = FALSE /\ resets = 0

-----------------------------------------------------------------------------
Reset ==
  /\ mode = "reset" /\ resets < MaxResets
  /\ resets' = resets + 1 /\ cut' = TRUE
  /\ sessions' = {} /\ lost' = lost \cup LiveTsns
  /\ locked' = [r \in RangeIds |-> active]
  /\ answer' = EmptyAnswer
  /\ UNCHANGED <<lock, discoveryVars, sessionVars, cmd_buf, resp_buf, handle,
                 taskVars, next_tsn, active, pin, mode, queue, executed>>

(* IF-SEND; the answer, if the drive got the command, goes to the end of    *)
(* the queue.                                                               *)
SendUnreliable(t) ==
  /\ Send(t)
  /\ IF mode # "queue" THEN UNCHANGED queue
     ELSE \/ DriveExecutes(cmd_buf) /\ queue' = Append(queue, answer')
          \/ pc'[t] = "finish" /\ driveVars' = driveVars /\ UNCHANGED queue
  /\ executed' = (answer'.kind = "method" /\ answer'.status = OPAL_STATUS_SUCCESS)
  /\ cut' = FALSE
  /\ lost' = IF mode = "queue" /\ cmd_buf.method = "revert"
             THEN lost \cup (LiveTsns \ LiveTsns') ELSE lost
  /\ UNCHANGED <<mode, resets>>

(* IF-RECV takes the oldest answer there is. *)
RecvOldest(t) ==
  /\ pc[t] = "recv" /\ queue # <<>>
  /\ resp_buf' = Head(queue) /\ queue' = Tail(queue)
  /\ pc' = [pc EXCEPT ![t] = "finish"]
  /\ UNCHANGED <<lock, discoveryVars, sessionVars, cmd_buf, handle, call, ret, out,
                 calls, driveVars>>

(* It is late, or IF-RECV fails: the queue stays as it is. *)
RecvNothing(t) ==
  /\ pc[t] = "recv"
  /\ resp_buf' = EmptyAnswer
  /\ \/ "late" \in Faults /\ UNCHANGED ret
     \/ "recv" \in Faults /\ ret' = [ret EXCEPT ![t] = OPAL_ERR_TRANSPORT]
  /\ pc' = [pc EXCEPT ![t] = "finish"]
  /\ UNCHANGED <<lock, discoveryVars, sessionVars, cmd_buf, handle, call, out, calls,
                 driveVars, queue>>

RecvUnreliable(t) ==
  /\ IF mode = "queue" THEN RecvOldest(t) \/ RecvNothing(t)
     ELSE Recv(t) /\ UNCHANGED queue
  /\ UNCHANGED <<mode, lost, executed, cut, resets>>

(* The steps of the core that do not go through the transport. *)
CoreStep(t) ==
  /\ \/ CallApi(t) \/ CallDestroy(t) \/ Acquire(t) \/ Decline(t) \/ Build(t)
     \/ Finish(t) \/ Free(t)
  /\ UNCHANGED faultVars

UnreliableNext ==
  \/ \E t \in Tasks : CoreStep(t) \/ SendUnreliable(t) \/ RecvUnreliable(t)
  \/ Reset
  \/ Done /\ UNCHANGED faultVars

UnreliableSpec == UnreliableInit /\ [][UnreliableNext]_unreliableVars

-----------------------------------------------------------------------------
(* Whenever no call is in progress, the session the host believes open is   *)
(* one the drive really opened for it and still holds, unless the drive     *)
(* lost power: not even the SyncSession of an earlier, given-up StartSession*)
(* makes the host adopt a session it has ended since.  It may adopt one that*)
(* a Revert has ended since, if enough answers came late before it.         *)
SessionLiveUnlessLost ==
  lock = NoTask /\ session_open => tper_session_id \in LiveTsns \cup lost

(* What call c asked for is so at the drive; a power loss locks the ranges  *)
(* again, and nothing else.  The row is the one opal_set_password was given *)
(* a user for; for user 0 it is whichever its packet happened to name, its  *)
(* UID being uninitialised.                                                 *)
InEffect(c) ==
  CASE c.op = "set_lock"     -> cut \/ locked[c.range] = c.val
    [] c.op = "activate"     -> active
    [] c.op = "set_password" -> pin[IF c.user = 0 THEN cmd_buf.user ELSE c.user] = c.pin
    [] c.op = "revert"       -> ~active /\ sessions = {}

(* OPAL_OK of a method or of opal_revert_tper means that the drive did what *)
(* this call asked and that, when the call returns, it is in effect: the    *)
(* lock state of the range, the LockingSP active, the user's PIN (user 0    *)
(* excepted, see InEffect), the TPer in factory state.                      *)
OkMeansDone ==
  [][\A t \in Tasks :
       mode # "queue" /\ Ends(t) /\ ret'[t] = OPAL_OK
         /\ call[t].op \in MethodOps \cup {"revert"} =>
       executed /\ InEffect(call[t])]_unreliableVars

(* What opal_query_lock_state reports is the lock bit of the range it asked *)
(* for, as it still is when the call returns; unless Get was refused, which *)
(* it does not see.                                                         *)
QueryReportsLock ==
  [][\A t \in Tasks :
       /\ mode # "queue" /\ Ends(t) /\ ret'[t] = OPAL_OK
       /\ call[t].op = "query" /\ resp_buf.kind = "row"
       => cut \/ out'[t] = locked[call[t].range]]_unreliableVars

(* Even with the answers shifted by one, a discovery, a start of a session, *)
(* a method and opal_revert_tper return OPAL_OK only if an answer came, and *)
(* another command's discovery counts for none but opal_discover.  Three    *)
(* operations are left out because of them it is not true: nobody reads the *)
(* answer to EndOfSession (opal_end_session, opal_dev_destroy), and         *)
(* opal_query_lock_state takes silence for an unlocked range (QueryHasAnswer*)
(* of OpalCore).                                                            *)
SuccessWasAnswered ==
  [][\A t \in Tasks :
       /\ Ends(t) /\ pc[t] = "finish" /\ ret'[t] = OPAL_OK
       /\ call[t].op \notin {"query", "end_session", "destroy"}
       => /\ resp_buf # EmptyAnswer
          /\ resp_buf.kind = "disc" <=> call[t].op = "discover"]_unreliableVars
=============================================================================
