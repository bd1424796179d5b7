------------------------ MODULE OpalRefinementProofs ------------------------
(***************************************************************************)
(* OpalCore implements OpalSession, for any set of tasks, PINs, ranges,     *)
(* ComIDs, faults and any number of calls.  The step-by-step argument rests *)
(* on RefinementInv, which says nothing of the sessions the drive holds, so *)
(* that OpalUnreliableProofs can use it again.                              *)
(***************************************************************************)
EXTENDS OpalRefinement, OpalCoreProofs

-----------------------------------------------------------------------------
(* Session numbers are new. *)

(* The session a StartSession under way will bring is a new one.            *)
NewSession ==
  \A t \in Tasks :
    /\ pc[t] = "recv" /\ answer.kind = "sync" =>
         answer.tsn \notin {0, tper_session_id}
    /\ pc[t] = "finish" /\ SessionOpens(t) =>
         resp_buf.tsn \notin {0, tper_session_id}

(* Every step keeps the session to come apart from the open one.            *)
LEMMA NextNewSession ==
  TypeOK /\ LockDiscipline /\ TsnsGiven /\ NewSession /\ [Next]_vars => NewSession'
<1> SUFFICES ASSUME TypeOK, LockDiscipline, TsnsGiven, NewSession, [Next]_vars,
                    NEW t \in Tasks, pc'[t] \in {"recv", "finish"}
             PROVE  /\ pc'[t] = "recv" /\ answer'.kind = "sync" =>
                         answer'.tsn \notin {0, tper_session_id'}
                    /\ pc'[t] = "finish" /\ SessionOpens(t)' =>
                         resp_buf'.tsn \notin {0, tper_session_id'}
  BY DEF NewSession, SessionOpens
<1>1. Step(t) \/ Undisturbed(t)
  BY Holder DEF Critical
<1>2. CASE Undisturbed(t)
  BY <1>2 DEF Undisturbed, NewSession, SessionOpens, sessionVars, driveVars
<1>3. CASE Send(t)
  <2>1. pc'[t] = "finish" => ret'[t] # OPAL_OK
    BY <1>3 DEF Send, TypeOK, OPAL_OK, OPAL_ERR_TRANSPORT
  <2>2. CASE pc'[t] = "recv"
    <3>1. DriveExecutes(cmd_buf)
      BY <1>3, <2>2 DEF Send, TypeOK
    <3>2. answer'.kind = "sync" => answer'.tsn = next_tsn
      BY <3>1, DriveTsns DEF TypeOK
    <3> QED
      BY <1>3, <2>2, <3>2 DEF Send, TsnsGiven, TypeOK, DriveTypeOK, sessionVars
  <2> QED
    BY <2>1, <2>2 DEF SessionOpens
<1>4. CASE Recv(t)
  <2>1. /\ pc[t] = "recv" /\ pc'[t] = "finish"
        /\ resp_buf' \in {answer, EmptyAnswer} /\ UNCHANGED sessionVars
    BY <1>4 DEF Recv, TypeOK
  <2>2. EmptyAnswer.kind # "sync"
    BY DEF EmptyAnswer, Answer
  <2> QED
    BY <2>1, <2>2 DEF NewSession, SessionOpens, sessionVars
<1> QED
  BY <1>1, <1>2, <1>3, <1>4, ExchangeStep DEF InExchange

(* The host believes a session open as long as it has its number.           *)
SessionNumbered == session_open <=> tper_session_id # 0

LEMMA NextNumbered ==
  TypeOK /\ NewSession /\ SessionNumbered /\ [Next]_vars => SessionNumbered'
<1> SUFFICES ASSUME TypeOK, NewSession, SessionNumbered, [Next]_vars
             PROVE  SessionNumbered'
  OBVIOUS
<1>1. ASSUME NEW t \in Tasks, Finish(t) PROVE SessionNumbered'
  <2>1. \/ UNCHANGED sessionVars
        \/ ForgetSession
        \/ pc[t] = "finish" /\ SessionOpens(t) /\ AdoptSession
    BY <1>1 DEF Finish, FinishDiscover, FinishStart, FinishEnd, FinishMethod,
       FinishQuery, FinishPsidSession, FinishRevert, Exchanged
  <2> QED
    BY <2>1 DEF SessionNumbered, NewSession, ForgetSession, AdoptSession, sessionVars
<1>2. ASSUME NEW t \in Tasks, CallApi(t) \/ CallDestroy(t) \/ Free(t) \/ Acquire(t)
             \/ Decline(t) \/ Build(t) \/ Send(t) \/ Recv(t)
      PROVE  UNCHANGED sessionVars
  BY <1>2 DEF CallApi, CallWith, CallDestroy, Free, Acquire, Decline, Build, Send, Recv
<1>3. UNCHANGED sessionVars => SessionNumbered'
  BY DEF SessionNumbered, sessionVars
<1> QED
  BY <1>1, <1>2, <1>3 DEF Next, Step, Done, vars

-----------------------------------------------------------------------------
(* The session of opal_revert_tper. *)

(* While cmd_buf holds a Revert, the session it is to go out in belongs to  *)
(* the opal_revert_tper inside its exchange; afterwards there is none.      *)
RevertSession ==
  cmd_buf.method = "revert" =>
    \/ tper_session_id = 0
    \/ \E t \in Tasks : InExchange(t) /\ call[t].op = "revert"

LEMMA NextRevertSession ==
  TypeOK /\ LockDiscipline /\ CommandOfCall /\ RevertSession /\ [Next]_vars
    => RevertSession'
<1> SUFFICES ASSUME TypeOK, LockDiscipline, CommandOfCall, RevertSession, [Next]_vars,
                    cmd_buf'.method = "revert"
             PROVE  \/ tper_session_id' = 0
                    \/ \E u \in Tasks : InExchange(u)' /\ call'[u].op = "revert"
  BY DEF RevertSession
<1> DEFINE Kept == \/ tper_session_id' = 0
                   \/ \E u \in Tasks : InExchange(u)' /\ call'[u].op = "revert"
<1>1. ASSUME NEW t \in Tasks, pc[t] \notin {"send", "recv", "finish"},
             UNCHANGED <<sessionVars, cmd_buf>>,
             \A u \in Tasks \ {t} : pc'[u] = pc[u] /\ call'[u] = call[u]
      PROVE  Kept
  BY <1>1 DEF RevertSession, InExchange, sessionVars
<1>2. ASSUME NEW t \in Tasks,
             CallApi(t) \/ CallDestroy(t) \/ Free(t) \/ Acquire(t) \/ Decline(t)
      PROVE  Kept
  <2>1. /\ pc[t] \notin {"send", "recv", "finish"}
        /\ UNCHANGED <<sessionVars, cmd_buf>>
        /\ \A u \in Tasks \ {t} : pc'[u] = pc[u] /\ call'[u] = call[u]
    BY <1>2 DEF CallApi, CallWith, CallDestroy, Free, Acquire, Decline, Return, TypeOK
  <2> QED
    BY <1>1, <2>1
<1>3. ASSUME NEW t \in Tasks, Build(t) PROVE Kept
  <2>1. cmd_buf'.method = MethodOf(call[t].op)
    BY <1>3 DEF Build, Packet
  <2>2. call[t].op = "revert" => MethodOf(call[t].op) # "revert"
    BY DEF MethodOf, StartOps
  <2>3. call[t].op # "revert" => MethodOf(call[t].op) # "revert"
    BY DEF MethodOf, StartOps
  <2> QED
    BY <2>1, <2>2, <2>3
<1>4. ASSUME NEW t \in Tasks, Send(t) \/ Recv(t) PROVE Kept
  <2>1. UNCHANGED <<sessionVars, cmd_buf, call>>
        /\ \A u \in Tasks : InExchange(u) => InExchange(u)'
    BY <1>4 DEF Send, Recv, InExchange, TypeOK
  <2> QED
    BY <2>1 DEF RevertSession, sessionVars
<1>5. ASSUME NEW t \in Tasks, FinishPsidSession(t) PROVE Kept
  BY <1>5 DEF FinishPsidSession, Exchanged, InExchange, TypeOK
<1>6. ASSUME NEW t \in Tasks, FinishRevert(t) \/ FinishEnd(t) PROVE Kept
  BY <1>6 DEF FinishRevert, FinishEnd, ForgetSession
<1>7. ASSUME NEW t \in Tasks,
             FinishDiscover(t) \/ FinishStart(t) \/ FinishMethod(t) \/ FinishQuery(t)
      PROVE  FALSE
  <2>1. pc[t] = "finish" /\ call[t].op # "revert" /\ cmd_buf' = cmd_buf
    BY <1>7 DEF FinishDiscover, FinishStart, FinishMethod, FinishQuery, Exchanged,
       StartOps, MethodOps
  <2>2. MethodOf(call[t].op) # "revert"
    BY <2>1 DEF MethodOf, StartOps
  <2> QED
    BY <2>1, <2>2 DEF CommandOfCall
<1>8. CASE UNCHANGED vars
  BY <1>8 DEF vars, taskVars, sessionVars, RevertSession, InExchange
<1> QED
  BY <1>2, <1>3, <1>4, <1>5, <1>6, <1>7, <1>8 DEF Next, Step, Done, Finish

-----------------------------------------------------------------------------
(* Methods and their session. *)

(* A method or a query inside its exchange still has the session it was     *)
(* checked for under the mutex.                                             *)
MethodHeld ==
  \A t \in Tasks :
    InExchange(t) /\ call[t].op \in MethodOps \cup {"query"} => session_open

LEMMA NextMethodHeld ==
  TypeOK /\ LockDiscipline /\ MethodHeld /\ [Next]_vars => MethodHeld'
<1> SUFFICES ASSUME TypeOK, LockDiscipline, MethodHeld, [Next]_vars, NEW t \in Tasks,
                    InExchange(t)', call'[t].op \in MethodOps \cup {"query"}
             PROVE  session_open'
  BY DEF MethodHeld
<1>1. Step(t) \/ Undisturbed(t)
  BY Holder DEF InExchange, Critical
<1>2. CASE Undisturbed(t)
  BY <1>2 DEF Undisturbed, MethodHeld, InExchange, sessionVars
<1>3. CASE Build(t)
  BY <1>3 DEF Build, WrongState, sessionVars
<1>4. CASE Send(t) \/ Recv(t)
  BY <1>4 DEF Send, Recv, MethodHeld, InExchange, sessionVars
<1>5. CASE FinishPsidSession(t) /\ SessionOpens(t)
  BY <1>5 DEF FinishPsidSession, Exchanged, MethodOps
<1> QED
  BY <1>1, <1>2, <1>3, <1>4, <1>5, ExchangeStep

-----------------------------------------------------------------------------
(* The abstract state. *)

(* What the refinement needs to know of a state. *)
RefinementInv ==
  /\ TypeOK /\ LockDiscipline /\ CommandOfCall
  /\ NewSession /\ SessionNumbered /\ AdminExclusive
  /\ RevertSession /\ MethodHeld /\ DestroyAlone

(* The session other calls see, read off cmd_buf alone. *)
Seen == IF cmd_buf.method = "revert" THEN 0 ELSE tper_session_id

LEMMA VisibleIsSeen ==
  /\ CommandOfCall /\ RevertSession => VisibleSession = Seen
  /\ (CommandOfCall /\ RevertSession)' => VisibleSession' = Seen'
<1>1. ASSUME RevertSession PROVE VisibleSession = Seen
  <2>1. CASE cmd_buf.method # "revert"
    BY <2>1 DEF VisibleSession, Seen, Reverting
  <2>2. CASE cmd_buf.method = "revert"
    BY <1>1, <2>2 DEF VisibleSession, Seen, Reverting, RevertSession, InExchange
  <2> QED
    BY <2>1, <2>2
<1>2. ASSUME RevertSession' PROVE VisibleSession' = Seen'
  <2>1. CASE cmd_buf'.method # "revert"
    BY <2>1 DEF VisibleSession, Seen, Reverting
  <2>2. CASE cmd_buf'.method = "revert"
    BY <1>2, <2>2 DEF VisibleSession, Seen, Reverting, RevertSession, InExchange
  <2> QED
    BY <2>1, <2>2
<1> QED
  BY <1>1, <1>2

Doing == [t \in Tasks |-> Progress(t)]

(* A step of t moves the abstract progress of t alone.                      *)
LEMMA DoingStep ==
  ASSUME NEW t \in Tasks, NEW p, Progress(t)' = p,
         \A u \in Tasks \ {t} : pc'[u] = pc[u] /\ call'[u] = call[u] /\ ret'[u] = ret[u]
  PROVE  Doing' = [Doing EXCEPT ![t] = p]
BY DEF Doing, Progress

(* The progress of a task that returns.                                     *)
LEMMA ReturnProgress ==
  ASSUME TypeOK, NEW t \in Tasks, NEW code, Return(t, code)
  PROVE  /\ call[t].op # "destroy" =>
              Doing' = [Doing EXCEPT ![t] = IF code = OPAL_OK THEN "ok" ELSE "failed"]
         /\ call[t].op = "destroy" /\ pc[t] # "idle" => Doing' = Doing
<1>1. \A u \in Tasks \ {t} : pc'[u] = pc[u] /\ call'[u] = call[u] /\ ret'[u] = ret[u]
  BY DEF Return, TypeOK
<1>2. ASSUME call[t].op # "destroy"
      PROVE  Doing' = [Doing EXCEPT ![t] = IF code = OPAL_OK THEN "ok" ELSE "failed"]
  <2>1. Progress(t)' = IF code = OPAL_OK THEN "ok" ELSE "failed"
    BY <1>2 DEF Return, Progress, TypeOK
  <2> QED
    BY <1>1, <2>1, DoingStep
<1>3. ASSUME call[t].op = "destroy", pc[t] # "idle" PROVE Doing' = Doing
  BY <1>1, <1>3 DEF Return, Progress, Doing, TypeOK
<1> QED
  BY <1>2, <1>3

-----------------------------------------------------------------------------
(* Every step is one of OpalSession's, or none. *)

(* A call that fails outside end_session and destroy, leaving the session   *)
(* and discovered alone, is one that Fails.                                 *)
LEMMA FailingStep ==
  ASSUME TypeOK, NEW t \in Tasks, pc[t] # "idle",
         call[t].op \in AllOperations \ {"end_session", "destroy"},
         NEW code, Return(t, code), code # OPAL_OK,
         VisibleSession' = VisibleSession, UNCHANGED <<discovered, handle>>
  PROVE  Session!Fails(t)
<1>1. Doing' = [Doing EXCEPT ![t] = "failed"]
  BY ReturnProgress
<1>2. Doing[t] \in AllOperations \ {"end_session", "destroy"}
  BY DEF Doing, Progress
<1> QED
  BY <1>1, <1>2 DEF Session!Fails, Session!Returns, Doing

(* The initial context is an initial abstract one.                          *)
LEMMA RefinesInit == Init => Session!SessionInit
BY DEF Init, NoCommand, Session!SessionInit, VisibleSession, Reverting, Progress

(* A call begins, or is turned away at once.                                *)
LEMMA RefinesCall ==
  ASSUME TypeOK, NEW t \in Tasks, CallApi(t), VisibleSession' = VisibleSession
  PROVE  Session!SessionNext
<1>1. PICK c \in Requests : CallWith(t, c)
  BY DEF CallApi
<1>2. c.op \in AllOperations \ {"destroy"}
  BY DEF Requests, CallsOf, StartOps, MethodOps, AllOperations
<1>3. Doing[t] \in {"ok", "failed"}
  BY <1>1 DEF Doing, Progress, CallWith
<1>4. \A u \in Tasks \ {t} : pc'[u] = pc[u] /\ call'[u] = call[u] /\ ret'[u] = ret[u]
  BY <1>1 DEF CallWith, TypeOK
<1>5. UNCHANGED <<discovered, handle>> /\ handle = "live"
  BY <1>1 DEF CallWith, discoveryVars
<1>6. CASE EarlyCode(c) = OPAL_OK
  <2>1. Progress(t)' = c.op
    BY <1>1, <1>6 DEF CallWith, Progress, TypeOK
  <2>2. Doing' = [Doing EXCEPT ![t] = c.op]
    BY <1>4, <2>1, DoingStep
  <2>3. c.op \in StartOps => discovered
    BY <1>6 DEF EarlyCode, OPAL_OK, OPAL_ERR_PARAM, OPAL_ERR_PROTO
  <2>4. Session!Begins(t, c.op)
    BY <1>2, <1>3, <1>5, <2>2, <2>3
    DEF Session!Begins, Session!IsIdle, Session!Outcomes, Doing, StartOps
  <2> QED
    BY <1>2, <2>4 DEF Session!SessionNext
<1>7. CASE EarlyCode(c) # OPAL_OK
  <2>1. Progress(t)' = "failed"
    BY <1>1, <1>7 DEF CallWith, Progress, TypeOK
  <2>2. Doing' = [Doing EXCEPT ![t] = "failed"]
    BY <1>4, <2>1, DoingStep
  <2>3. Session!TurnedAway(t)
    BY <1>3, <1>5, <2>2
    DEF Session!TurnedAway, Session!Returns, Session!IsIdle, Session!Outcomes, Doing
  <2> QED
    BY <2>3 DEF Session!SessionNext
<1> QED
  BY <1>6, <1>7

(* opal_dev_destroy begins.                                                 *)
LEMMA RefinesCallDestroy ==
  ASSUME TypeOK, NEW t \in Tasks, CallDestroy(t), VisibleSession' = VisibleSession
  PROVE  Session!SessionNext
<1>1. Progress(t)' = "destroy"
  BY DEF CallDestroy, DestroyCall, NoCall, Progress, TypeOK
<1>2. Doing' = [Doing EXCEPT ![t] = "destroy"]
  BY <1>1, DoingStep DEF CallDestroy, TypeOK
<1>3. Doing[t] \in {"ok", "failed"}
  BY DEF Doing, Progress, CallDestroy
<1>4. UNCHANGED discovered /\ handle = "live" /\ handle' = "closing"
  BY DEF CallDestroy, discoveryVars
<1>5. Session!Begins(t, "destroy")
  BY <1>2, <1>3, <1>4 DEF Session!Begins, Session!IsIdle, Session!Outcomes, Doing
<1> QED
  BY <1>5 DEF Session!SessionNext, AllOperations

(* opal_free.                                                               *)
LEMMA RefinesFree ==
  ASSUME RefinementInv, NEW t \in Tasks, Free(t), VisibleSession' = VisibleSession,
         VisibleSession = 0
  PROVE  Session!SessionNext
<1>1. call[t].op = "destroy" /\ handle # "live"
  BY DEF Free, RefinementInv, DestroyAlone
<1>2. Doing[t] = "destroy"
  BY <1>1 DEF Free, Doing, Progress
<1>3. PICK o \in {"ok", "failed"} : Progress(t)' = o
  BY DEF Free, Progress, RefinementInv, TypeOK
<1>4. Doing' = [Doing EXCEPT ![t] = o]
  BY <1>3, DoingStep DEF Free, RefinementInv, TypeOK
<1>5. Session!Destroys(t)
  BY <1>1, <1>2, <1>4
  DEF Session!Destroys, Session!Returns, Session!Outcomes, Doing, Free, discoveryVars
<1> QED
  BY <1>5 DEF Session!SessionNext

(* The checks under the mutex fail: an ordinary failure, or nothing to end. *)
LEMMA RefinesDecline ==
  ASSUME RefinementInv, NEW t \in Tasks, Decline(t), VisibleSession' = VisibleSession
  PROVE  Session!SessionNext \/ UNCHANGED Session!sessionSpecVars
<1> USE DEF RefinementInv
<1>1. UNCHANGED <<discovered, handle, session_open>> /\ pc[t] = "build"
  BY DEF Decline, discoveryVars, sessionVars
<1>2. ASSUME NEW code, Return(t, code), code # OPAL_OK,
             call[t].op \in StartOps \cup MethodOps \cup {"query", "revert"}
      PROVE  Session!SessionNext
  <2>1. call[t].op \in AllOperations \ {"end_session", "destroy"}
    BY <1>2 DEF AllOperations, StartOps, MethodOps
  <2> QED
    BY <1>1, <1>2, <2>1, FailingStep DEF Session!SessionNext
<1>3. CASE WrongState(call[t]) /\ Return(t, OPAL_ERR_PROTO)
  BY <1>2, <1>3 DEF WrongState, StartOps, OPAL_ERR_PROTO, OPAL_OK
<1>4. CASE TooLong(call[t]) /\ Return(t, APPEND_FAILED)
  BY <1>2, <1>4 DEF TooLong, MethodOps, APPEND_FAILED, OPAL_OK
<1>5. CASE NothingToEnd(call[t]) /\ Return(t, OPAL_OK)
  <2>1. CASE call[t].op = "end_session"
    <3>1. Doing' = [Doing EXCEPT ![t] = "ok"]
      BY <1>5, <2>1, ReturnProgress
    <3>2. VisibleSession = 0
      BY <1>5, VisibleIsSeen DEF SessionNumbered, Seen, NothingToEnd
    <3>3. Session!Ends(t)
      BY <1>1, <2>1, <3>1, <3>2
      DEF Session!Ends, Session!Returns, Session!Outcomes, Doing, Progress
    <3> QED
      BY <3>3 DEF Session!SessionNext
  <2>2. CASE call[t].op = "destroy"
    <3>1. Doing' = Doing
      BY <1>1, <1>5, <2>2, ReturnProgress
    <3> QED
      BY <1>1, <3>1 DEF Session!sessionSpecVars, Doing
  <2> QED
    BY <1>5, <2>1, <2>2 DEF NothingToEnd
<1> QED
  BY <1>3, <1>4, <1>5 DEF Decline

(* Steps on the way: the mutex, the packet, the exchange.                   *)
LEMMA RefinesInside ==
  ASSUME TypeOK, NEW t \in Tasks, Acquire(t) \/ Build(t) \/ Send(t) \/ Recv(t),
         VisibleSession' = VisibleSession
  PROVE  UNCHANGED Session!sessionSpecVars
<1>1. \A u \in Tasks : Progress(u)' = Progress(u)
  BY DEF Acquire, Build, Send, Recv, Progress, TypeOK
<1>2. UNCHANGED <<discovered, handle>>
  BY DEF Acquire, Build, Send, Recv, discoveryVars
<1> QED
  BY <1>1, <1>2 DEF Session!sessionSpecVars

(* The end of each operation.                                               *)
LEMMA RefinesFinish ==
  ASSUME RefinementInv, RevertSession', CommandOfCall', NEW t \in Tasks, Finish(t)
  PROVE  Session!SessionNext \/ UNCHANGED Session!sessionSpecVars
<1> USE DEF RefinementInv
<1>1. /\ VisibleSession = Seen /\ VisibleSession' = Seen'
      /\ LockDiscipline /\ CommandOfCall /\ (session_open <=> tper_session_id # 0)
  BY VisibleIsSeen DEF SessionNumbered
<1>2. /\ pc[t] = "finish" /\ UNCHANGED handle
      /\ call[t].op # "revert" => cmd_buf.method # "revert"
  <2>1. pc[t] = "finish" /\ UNCHANGED handle
    BY DEF Finish, FinishDiscover, FinishStart, FinishEnd, FinishMethod, FinishQuery,
           FinishPsidSession, FinishRevert, Exchanged
  <2>2. call[t].op # "revert" => MethodOf(call[t].op) # "revert"
    BY DEF MethodOf, StartOps
  <2> QED
    BY <1>1, <2>1, <2>2 DEF CommandOfCall
<1>3. Doing[t] = call[t].op
  BY <1>2 DEF Doing, Progress
<1>4. OPAL_ERR_PROTO # OPAL_OK /\ \A r : FirstError(r, OPAL_ERR_PROTO) # OPAL_OK
  BY DEF OPAL_ERR_PROTO, OPAL_OK, FirstError
<1>5. ASSUME NEW code, Return(t, code), code # OPAL_OK,
             call[t].op \in AllOperations \ {"end_session", "destroy"},
             UNCHANGED <<discovered, tper_session_id, cmd_buf>>
      PROVE  Session!SessionNext
  <2>1. VisibleSession' = VisibleSession
    BY <1>1, <1>5 DEF Seen
  <2> QED
    BY <1>2, <1>5, <2>1, FailingStep DEF Session!SessionNext
<1>6. CASE FinishDiscover(t)
  <2>1. call[t].op = "discover" /\ UNCHANGED <<sessionVars, cmd_buf>>
    BY <1>6 DEF FinishDiscover, Exchanged
  <2>2. CASE ret[t] # OPAL_OK \/ resp_buf.com = 0
    BY <1>4, <1>5, <1>6, <2>1, <2>2 DEF FinishDiscover, discoveryVars, sessionVars, AllOperations
  <2>3. CASE ret[t] = OPAL_OK /\ resp_buf.com # 0
    <3>1. Return(t, OPAL_OK) /\ discovered' = TRUE
      BY <1>6, <2>3 DEF FinishDiscover
    <3>2. Doing' = [Doing EXCEPT ![t] = "ok"]
      BY <2>1, <3>1, ReturnProgress
    <3>3. Session!Discovers(t)
      BY <1>1, <1>2, <1>3, <2>1, <3>1, <3>2
      DEF Session!Discovers, Session!Returns, Doing, Seen, sessionVars
    <3> QED
      BY <3>3 DEF Session!SessionNext
  <2> QED
    BY <2>2, <2>3
<1>7. CASE FinishStart(t)
  <2>1. /\ call[t].op \in StartOps /\ UNCHANGED <<discovered, cmd_buf>>
        /\ cmd_buf.method # "revert"
    BY <1>2, <1>7 DEF FinishStart, Exchanged, discoveryVars, StartOps
  <2>2. CASE ~SessionOpens(t)
    BY <1>4, <1>5, <1>7, <2>1, <2>2 DEF FinishStart, sessionVars, StartOps, AllOperations
  <2>3. CASE SessionOpens(t)
    <3>1. Return(t, OPAL_OK) /\ tper_session_id' = resp_buf.tsn
      BY <1>7, <2>3 DEF FinishStart, AdoptSession
    <3>2. Doing' = [Doing EXCEPT ![t] = "ok"]
      BY <2>1, <3>1, ReturnProgress DEF StartOps
    <3>3. resp_buf.tsn \in Nat \ {0, tper_session_id}
      BY <1>2, <2>3 DEF TypeOK, Answers, NewSession
    <3>4. call[t].op = "start_admin" => tper_session_id = 0
      BY <1>1, <1>2 DEF AdminExclusive, InExchange
    <3>5. Session!Starts(t)
      BY <1>1, <1>2, <1>3, <2>1, <3>1, <3>2, <3>3, <3>4
      DEF Session!Starts, Session!Returns, Doing, Seen, StartOps
    <3> QED
      BY <3>5 DEF Session!SessionNext
  <2> QED
    BY <2>2, <2>3
<1>8. CASE FinishEnd(t)
  <2>1. /\ call[t].op \in {"end_session", "destroy"} /\ UNCHANGED discovered
        /\ tper_session_id' = 0 /\ Return(t, ret[t])
    BY <1>8 DEF FinishEnd, ForgetSession, Exchanged, discoveryVars
  <2>2. VisibleSession' = 0
    BY <1>1, <2>1 DEF Seen
  <2>3. CASE call[t].op = "end_session"
    <3>1. PICK o \in {"ok", "failed"} : Doing' = [Doing EXCEPT ![t] = o]
      BY <2>1, <2>3, ReturnProgress
    <3>2. Session!Ends(t)
      BY <1>2, <1>3, <2>1, <2>2, <2>3, <3>1
      DEF Session!Ends, Session!Returns, Session!Outcomes, Doing
    <3> QED
      BY <3>2 DEF Session!SessionNext
  <2>4. CASE call[t].op = "destroy"
    <3>1. Doing' = Doing
      BY <1>2, <2>1, <2>4, ReturnProgress
    <3>2. Session!EndsForDestroy(t)
      BY <1>2, <1>3, <2>1, <2>2, <2>4, <3>1 DEF Session!EndsForDestroy, Doing
    <3> QED
      BY <3>2 DEF Session!SessionNext
  <2> QED
    BY <2>1, <2>3, <2>4
<1>9. ASSUME NEW code, Return(t, code), call[t].op \in MethodOps \cup {"query"},
             UNCHANGED <<discovered, tper_session_id, cmd_buf>>
      PROVE  Session!SessionNext
  <2>1. CASE code # OPAL_OK
    BY <1>5, <1>9, <2>1 DEF MethodOps, AllOperations
  <2>2. CASE code = OPAL_OK
    <3>1. Doing' = [Doing EXCEPT ![t] = "ok"]
      BY <1>9, <2>2, ReturnProgress DEF MethodOps
    <3>2. Seen # 0 /\ Seen' = Seen
      BY <1>1, <1>2, <1>9 DEF Seen, MethodHeld, InExchange, MethodOps
    <3>3. Session!MethodSucceeds(t)
      BY <1>1, <1>2, <1>3, <1>9, <3>1, <3>2
      DEF Session!MethodSucceeds, Session!Returns, Doing, MethodOps
    <3> QED
      BY <3>3 DEF Session!SessionNext
  <2> QED
    BY <2>1, <2>2
<1>10. CASE FinishMethod(t) \/ FinishQuery(t)
  <2>1. PICK code : Return(t, code)
    BY <1>10, Zenon DEF FinishMethod, FinishQuery
  <2> QED
    BY <1>9, <1>10, <2>1 DEF FinishMethod, FinishQuery, Exchanged, discoveryVars, sessionVars
<1>11. CASE FinishPsidSession(t)
  <2>1. call[t].op = "revert" /\ UNCHANGED discovered
    BY <1>11 DEF FinishPsidSession, Exchanged, discoveryVars
  <2>2. CASE ~SessionOpens(t)
    BY <1>4, <1>5, <1>11, <2>1, <2>2 DEF FinishPsidSession, sessionVars, AllOperations
  <2>3. CASE SessionOpens(t)
    <3>1. cmd_buf'.method = "revert" /\ pc' = [pc EXCEPT ![t] = "send"]
          /\ UNCHANGED <<ret, call>>
      BY <1>11, <2>3 DEF FinishPsidSession, Packet
    <3>2. Doing' = Doing
      BY <1>2, <3>1 DEF Doing, Progress, TypeOK
    <3>3. VisibleSession' = 0
      BY <1>1, <3>1 DEF Seen
    <3>4. Session!GivesUpSession(t)
      BY <1>2, <1>3, <2>1, <3>2, <3>3 DEF Session!GivesUpSession, Doing
    <3> QED
      BY <3>4 DEF Session!SessionNext
  <2> QED
    BY <2>2, <2>3
<1>12. CASE FinishRevert(t)
  <2>1. /\ call[t].op = "revert" /\ cmd_buf.method = "revert" /\ tper_session_id' = 0
        /\ discovered' = FALSE
    BY <1>12 DEF FinishRevert, Exchanged, ForgetSession
  <2>2. PICK code : Return(t, code)
    BY <1>12, Zenon DEF FinishRevert
  <2>3. PICK o \in {"ok", "failed"} : Doing' = [Doing EXCEPT ![t] = o]
    BY <2>1, <2>2, ReturnProgress
  <2>4. VisibleSession = 0 /\ VisibleSession' = 0
    BY <1>1, <2>1 DEF Seen
  <2>5. Session!Reverts(t)
    BY <1>2, <1>3, <2>1, <2>3, <2>4
    DEF Session!Reverts, Session!Returns, Session!Outcomes, Doing
  <2> QED
    BY <2>5 DEF Session!SessionNext
<1> QED
  BY <1>6, <1>7, <1>8, <1>10, <1>11, <1>12 DEF Finish

(* Every step of the core is a step of OpalSession or a stutter.            *)
LEMMA RefinesNext ==
  RefinementInv /\ RefinementInv' /\ [Next]_vars
    => [Session!SessionNext]_Session!sessionSpecVars
<1> SUFFICES ASSUME RefinementInv, RefinementInv', [Next]_vars
             PROVE  Session!SessionNext \/ UNCHANGED Session!sessionSpecVars
  OBVIOUS
<1>1. /\ TypeOK /\ LockDiscipline /\ CommandOfCall /\ RevertSession
      /\ (session_open <=> tper_session_id # 0)
      /\ (CommandOfCall /\ RevertSession)'
      /\ VisibleSession = Seen /\ VisibleSession' = Seen'
  BY VisibleIsSeen DEF RefinementInv, SessionNumbered
<1>2. ASSUME UNCHANGED <<sessionVars, cmd_buf>> PROVE VisibleSession' = VisibleSession
  BY <1>1, <1>2 DEF Seen, sessionVars
<1>3. ASSUME NEW t \in Tasks, CallApi(t) PROVE Session!SessionNext
  BY <1>1, <1>2, <1>3, RefinesCall DEF CallApi, CallWith
<1>4. ASSUME NEW t \in Tasks, CallDestroy(t) PROVE Session!SessionNext
  BY <1>1, <1>2, <1>4, RefinesCallDestroy DEF CallDestroy
<1>5. ASSUME NEW t \in Tasks, Free(t) PROVE Session!SessionNext
  <2>1. VisibleSession = 0
    BY <1>1, <1>5 DEF Free, Seen, RefinementInv, DestroyAlone
  <2> QED
    BY <1>2, <1>5, <2>1, RefinesFree DEF Free
<1>6. ASSUME NEW t \in Tasks, Acquire(t) \/ Send(t) \/ Recv(t)
      PROVE  UNCHANGED Session!sessionSpecVars
  BY <1>1, <1>2, <1>6, RefinesInside DEF Acquire, Send, Recv
<1>7. ASSUME NEW t \in Tasks, Decline(t)
      PROVE  Session!SessionNext \/ UNCHANGED Session!sessionSpecVars
  BY <1>2, <1>7, RefinesDecline DEF Decline
<1>8. ASSUME NEW t \in Tasks, Build(t) PROVE UNCHANGED Session!sessionSpecVars
  <2>1. UNCHANGED sessionVars /\ cmd_buf'.method # "revert"
    BY <1>8 DEF Build, Packet, MethodOf, StartOps
  <2>2. \A u \in Tasks : ~InExchange(u)
    BY <1>1, <1>8, Alone DEF Build, InExchange, Critical
  <2>3. VisibleSession' = VisibleSession
    BY <1>1, <2>1, <2>2 DEF Seen, RevertSession, sessionVars
  <2> QED
    BY <1>1, <1>8, <2>3, RefinesInside
<1>9. ASSUME NEW t \in Tasks, Finish(t)
      PROVE  Session!SessionNext \/ UNCHANGED Session!sessionSpecVars
  BY <1>1, <1>9, RefinesFinish
<1>10. CASE UNCHANGED vars
  BY <1>10
  DEF vars, taskVars, discoveryVars, sessionVars, Session!sessionSpecVars,
      VisibleSession, Reverting, Progress
<1> QED
  BY <1>3, <1>4, <1>5, <1>6, <1>7, <1>8, <1>9, <1>10 DEF Next, Step, Done

(* In the context opal_dev_init returns nothing is under way.               *)
LEMMA InitRefinement == Init => TsnsGiven /\ RefinementInv
<1> SUFFICES ASSUME Init
             PROVE  /\ TsnsGiven /\ NewSession /\ SessionNumbered /\ AdminExclusive
                    /\ CommandOfCall /\ RevertSession /\ MethodHeld /\ DestroyAlone
  BY InitType, InitLock DEF RefinementInv
<1> QED
  BY DEF Init, DriveInit, TsnsGiven, NewSession, SessionNumbered, AdminExclusive,
         CommandOfCall, RevertSession, MethodHeld, DestroyAlone, InExchange, EmptyAnswer,
         Answer, NoCommand

(* Every step of the core keeps what the refinement needs.                  *)
LEMMA NextRefinement ==
  ASSUME OrderlyDestroy, TsnsGiven, RefinementInv, CommandOfCall', [Next]_vars
  PROVE  TsnsGiven' /\ RefinementInv'
<1> USE DEF RefinementInv
<1>1. TypeOK' /\ LockDiscipline' /\ TsnsGiven'
  BY NextType, NextLock, NextTsns
<1>2. NewSession' /\ SessionNumbered'
  BY NextNewSession, NextNumbered
<1>3. AdminExclusive' /\ RevertSession' /\ MethodHeld' /\ DestroyAlone'
  BY NextAdmin, NextRevertSession, NextMethodHeld, NextDestroy
<1> QED
  BY <1>1, <1>2, <1>3

(* As long as opal_dev_destroy waits for the calls to end, the calls of any *)
(* number of tasks are atomic to one another and keep what opal_core.h      *)
(* promises of sessions, whatever the transport and the drive do.           *)
THEOREM CallsAreAtomic ==
  ASSUME OrderlyDestroy PROVE Spec => ImplementsSession
<1>1. TsnsGiven /\ RefinementInv /\ CommandOfCall' /\ [Next]_vars
        => TsnsGiven' /\ RefinementInv'
  BY NextRefinement
<1>2. SessionInv => CommandOfCall
  BY DEF SessionInv
<1>3. Spec => []RefinementInv
  BY <1>1, <1>2, InitRefinement, SessionInvariant, PTL DEF Spec
<1> QED
  BY <1>3, RefinesInit, RefinesNext, PTL DEF Spec, ImplementsSession, Session!SessionSpec
=============================================================================
