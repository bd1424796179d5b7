--------------------------- MODULE OpalCoreProofs ---------------------------
(***************************************************************************)
(* Theorems about OpalCore, for any set of tasks, PINs, ranges, ComIDs,     *)
(* faults and any number of calls: types, mutex, sessions and ComIDs; then  *)
(* what the calls parse and return, discovery and destroy.                  *)
(***************************************************************************)
EXTENDS OpalCore, TLAPS

-----------------------------------------------------------------------------
(* Type correctness. *)

(* Whatever the drive does with a command, its state stays well formed. *)
LEMMA DriveStepType ==
  ASSUME DriveTypeOK, NEW c \in Commands, DriveExecutes(c)
  PROVE  DriveTypeOK'
<1> USE DriveAssumption DEF DriveTypeOK
<1>0. \A s \in Nat : StatusAnswer(s) \in Answers
  BY DEF StatusAnswer, Answer, Answers, Kinds
<1>1. EmptyAnswer \in Answers
  BY DEF EmptyAnswer, Answer, Answers, Kinds, OPAL_STATUS_SUCCESS
<1>2. OPAL_STATUS_SUCCESS \in Nat
  BY DEF OPAL_STATUS_SUCCESS
<1>3. CASE DriveDiscovers(c)
  BY <1>2, <1>3 DEF DriveDiscovers, DiscoveryAnswer, Answer, Answers, Kinds
<1>4. CASE DriveGrants(c)
  BY <1>2, <1>4 DEF DriveGrants, SyncAnswer, Answer, Answers, Kinds, Commands, Sps
<1>5. CASE DriveEndsSession(c)
  BY <1>1, <1>5 DEF DriveEndsSession
<1>6. CASE DriveSetsLock(c)
  BY <1>0, <1>2, <1>6 DEF DriveSetsLock, Commands
<1>7. CASE DriveActivates(c)
  BY <1>0, <1>2, <1>7 DEF DriveActivates
<1>8. CASE DriveSetsPin(c)
  BY <1>0, <1>2, <1>8 DEF DriveSetsPin, Commands
<1>9. CASE DriveReverts(c)
  BY <1>0, <1>2, <1>9 DEF DriveReverts
<1>10. CASE DriveReadsRow(c)
  BY <1>2, <1>10 DEF DriveReadsRow, RowAnswer, Answer, Answers, Kinds, Commands
<1>11. CASE DriveRefuses(c)
  BY <1>0, <1>11 DEF DriveRefuses
<1> QED
  BY <1>3, <1>4, <1>5, <1>6, <1>7, <1>8, <1>9, <1>10, <1>11 DEF DriveExecutes

(* Every request is a well-formed call. *)
LEMMA RequestType == Requests \subseteq Calls /\ DestroyCall \in Calls /\ NoCall \in Calls
<1>1. /\ 0 \in UserIds /\ 0 \in RangeIds /\ NoPin \in PinArgs
  BY DriveAssumption DEF PinArgs
<1>2. DestroyCall \in Calls /\ NoCall \in Calls
  BY <1>1 DEF DestroyCall, NoCall, Calls, AllOperations
<1>3. Requests \subseteq Calls
  BY <1>1 DEF Requests, CallsOf, Calls, AllOperations, StartOps, MethodOps
<1> QED
  BY <1>2, <1>3

(* Every packet buf_finalise stamps is a well-formed command. *)
LEMMA PacketType ==
  ASSUME NEW m \in Methods, NEW c \in Calls, NEW row \in UserIds \cup {NoRow},
         NEW n \in Nat, com_id \in Nat
  PROVE  Packet(m, c, row, n) \in Commands
BY DEF Packet, Commands, Calls, PinArgs, Sps, OPAL_DISCOVERY_COMID

(* What parse_status returns is one of the codes. *)
LEMMA ParseStatusType ==
  ASSUME NEW a \in Answers
  PROVE  ParseStatus(a) \in ReturnCodes
BY DEF ParseStatus, CodeOfStatus, ReturnCodes, DocumentedCodes, OPAL_OK, OPAL_ERR_AUTH,
       OPAL_ERR_PARAM, OPAL_ERR_PROTO

(* The codes the core itself returns. *)
LEMMA CodeType ==
  /\ {OPAL_OK, OPAL_ERR_TRANSPORT, OPAL_ERR_PROTO, OPAL_ERR_AUTH, OPAL_ERR_PARAM,
      APPEND_FAILED} \subseteq ReturnCodes
  /\ \A c \in Calls : EarlyCode(c) \in ReturnCodes
BY DEF ReturnCodes, DocumentedCodes, APPEND_FAILED, EarlyCode, OPAL_OK,
       OPAL_ERR_TRANSPORT, OPAL_ERR_PROTO, OPAL_ERR_AUTH, OPAL_ERR_PARAM

(* Unlocking and returning keeps the task and mutex variables well typed. *)
LEMMA ReturnType ==
  ASSUME TypeOK, NEW t \in Tasks, NEW code \in ReturnCodes, Return(t, code)
  PROVE  /\ lock' \in Tasks \cup {NoTask}
         /\ pc' \in [Tasks -> PcStates]
         /\ call' \in [Tasks -> Calls]
         /\ ret' \in [Tasks -> ReturnCodes]
BY RequestType DEF TypeOK, PcStates, Return

(* Init establishes the type invariant. *)
LEMMA InitType == Init => TypeOK
<1> SUFFICES ASSUME Init PROVE TypeOK
  OBVIOUS
<1> USE DriveAssumption, CoreAssumption DEF Init, PcStates
<1>1. NoCommand \in Commands
  BY DEF NoCommand, Commands, Methods, Sps
<1>2. EmptyAnswer \in Answers
  BY DEF EmptyAnswer, Answer, Answers, Kinds, OPAL_STATUS_SUCCESS
<1>3. DriveTypeOK
  BY <1>2 DEF DriveTypeOK, DriveInit
<1>4. call \in [Tasks -> Calls]
  BY RequestType
<1>5. ret \in [Tasks -> ReturnCodes]
  BY CodeType
<1> QED
  BY <1>1, <1>2, <1>3, <1>4, <1>5 DEF TypeOK

(* So does a call, if its arguments are well formed.                        *)
LEMMA CallWithType ==
  ASSUME TypeOK, NEW t \in Tasks, NEW c \in Calls, CallWith(t, c)
  PROVE  TypeOK'
<1> USE DEF TypeOK, PcStates
<1>1. /\ ret' = [ret EXCEPT ![t] = EarlyCode(c)] /\ EarlyCode(c) \in ReturnCodes
      /\ \/ /\ pc' = [pc EXCEPT ![t] = "lock"]
            /\ call' = [call EXCEPT ![t] = c]
         \/ UNCHANGED <<pc, call>>
  <2> HIDE DEF TypeOK
  <2> QED
    BY CodeType DEF CallWith
<1>2. calls' \in [Tasks -> Nat] /\ out' \in [Tasks -> BOOLEAN]
  BY DEF CallWith
<1>3. /\ ret' \in [Tasks -> ReturnCodes]
      /\ pc' \in [Tasks -> PcStates]
      /\ call' \in [Tasks -> Calls]
  BY <1>1
<1> QED
  BY <1>2, <1>3 DEF CallWith, discoveryVars, sessionVars, driveVars, DriveTypeOK

(* Every step keeps it. *)
LEMMA NextType == TypeOK /\ [Next]_vars => TypeOK'
<1> SUFFICES ASSUME TypeOK, [Next]_vars PROVE TypeOK'
  OBVIOUS
<1> USE RequestType, CodeType DEF TypeOK, PcStates
<1>1. ASSUME NEW t \in Tasks, CallApi(t) PROVE TypeOK'
  <2>1. PICK c \in Requests : CallWith(t, c)
    BY <1>1 DEF CallApi
  <2> HIDE DEF TypeOK
  <2> QED
    BY <2>1, CallWithType, RequestType
<1>2. ASSUME NEW t \in Tasks, CallDestroy(t) PROVE TypeOK'
  BY <1>2 DEF CallDestroy, discoveryVars, sessionVars, driveVars, DriveTypeOK
<1>3. ASSUME NEW t \in Tasks, Free(t) PROVE TypeOK'
  BY <1>3 DEF Free, discoveryVars, sessionVars, driveVars, DriveTypeOK
<1>4. ASSUME NEW t \in Tasks, Acquire(t) PROVE TypeOK'
  BY <1>4 DEF Acquire, discoveryVars, sessionVars, driveVars, DriveTypeOK
<1>5. ASSUME NEW t \in Tasks, Decline(t) PROVE TypeOK'
  <2>1. PICK code \in ReturnCodes : Return(t, code)
    BY <1>5, Zenon DEF Decline
  <2> QED
    BY <1>5, <2>1, ReturnType
    DEF Decline, discoveryVars, sessionVars, driveVars, DriveTypeOK
<1>6. ASSUME NEW t \in Tasks, Build(t) PROVE TypeOK'
  <2>1. PICK row \in PinRows(call[t]) :
          cmd_buf' = Packet(MethodOf(call[t].op), call[t], row, tper_session_id)
    BY <1>6 DEF Build
  <2>2. row \in UserIds \cup {NoRow}
    BY <2>1, DriveAssumption DEF PinRows, Calls
  <2>3. MethodOf(call[t].op) \in Methods
    BY DEF MethodOf, Calls, AllOperations, StartOps, MethodOps, Methods
  <2>4. cmd_buf' \in Commands
    BY <2>1, <2>2, <2>3, PacketType
  <2> QED
    BY <1>6, <2>4 DEF Build, discoveryVars, sessionVars, driveVars, DriveTypeOK
<1>7. ASSUME NEW t \in Tasks, Send(t) PROVE TypeOK'
  <2>1. DriveTypeOK'
    BY <1>7, DriveStepType DEF Send, driveVars, DriveTypeOK
  <2>2. /\ ret' \in [Tasks -> ReturnCodes]
        /\ pc' \in [Tasks -> PcStates]
    BY <1>7 DEF Send
  <2> QED
    BY <1>7, <2>1, <2>2 DEF Send, discoveryVars, sessionVars
<1>8. ASSUME NEW t \in Tasks, Recv(t) PROVE TypeOK'
  <2>1. EmptyAnswer \in Answers
    BY DEF EmptyAnswer, Answer, Answers, Kinds, OPAL_STATUS_SUCCESS
  <2>2. resp_buf' \in Answers /\ answer' \in Answers
    BY <1>8, <2>1 DEF Recv, DriveTypeOK
  <2>3. ret' \in [Tasks -> ReturnCodes]
    BY <1>8 DEF Recv
  <2> QED
    BY <1>8, <2>2, <2>3 DEF Recv, discoveryVars, sessionVars, DriveTypeOK
<1>9. ASSUME NEW t \in Tasks, Finish(t) PROVE TypeOK'
  <2>1. resp_buf.com \in Nat /\ resp_buf.tsn \in Nat /\ resp_buf.locked \in BOOLEAN
    BY DEF Answers
  <2>2. FirstError(ret[t], OPAL_ERR_PROTO) \in ReturnCodes
    BY DEF FirstError
  <2>3. FirstError(ret[t], ParseStatus(resp_buf)) \in ReturnCodes
    BY ParseStatusType DEF FirstError
  <2>4. ASSUME UNCHANGED driveVars PROVE DriveTypeOK'
    BY <2>4 DEF driveVars, DriveTypeOK
  <2>5. CASE FinishDiscover(t)
    BY <2>1, <2>4, <2>5, ReturnType DEF FinishDiscover, discoveryVars, sessionVars
  <2>6. CASE FinishStart(t)
    BY <2>1, <2>2, <2>4, <2>6, ReturnType
    DEF FinishStart, AdoptSession, discoveryVars, sessionVars
  <2>7. CASE FinishEnd(t)
    BY <2>4, <2>7, ReturnType DEF FinishEnd, ForgetSession, discoveryVars
  <2>8. CASE FinishMethod(t)
    BY <2>3, <2>4, <2>8, ReturnType DEF FinishMethod, discoveryVars, sessionVars
  <2>9. CASE FinishQuery(t)
    BY <2>1, <2>4, <2>9, ReturnType DEF FinishQuery, discoveryVars, sessionVars
  <2>10. CASE FinishPsidSession(t)
    <3>1. CASE SessionOpens(t)
      <4>1. cmd_buf' \in Commands
        BY <2>1, <2>10, <3>1, PacketType, DriveAssumption
        DEF FinishPsidSession, AdoptSession, Methods
      <4> QED
        BY <2>1, <2>4, <2>10, <3>1, <4>1 DEF FinishPsidSession, AdoptSession, discoveryVars
    <3>2. CASE ~SessionOpens(t)
      BY <2>2, <2>4, <2>10, <3>2, ReturnType
      DEF FinishPsidSession, discoveryVars, sessionVars
    <3> QED
      BY <3>1, <3>2
  <2>11. CASE FinishRevert(t)
    BY <2>3, <2>4, <2>11, ReturnType DEF FinishRevert, ForgetSession
  <2> QED
    BY <1>9, <2>5, <2>6, <2>7, <2>8, <2>9, <2>10, <2>11 DEF Finish
<1>10. CASE UNCHANGED vars
  BY <1>10 DEF vars, discoveryVars, sessionVars, taskVars, driveVars, DriveTypeOK
<1> QED
  BY <1>1, <1>2, <1>3, <1>4, <1>5, <1>6, <1>7, <1>8, <1>9, <1>10 DEF Next, Step, Done

(* Every variable keeps its type whatever the tasks, the transport and the  *)
(* drive do; in particular every return value is one of nine integers.      *)
THEOREM TypeCorrect == Spec => []TypeOK
BY InitType, NextType, PTL DEF Spec

-----------------------------------------------------------------------------
(* The mutex. *)

(* Nobody holds the mutex of the context opal_dev_init returns.             *)
LEMMA InitLock == Init => LockDiscipline
BY CoreAssumption DEF Init, LockDiscipline, Critical

(* Unlocking and returning takes a task out of its critical section.        *)
LEMMA ReturnLock ==
  ASSUME TypeOK, LockDiscipline, NEW t \in Tasks, pc[t] \in Critical,
         NEW code, Return(t, code)
  PROVE  LockDiscipline'
BY CoreAssumption DEF TypeOK, LockDiscipline, Critical, Return

(* Every step keeps the mutex with the one task between lock and unlock.    *)
LEMMA NextLock == TypeOK /\ LockDiscipline /\ [Next]_vars => LockDiscipline'
<1> SUFFICES ASSUME TypeOK, LockDiscipline, [Next]_vars PROVE LockDiscipline'
  OBVIOUS
<1> USE CoreAssumption
<1>1. ASSUME NEW t \in Tasks, CallApi(t) PROVE LockDiscipline'
  <2>1. lock' = lock /\ pc[t] = "idle"
        /\ (pc' = [pc EXCEPT ![t] = "lock"] \/ pc' = pc)
    BY <1>1 DEF CallApi, CallWith
  <2> QED
    BY <2>1 DEF LockDiscipline, Critical, TypeOK
<1>2. ASSUME NEW t \in Tasks, CallDestroy(t) PROVE LockDiscipline'
  BY <1>2 DEF CallDestroy, LockDiscipline, Critical, TypeOK
<1>3. ASSUME NEW t \in Tasks, Free(t) PROVE LockDiscipline'
  BY <1>3 DEF Free, LockDiscipline, Critical, TypeOK
<1>4. ASSUME NEW t \in Tasks, Acquire(t) PROVE LockDiscipline'
  BY <1>4 DEF Acquire, LockDiscipline, Critical, TypeOK
<1>5. ASSUME NEW t \in Tasks, Decline(t) PROVE LockDiscipline'
  <2>1. PICK code : Return(t, code)
    BY <1>5, Zenon DEF Decline
  <2> QED
    BY <1>5, <2>1, ReturnLock DEF Decline, Critical
<1>6. ASSUME NEW t \in Tasks, Build(t) PROVE LockDiscipline'
  BY <1>6 DEF Build, LockDiscipline, Critical, TypeOK
<1>7. ASSUME NEW t \in Tasks, Send(t) PROVE LockDiscipline'
  BY <1>7 DEF Send, LockDiscipline, Critical, TypeOK
<1>8. ASSUME NEW t \in Tasks, Recv(t) PROVE LockDiscipline'
  BY <1>8 DEF Recv, LockDiscipline, Critical, TypeOK
<1>9. ASSUME NEW t \in Tasks, Finish(t) PROVE LockDiscipline'
  <2>1. pc[t] = "finish"
    BY <1>9 DEF Finish, FinishDiscover, FinishStart, FinishEnd, FinishMethod,
                FinishQuery, FinishPsidSession, FinishRevert, Exchanged
  <2>2. (\E code : Return(t, code))
        \/ (pc' = [pc EXCEPT ![t] = "send"] /\ UNCHANGED lock)
    BY <1>9, Zenon DEF Finish, FinishDiscover, FinishStart, FinishEnd, FinishMethod,
                FinishQuery, FinishPsidSession, FinishRevert
  <2>3. CASE \E code : Return(t, code)
    BY <2>1, <2>3, ReturnLock DEF Critical
  <2>4. CASE pc' = [pc EXCEPT ![t] = "send"] /\ UNCHANGED lock
    BY <2>1, <2>4 DEF LockDiscipline, Critical, TypeOK
  <2> QED
    BY <2>2, <2>3, <2>4
<1>10. CASE UNCHANGED vars
  BY <1>10 DEF vars, taskVars, LockDiscipline
<1> QED
  BY <1>1, <1>2, <1>3, <1>4, <1>5, <1>6, <1>7, <1>8, <1>9, <1>10 DEF Next, Step, Done

(* On every path through every function, early returns and both phases of   *)
(* opal_revert_tper included, the mutex is held exactly inside, so at most  *)
(* one task touches the buffers and the session state.                      *)
THEOREM MutexDiscipline == Spec => []LockDiscipline
BY TypeCorrect, InitLock, NextLock, PTL DEF Spec

-----------------------------------------------------------------------------
(* The session the host believes open. *)

(* Only EndSession and Revert take sessions away, and a SyncSession answer  *)
(* names a session the drive has just opened.                               *)
LEMMA DriveSessions ==
  ASSUME DriveTypeOK, NEW c \in Commands, DriveExecutes(c)
  PROVE  /\ c.method \notin {"end_session", "revert"} => LiveTsns \subseteq LiveTsns'
         /\ answer'.kind = "sync" => answer'.tsn \in LiveTsns'
<1> USE DEF LiveTsns, Answer, EmptyAnswer, DiscoveryAnswer, SyncAnswer, StatusAnswer,
            RowAnswer
<1>1. CASE DriveDiscovers(c)
  BY <1>1 DEF DriveDiscovers
<1>2. CASE DriveGrants(c)
  <2>1. [tsn |-> next_tsn, sp |-> c.sp] \in sessions'
    BY <1>2 DEF DriveGrants
  <2>2. answer'.tsn = next_tsn
    BY <1>2 DEF DriveGrants
  <2>3. next_tsn \in LiveTsns'
    BY <2>1
  <2>4. sessions \subseteq sessions'
    BY <1>2 DEF DriveGrants
  <2> QED
    BY <2>2, <2>3, <2>4
<1>3. CASE DriveEndsSession(c)
  BY <1>3 DEF DriveEndsSession
<1>4. CASE DriveReverts(c)
  BY <1>4 DEF DriveReverts
<1>5. CASE DriveSetsLock(c)
  BY <1>5 DEF DriveSetsLock
<1>6. CASE DriveActivates(c)
  BY <1>6 DEF DriveActivates
<1>7. CASE DriveSetsPin(c)
  BY <1>7 DEF DriveSetsPin
<1>8. CASE DriveReadsRow(c)
  BY <1>8 DEF DriveReadsRow
<1>9. CASE DriveRefuses(c)
  BY <1>9 DEF DriveRefuses
<1> QED
  BY <1>1, <1>2, <1>3, <1>4, <1>5, <1>6, <1>7, <1>8, <1>9 DEF DriveExecutes

(* No session on either side at the start.                                  *)
LEMMA InitSession == Init => SessionInv
BY InitLock
DEF Init, DriveInit, SessionInv, CommandOfCall, SessionHeld, AnswerLive, ResponseLive,
    EmptyAnswer, Answer

(* No two tasks are inside at once. *)
LEMMA Alone ==
  ASSUME LockDiscipline, NEW t \in Tasks, NEW u \in Tasks,
         pc[t] \in Critical, pc[u] \in Critical
  PROVE  t = u
BY DEF LockDiscipline

(* A step of t that touches neither sessions nor packets nor the drive, and *)
(* that neither begins nor ends an exchange.                                *)
LEMMA LocalStep ==
  ASSUME TypeOK, SessionInv, LockDiscipline', NEW t \in Tasks,
         UNCHANGED <<sessionVars, cmd_buf, resp_buf, driveVars>>,
         pc[t] \notin {"send", "recv", "finish"},
         pc'[t] \notin {"send", "recv", "finish"},
         \A u \in Tasks \ {t} : pc'[u] = pc[u] /\ call'[u] = call[u] /\ ret'[u] = ret[u]
  PROVE  SessionInv'
<1>1. CommandOfCall'
  BY DEF SessionInv, CommandOfCall
<1>2. SessionHeld' /\ AnswerLive'
  BY DEF SessionInv, SessionHeld, AnswerLive, EndingSession, LiveTsns, sessionVars, driveVars
<1>3. ResponseLive'
  BY DEF SessionInv, ResponseLive, SessionOpens, LiveTsns, driveVars
<1> QED
  BY <1>1, <1>2, <1>3 DEF SessionInv, sessionVars

(* A step of the mutex holder that ends its call, leaving the drive alone   *)
(* and a host session that is live.                                         *)
LEMMA ReturnStep ==
  ASSUME TypeOK, SessionInv, LockDiscipline', NEW t \in Tasks, NEW code,
         pc[t] \in Critical, Return(t, code),
         UNCHANGED <<cmd_buf, resp_buf, driveVars>>,
         session_open' <=> tper_session_id' # 0,
         session_open' => tper_session_id' \in LiveTsns
  PROVE  SessionInv'
<1>1. \A u \in Tasks : pc'[u] \notin Critical
  BY Alone, CoreAssumption DEF LockDiscipline, Return, SessionInv
<1>2. CommandOfCall' /\ ResponseLive'
  BY <1>1 DEF CommandOfCall, ResponseLive, Critical
<1>3. SessionHeld' /\ AnswerLive'
  BY DEF SessionInv, SessionHeld, AnswerLive, LiveTsns, driveVars
<1> QED
  BY <1>2, <1>3 DEF SessionInv

(* Every step keeps the host's session among the drive's.                   *)
LEMMA NextSession == TypeOK /\ SessionInv /\ [Next]_vars => SessionInv'
<1> SUFFICES ASSUME TypeOK, SessionInv, [Next]_vars PROVE SessionInv'
  OBVIOUS
<1>0. LockDiscipline /\ LockDiscipline' /\ TypeOK'
  BY NextLock, NextType DEF SessionInv
<1>1. ASSUME NEW t \in Tasks, CallApi(t) PROVE SessionInv'
  <2>1. /\ pc[t] = "idle" /\ pc'[t] \in {"idle", "lock"}
        /\ \A u \in Tasks \ {t} :
             pc'[u] = pc[u] /\ call'[u] = call[u] /\ ret'[u] = ret[u]
    BY <1>1 DEF CallApi, CallWith, TypeOK
  <2> QED
    BY <1>0, <1>1, <2>1, LocalStep DEF CallApi, CallWith
<1>2. ASSUME NEW t \in Tasks, CallDestroy(t) PROVE SessionInv'
  BY <1>0, <1>2, LocalStep DEF CallDestroy, TypeOK
<1>3. ASSUME NEW t \in Tasks, Free(t) PROVE SessionInv'
  BY <1>0, <1>3, LocalStep DEF Free, TypeOK
<1>4. ASSUME NEW t \in Tasks, Acquire(t) PROVE SessionInv'
  BY <1>0, <1>4, LocalStep DEF Acquire, TypeOK
<1>5. ASSUME NEW t \in Tasks, Decline(t) PROVE SessionInv'
  <2>1. PICK code : Return(t, code)
    BY <1>5, Zenon DEF Decline
  <2>2. session_open => tper_session_id \in LiveTsns
    BY <1>0, <1>5, Alone DEF Decline, SessionInv, SessionHeld, EndingSession, Critical
  <2> QED
    BY <1>0, <1>5, <2>1, <2>2, ReturnStep
    DEF Decline, Critical, SessionInv, sessionVars, LiveTsns, driveVars
<1>6. ASSUME NEW t \in Tasks, Build(t) PROVE SessionInv'
  <2>1. /\ pc[t] = "build" /\ pc' = [pc EXCEPT ![t] = "send"]
        /\ cmd_buf'.method = MethodOf(call[t].op)
        /\ UNCHANGED <<sessionVars, resp_buf, call, ret, driveVars>>
    BY <1>6 DEF Build, Packet
  <2>2. \A u \in Tasks \ {t} : pc[u] \notin Critical
    BY <1>0, <2>1, Alone DEF Critical
  <2>3. session_open => tper_session_id \in LiveTsns
    BY <2>1, <2>2 DEF SessionInv, SessionHeld, EndingSession, Critical
  <2>4. CommandOfCall' /\ ResponseLive'
    BY <2>1, <2>2 DEF CommandOfCall, ResponseLive, TypeOK, Critical
  <2>5. SessionHeld' /\ AnswerLive'
    BY <2>1, <2>3
    DEF SessionInv, SessionHeld, AnswerLive, LiveTsns, sessionVars, driveVars
  <2> QED
    BY <1>0, <2>1, <2>4, <2>5 DEF SessionInv, sessionVars
<1>7. ASSUME NEW t \in Tasks, Send(t) PROVE SessionInv'
  <2>1. /\ pc[t] = "send" /\ pc'[t] \in {"recv", "finish"}
        /\ \A u \in Tasks \ {t} : pc'[u] = pc[u] /\ pc[u] \notin Critical
        /\ UNCHANGED <<sessionVars, cmd_buf, resp_buf, call>>
    BY <1>0, <1>7, Alone DEF Send, TypeOK, Critical
  <2>2. pc'[t] = "finish" => ret'[t] # OPAL_OK
    BY <1>7 DEF Send, TypeOK, OPAL_OK, OPAL_ERR_TRANSPORT
  <2>3. session_open => tper_session_id \in LiveTsns
    BY <2>1 DEF SessionInv, SessionHeld, EndingSession, Critical
  <2>4. /\ cmd_buf.method \notin {"end_session", "revert"} => LiveTsns \subseteq LiveTsns'
        /\ answer'.kind = "sync" => answer'.tsn \in LiveTsns'
    <3>1. CASE DriveExecutes(cmd_buf)
      BY <3>1, DriveSessions DEF TypeOK
    <3>2. CASE UNCHANGED driveVars
      BY <3>2 DEF SessionInv, AnswerLive, LiveTsns, driveVars
    <3> QED
      BY <1>7, <3>1, <3>2 DEF Send
  <2>5. CommandOfCall' /\ ResponseLive'
    BY <2>1, <2>2
    DEF SessionInv, CommandOfCall, ResponseLive, SessionOpens, Critical
  <2>6. SessionHeld'
    BY <2>1, <2>3, <2>4 DEF SessionHeld, EndingSession, sessionVars
  <2> QED
    BY <1>0, <2>1, <2>4, <2>5, <2>6 DEF SessionInv, AnswerLive, sessionVars
<1>8. ASSUME NEW t \in Tasks, Recv(t) PROVE SessionInv'
  <2>1. /\ pc[t] = "recv" /\ pc'[t] = "finish"
        /\ \A u \in Tasks \ {t} : pc'[u] = pc[u] /\ pc[u] \notin Critical
        /\ UNCHANGED <<sessionVars, cmd_buf, call, sessions>>
    BY <1>0, <1>8, Alone DEF Recv, TypeOK, Critical
  <2>2. /\ resp_buf' \in {answer, EmptyAnswer}
        /\ answer' \in {answer, EmptyAnswer}
    BY <1>8 DEF Recv
  <2>3. EmptyAnswer.kind # "sync"
    BY DEF EmptyAnswer, Answer
  <2>4. AnswerLive'
    BY <2>1, <2>2, <2>3 DEF SessionInv, AnswerLive, LiveTsns
  <2>5. CommandOfCall'
    BY <2>1 DEF SessionInv, CommandOfCall, Critical
  <2>6. ResponseLive'
    BY <2>1, <2>2, <2>3
    DEF SessionInv, AnswerLive, ResponseLive, SessionOpens, LiveTsns, Critical
  <2>7. SessionHeld'
    BY <2>1 DEF SessionInv, SessionHeld, EndingSession, LiveTsns, sessionVars
  <2> QED
    BY <1>0, <2>1, <2>4, <2>5, <2>6, <2>7 DEF SessionInv, sessionVars
<1>9. ASSUME NEW t \in Tasks, Finish(t) PROVE SessionInv'
  <2>1. pc[t] = "finish" /\ pc[t] \in Critical
    BY <1>9 DEF Finish, FinishDiscover, FinishStart, FinishEnd, FinishMethod,
                FinishQuery, FinishPsidSession, FinishRevert, Exchanged, Critical
  <2>2. \A u \in Tasks \ {t} : pc[u] \notin Critical
    BY <1>0, <2>1, Alone
  <2>3. session_open /\ cmd_buf.method \notin {"end_session", "revert"}
          => tper_session_id \in LiveTsns
    BY <2>2 DEF SessionInv, SessionHeld, EndingSession, Critical
  <2>4. call[t].op # "revert" => cmd_buf.method = MethodOf(call[t].op)
    BY <2>1 DEF SessionInv, CommandOfCall
  <2>5. SessionOpens(t) => resp_buf.tsn \in LiveTsns /\ resp_buf.tsn # 0
    <3>1. 0 \notin LiveTsns
      BY DEF TypeOK, DriveTypeOK, LiveTsns
    <3> QED
      BY <2>1, <3>1 DEF SessionInv, ResponseLive
  <2>6. ASSUME NEW code, Return(t, code),
               UNCHANGED <<sessionVars, cmd_buf, resp_buf, driveVars>>,
               cmd_buf.method \notin {"end_session", "revert"}
        PROVE  SessionInv'
    BY <1>0, <2>1, <2>3, <2>6, ReturnStep
    DEF SessionInv, sessionVars, LiveTsns, driveVars
  <2>7. CASE FinishDiscover(t)
    <3>1. cmd_buf.method = "discovery"
      BY <2>4, <2>7 DEF FinishDiscover, Exchanged, MethodOf, StartOps
    <3> QED
      BY <2>6, <2>7, <3>1, Zenon DEF FinishDiscover
  <2>8. CASE FinishStart(t)
    <3>1. cmd_buf.method = "start_session"
      BY <2>4, <2>8 DEF FinishStart, Exchanged, MethodOf, StartOps
    <3>2. CASE SessionOpens(t)
      BY <1>0, <2>1, <2>5, <2>8, <3>2, ReturnStep
      DEF FinishStart, AdoptSession, LiveTsns, driveVars
    <3>3. CASE ~SessionOpens(t)
      BY <2>6, <2>8, <3>1, <3>3 DEF FinishStart
    <3> QED
      BY <3>2, <3>3
  <2>9. CASE FinishEnd(t)
    BY <1>0, <2>1, <2>9, ReturnStep DEF FinishEnd, ForgetSession
  <2>10. CASE FinishMethod(t)
    <3>1. cmd_buf.method \in {"set_lock", "activate", "set_pin"}
      BY <2>4, <2>10 DEF FinishMethod, Exchanged, MethodOf, MethodOps, StartOps
    <3> QED
      BY <2>6, <2>10, <3>1 DEF FinishMethod
  <2>11. CASE FinishQuery(t)
    <3>1. cmd_buf.method = "get"
      BY <2>4, <2>11 DEF FinishQuery, Exchanged, MethodOf, StartOps
    <3> QED
      BY <2>6, <2>11, <3>1 DEF FinishQuery
  <2>12. CASE FinishPsidSession(t)
    <3>1. cmd_buf.method = "start_session" /\ call[t].op = "revert"
      BY <2>12 DEF FinishPsidSession, Exchanged
    <3>2. CASE ~SessionOpens(t)
      BY <2>6, <2>12, <3>1, <3>2 DEF FinishPsidSession
    <3>3. CASE SessionOpens(t)
      <4>1. /\ session_open' /\ tper_session_id' = resp_buf.tsn
            /\ cmd_buf'.method = "revert"
            /\ pc' = [pc EXCEPT ![t] = "send"]
            /\ UNCHANGED <<resp_buf, call, ret, driveVars>>
        BY <2>12, <3>3 DEF FinishPsidSession, AdoptSession, Packet
      <4>2. CommandOfCall' /\ ResponseLive'
        BY <2>2, <3>1, <4>1 DEF CommandOfCall, ResponseLive, TypeOK, Critical
      <4>3. SessionHeld' /\ AnswerLive'
        BY <2>5, <3>3, <4>1
        DEF SessionInv, SessionHeld, AnswerLive, LiveTsns, driveVars
      <4> QED
        BY <1>0, <2>5, <3>3, <4>1, <4>2, <4>3 DEF SessionInv
    <3> QED
      BY <3>2, <3>3
  <2>13. CASE FinishRevert(t)
    BY <1>0, <2>1, <2>13, ReturnStep DEF FinishRevert, ForgetSession
  <2> QED
    BY <1>9, <2>7, <2>8, <2>9, <2>10, <2>11, <2>12, <2>13 DEF Finish
<1>10. CASE UNCHANGED vars
  BY <1>10
  DEF vars, taskVars, sessionVars, driveVars, SessionInv, LockDiscipline, CommandOfCall,
      SessionHeld, EndingSession, AnswerLive, ResponseLive, SessionOpens, LiveTsns
<1> QED
  BY <1>1, <1>2, <1>3, <1>4, <1>5, <1>6, <1>7, <1>8, <1>9, <1>10 DEF Next, Step, Done

(* The inductive invariant behind HostSessionLive holds in every state.     *)
LEMMA SessionInvariant == Spec => []SessionInv
BY TypeCorrect, InitSession, NextSession, PTL DEF Spec

(* However calls interleave and exchanges fail, answer late or are refused, *)
(* the session the host believes open between calls is one the drive holds. *)
THEOREM SessionLive == Spec => []HostSessionLive
<1>1. SessionInv => HostSessionLive
  BY CoreAssumption
  DEF SessionInv, HostSessionLive, SessionHeld, EndingSession, LockDiscipline, Critical
<1> QED
  BY <1>1, SessionInvariant, PTL

-----------------------------------------------------------------------------
(* What the mutex holder can rely on. *)

Undisturbed(u) ==
  /\ pc'[u] = pc[u] /\ call'[u] = call[u] /\ ret'[u] = ret[u]
  /\ UNCHANGED <<sessionVars, discoveryVars, cmd_buf, resp_buf, driveVars>>

(* While a task is inside, nothing it works on changes but by its own step. *)
LEMMA Holder ==
  ASSUME TypeOK, LockDiscipline, [Next]_vars, NEW u \in Tasks, pc'[u] \in Critical
  PROVE  Step(u) \/ Undisturbed(u)
<1>1. ASSUME NEW t \in Tasks, CallApi(t) PROVE Undisturbed(u)
  <2>1. pc'[t] \in {"idle", "lock"}
        /\ \A v \in Tasks \ {t} :
             pc'[v] = pc[v] /\ call'[v] = call[v] /\ ret'[v] = ret[v]
    BY <1>1 DEF CallApi, CallWith, TypeOK
  <2> QED
    BY <1>1, <2>1 DEF CallApi, CallWith, Undisturbed, Critical
<1>2. ASSUME NEW t \in Tasks, CallDestroy(t) PROVE Undisturbed(u)
  BY <1>2 DEF CallDestroy, Undisturbed, Critical, TypeOK
<1>3. ASSUME NEW t \in Tasks, Step(t), t # u PROVE Undisturbed(u)
  <2>1. CASE Free(t)
    BY <1>3, <2>1 DEF Free, Undisturbed, TypeOK
  <2>2. CASE Acquire(t)
    BY <1>3, <2>2 DEF Acquire, Undisturbed, TypeOK
  <2>3. CASE Decline(t) \/ Build(t) \/ Send(t) \/ Recv(t) \/ Finish(t)
    <3>1. pc[t] \in Critical
      BY <2>3 DEF Decline, Build, Send, Recv, Finish, FinishDiscover, FinishStart,
                  FinishEnd, FinishMethod, FinishQuery, FinishPsidSession,
                  FinishRevert, Exchanged, Critical
    <3>2. pc'[t] \in Critical \/ lock' = NoTask
      BY <2>3 DEF Decline, Build, Send, Recv, Finish, FinishDiscover, FinishStart,
                  FinishEnd, FinishMethod, FinishQuery, FinishPsidSession,
                  FinishRevert, Return, Critical, TypeOK
    <3>3. LockDiscipline'
      BY NextLock
    <3> QED
      BY <1>3, <3>1, <3>2, <3>3, CoreAssumption DEF LockDiscipline
  <2> QED
    BY <1>3, <2>1, <2>2, <2>3 DEF Step
<1>4. CASE UNCHANGED vars
  BY <1>4 DEF vars, taskVars, Undisturbed
<1> QED
  BY <1>1, <1>2, <1>3, <1>4 DEF Next, Done

(* Only its own steps move a task that is inside a call. *)
LEMMA OwnStep ==
  ASSUME TypeOK, [Next]_vars, NEW t \in Tasks, pc[t] # "idle", pc'[t] # pc[t]
  PROVE  Step(t)
<1>1. ASSUME NEW u \in Tasks, CallApi(u) \/ CallDestroy(u) PROVE FALSE
  <2>1. pc[u] = "idle" /\ \A v \in Tasks \ {u} : pc'[v] = pc[v]
    BY <1>1 DEF CallApi, CallWith, CallDestroy, TypeOK
  <2> QED
    BY <2>1
<1>2. ASSUME NEW u \in Tasks, Step(u), u # t PROVE FALSE
  <2>1. pc'[t] = pc[t]
    BY <1>2 DEF Step, Free, Acquire, Decline, Build, Send, Recv, Finish,
       FinishDiscover, FinishStart, FinishEnd, FinishMethod, FinishQuery,
       FinishPsidSession, FinishRevert, Return, TypeOK
  <2> QED
    BY <2>1
<1>3. ASSUME UNCHANGED vars PROVE FALSE
  BY <1>3 DEF vars, taskVars
<1> QED
  BY <1>1, <1>2, <1>3 DEF Next, Done

(* A task inside a call got there by calling, and keeps its arguments. *)
LEMMA CallsKept ==
  ASSUME TypeOK, [Next]_vars, NEW t \in Tasks, pc'[t] # "idle"
  PROVE  \/ pc[t] # "idle" /\ call'[t] = call[t]
         \/ (CallApi(t) \/ CallDestroy(t)) /\ pc[t] = "idle"
<1>1. ASSUME NEW u \in Tasks, CallApi(u)
      PROVE  pc[u] = "idle" /\ \A v \in Tasks \ {u} : pc'[v] = pc[v] /\ call'[v] = call[v]
  BY <1>1 DEF CallApi, CallWith, TypeOK
<1>2. ASSUME NEW u \in Tasks, CallDestroy(u)
      PROVE  pc[u] = "idle" /\ \A v \in Tasks \ {u} : pc'[v] = pc[v] /\ call'[v] = call[v]
  BY <1>2 DEF CallDestroy, TypeOK
<1>3. ASSUME NEW u \in Tasks, Step(u)
      PROVE  pc[t] # "idle" /\ call'[t] = call[t]
  BY <1>3 DEF Step, Free, Acquire, Decline, Build, Send, Recv, Finish,
     FinishDiscover, FinishStart, FinishEnd, FinishMethod, FinishQuery,
     FinishPsidSession, FinishRevert, Exchanged, Return, TypeOK
<1>4. CASE UNCHANGED vars
  BY <1>4 DEF vars, taskVars
<1> QED
  BY <1>1, <1>2, <1>3, <1>4 DEF Next, Done

(* A step that keeps a task inside its exchange. *)
LEMMA ExchangeStep ==
  ASSUME TypeOK, NEW t \in Tasks, Step(t), InExchange(t)'
  PROVE  \/ Build(t) /\ pc'[t] = "send"
         \/ Send(t) /\ pc'[t] \in {"recv", "finish"}
         \/ Recv(t) /\ pc'[t] = "finish"
         \/ FinishPsidSession(t) /\ SessionOpens(t) /\ pc'[t] = "send"
BY DEF Step, InExchange, Free, Acquire, Decline, Build, Send, Recv, Finish,
       FinishDiscover, FinishStart, FinishEnd, FinishMethod, FinishQuery,
       FinishPsidSession, FinishRevert, Return, TypeOK

(* An opal_start_admin_session that passed its check keeps the session      *)
(* closed until it adopts its own: nobody else can open one meanwhile.      *)
LEMMA NextAdmin ==
  TypeOK /\ LockDiscipline /\ AdminExclusive /\ [Next]_vars => AdminExclusive'
<1> SUFFICES ASSUME TypeOK, LockDiscipline, AdminExclusive, [Next]_vars,
                    NEW t \in Tasks, InExchange(t)', call'[t].op = "start_admin"
             PROVE  ~session_open'
  BY DEF AdminExclusive
<1>1. Step(t) \/ Undisturbed(t)
  BY Holder DEF InExchange, Critical
<1>2. CASE Undisturbed(t)
  BY <1>2 DEF Undisturbed, AdminExclusive, InExchange, sessionVars
<1>3. CASE Step(t)
  <2>1. CASE Build(t)
    BY <2>1 DEF Build, WrongState, sessionVars
  <2>2. CASE Send(t) \/ Recv(t)
    BY <2>2 DEF Send, Recv, AdminExclusive, InExchange, sessionVars
  <2>3. CASE FinishPsidSession(t) /\ SessionOpens(t)
    BY <2>3 DEF FinishPsidSession, Exchanged
  <2> QED
    BY <1>3, <2>1, <2>2, <2>3, ExchangeStep
<1> QED
  BY <1>1, <1>2, <1>3

(* The check of session_open in opal_start_admin_session still holds when   *)
(* the new session is adopted, three steps and a sleep later.               *)
THEOREM AdminOnlyFromClosed == Spec => AdminNeverReplaces
<1>1. Init => AdminExclusive
  BY DEF Init, AdminExclusive
<1>2. TypeOK /\ LockDiscipline /\ AdminExclusive /\ [Next]_vars =>
        [\A t \in Tasks : Ends(t) /\ call[t].op = "start_admin" /\ ret'[t] = OPAL_OK
           => ~session_open]_vars
  <2> SUFFICES ASSUME TypeOK, LockDiscipline, AdminExclusive, Next,
                      NEW t \in Tasks, Ends(t), call[t].op = "start_admin",
                      ret'[t] = OPAL_OK, session_open
               PROVE  FALSE
    OBVIOUS
  <2>1. pc[t] = "build" /\ WrongState(call[t])
    BY DEF AdminExclusive, Ends, Critical, InExchange, WrongState
  <2>2. Step(t)
    BY <2>1, OwnStep DEF Ends
  <2>3. Decline(t) \/ Build(t)
    BY <2>1, <2>2 DEF Step, Free, Acquire, Send, Recv, Finish, FinishDiscover,
       FinishStart, FinishEnd, FinishMethod, FinishQuery, FinishPsidSession,
       FinishRevert, Exchanged
  <2>4. ret'[t] = OPAL_ERR_PROTO
    BY <2>1, <2>3 DEF Decline, Build, NothingToEnd, Return, TypeOK
  <2> QED
    BY <2>4 DEF OPAL_OK, OPAL_ERR_PROTO
<1> QED
  BY <1>1, <1>2, TypeCorrect, MutexDiscipline, NextAdmin, PTL DEF Spec, AdminNeverReplaces

(* MethodsInLiveSession needs only the session invariant before the step    *)
(* that puts the command into cmd_buf.                                      *)
LEMMA NextMethods ==
  TypeOK /\ SessionInv /\ MethodsInLiveSession /\ [Next]_vars => MethodsInLiveSession'
<1> SUFFICES ASSUME TypeOK, SessionInv, MethodsInLiveSession, [Next]_vars,
                    NEW t \in Tasks, pc'[t] = "send", cmd_buf'.method \in SessionMethods
             PROVE  /\ session_open' /\ cmd_buf'.tsn = tper_session_id'
                    /\ cmd_buf'.tsn \in LiveTsns'
  BY DEF MethodsInLiveSession
<1>0. LockDiscipline
  BY DEF SessionInv
<1>1. Step(t) \/ Undisturbed(t)
  BY <1>0, Holder DEF Critical
<1>2. CASE Undisturbed(t)
  BY <1>2 DEF Undisturbed, MethodsInLiveSession, LiveTsns, sessionVars, driveVars
<1>3. CASE Step(t)
  <2>1. CASE Build(t)
    <3>1. cmd_buf'.method = MethodOf(call[t].op) /\ cmd_buf'.tsn = tper_session_id
      BY <2>1 DEF Build, Packet
    <3>2. session_open
      BY <2>1, <3>1
      DEF Build, WrongState, NothingToEnd, MethodOf, SessionMethods, MethodOps, StartOps,
          TypeOK, Calls, AllOperations
    <3>3. tper_session_id \in LiveTsns
      BY <1>0, <2>1, <3>2, Alone DEF Build, SessionInv, SessionHeld, EndingSession, Critical
    <3> QED
      BY <2>1, <3>1, <3>2, <3>3 DEF Build, LiveTsns, sessionVars, driveVars
  <2>2. CASE FinishPsidSession(t) /\ SessionOpens(t)
    <3>1. resp_buf.tsn \in LiveTsns
      BY <2>2 DEF FinishPsidSession, Exchanged, SessionInv, ResponseLive
    <3> QED
      BY <2>2, <3>1 DEF FinishPsidSession, AdoptSession, Packet, LiveTsns, driveVars
  <2> QED
    BY <1>3, <2>1, <2>2, ExchangeStep DEF InExchange
<1> QED
  BY <1>1, <1>2, <1>3

(* No command goes out in a session that has ended: what the mutex holder   *)
(* checked still holds when IF-SEND runs, both phases of revert included.   *)
THEOREM MethodsOnlyInLiveSession == Spec => []MethodsInLiveSession
<1>1. Init => MethodsInLiveSession
  BY DEF Init, MethodsInLiveSession
<1> QED
  BY <1>1, TypeCorrect, SessionInvariant, NextMethods, PTL DEF Spec

-----------------------------------------------------------------------------
(* The ComID. *)

ComIdsAnswered == {answer.com, resp_buf.com} \subseteq ComIds \cup {0}

(* The drive answers discovery with one of its ComIDs, or with none.        *)
LEMMA DriveComIds ==
  ASSUME NEW c \in Commands, answer.com \in ComIds \cup {0}, DriveExecutes(c)
  PROVE  answer'.com \in ComIds \cup {0}
BY DEF DriveExecutes, DriveDiscovers, DriveGrants, DriveEndsSession, DriveSetsLock,
       DriveActivates, DriveSetsPin, DriveReverts, DriveReadsRow, DriveRefuses,
       Answer, EmptyAnswer, DiscoveryAnswer, SyncAnswer, StatusAnswer, RowAnswer

(* No step makes up a ComID: answers carry one of the drive's, or none.     *)
LEMMA NextComIdsAnswered ==
  TypeOK /\ ComIdsAnswered /\ [Next]_vars => ComIdsAnswered'
<1> SUFFICES ASSUME TypeOK, ComIdsAnswered, [Next]_vars PROVE ComIdsAnswered'
  OBVIOUS
<1> USE DEF ComIdsAnswered
<1>1. ASSUME NEW t \in Tasks, Send(t) PROVE ComIdsAnswered'
  BY <1>1, DriveComIds DEF Send, TypeOK, driveVars
<1>2. ASSUME NEW t \in Tasks, Recv(t) PROVE ComIdsAnswered'
  BY <1>2 DEF Recv, EmptyAnswer, Answer
<1>3. ASSUME UNCHANGED <<resp_buf, driveVars>> PROVE ComIdsAnswered'
  BY <1>3 DEF driveVars
<1>4. ASSUME NEW t \in Tasks, CallApi(t) \/ CallDestroy(t) \/ Free(t) \/ Acquire(t)
             \/ Decline(t) \/ Build(t) \/ Finish(t)
      PROVE  UNCHANGED <<resp_buf, driveVars>>
  BY <1>4 DEF CallApi, CallWith, CallDestroy, Free, Acquire, Decline, Build, Finish,
     FinishDiscover, FinishStart, FinishEnd, FinishMethod, FinishQuery,
     FinishPsidSession, FinishRevert
<1>5. CASE UNCHANGED vars
  BY <1>5, <1>3 DEF vars
<1> QED
  BY <1>1, <1>2, <1>3, <1>4, <1>5 DEF Next, Step, Done

(* com_id, discovered and session_open change only at the end of an         *)
(* exchange.                                                                *)
LEMMA ComIdStep ==
  ASSUME TypeOK, LockDiscipline, ComIdInv, [Next]_vars
  PROVE  /\ discovered' \/ session_open' => com_id' \in ComIds
         /\ com_id \in ComIds => com_id' \in ComIds
<1> DEFINE Kept == (discovered' \/ session_open' => com_id' \in ComIds)
                   /\ (com_id \in ComIds => com_id' \in ComIds)
<1>1. ASSUME UNCHANGED <<discoveryVars, sessionVars>> PROVE Kept
  BY <1>1 DEF ComIdInv, discoveryVars, sessionVars
<1>2. ASSUME NEW t \in Tasks, FinishDiscover(t) PROVE Kept
  BY <1>2 DEF FinishDiscover, ComIdInv, discoveryVars, sessionVars
<1>3. ASSUME NEW t \in Tasks, FinishStart(t) PROVE Kept
  BY <1>3 DEF FinishStart, Exchanged, ComIdInv, discoveryVars, sessionVars
<1>4. ASSUME NEW t \in Tasks, FinishEnd(t) \/ FinishRevert(t) PROVE Kept
  BY <1>4 DEF FinishEnd, FinishRevert, ForgetSession, ComIdInv, discoveryVars
<1>5. ASSUME NEW t \in Tasks, FinishPsidSession(t) PROVE Kept
  BY <1>5 DEF FinishPsidSession, Exchanged, ComIdInv, InExchange, discoveryVars
<1>6. ASSUME NEW t \in Tasks, CallApi(t) \/ CallDestroy(t) \/ Free(t) \/ Acquire(t)
             \/ Decline(t) \/ Build(t) \/ Send(t) \/ Recv(t) \/ FinishMethod(t)
             \/ FinishQuery(t)
      PROVE  UNCHANGED <<discoveryVars, sessionVars>>
  BY <1>6 DEF CallApi, CallWith, CallDestroy, Free, Acquire, Decline, Build, Send, Recv,
     FinishMethod, FinishQuery
<1>7. CASE UNCHANGED vars
  BY <1>1, <1>7 DEF vars
<1> QED
  BY <1>1, <1>2, <1>3, <1>4, <1>5, <1>6, <1>7 DEF Next, Step, Done, Finish

(* Every step keeps com_id, and the ComID in cmd_buf, a negotiated one.     *)
LEMMA NextComId == TypeOK /\ LockDiscipline /\ ComIdInv /\ [Next]_vars => ComIdInv'
<1> SUFFICES ASSUME TypeOK, LockDiscipline, ComIdInv, [Next]_vars PROVE ComIdInv'
  OBVIOUS
<1>1. ASSUME NEW t \in Tasks, pc'[t] # "idle"
      PROVE  call'[t].op # "none" /\ (call'[t].op \in StartOps => com_id' \in ComIds)
  <2>1. CASE pc[t] # "idle" /\ call'[t] = call[t]
    BY <1>1, <2>1, ComIdStep DEF ComIdInv
  <2>2. CASE CallApi(t) /\ pc[t] = "idle"
    <3>1. PICK c \in Requests : c = call'[t] /\ EarlyCode(c) = OPAL_OK
      BY <1>1, <2>2 DEF CallApi, CallWith, TypeOK
    <3>2. c.op \in StartOps => discovered
      BY <3>1 DEF EarlyCode, OPAL_OK, OPAL_ERR_PROTO, OPAL_ERR_PARAM
    <3>3. c.op # "none"
      BY <3>1 DEF Requests, CallsOf
    <3> QED
      BY <3>1, <3>2, <3>3, ComIdStep DEF ComIdInv
  <2>3. CASE CallDestroy(t) /\ pc[t] = "idle"
    BY <1>1, <2>3 DEF CallDestroy, DestroyCall, NoCall, StartOps, TypeOK
  <2>4. \/ pc[t] # "idle" /\ call'[t] = call[t]
        \/ (CallApi(t) \/ CallDestroy(t)) /\ pc[t] = "idle"
    BY <1>1, CallsKept
  <2> QED
    BY <2>1, <2>2, <2>3, <2>4
<1>2. ASSUME NEW t \in Tasks, InExchange(t)', cmd_buf'.method # "discovery"
      PROVE  com_id' \in ComIds /\ cmd_buf'.com = com_id'
  <2>1. Step(t) \/ Undisturbed(t)
    BY <1>2, Holder DEF InExchange, Critical
  <2>2. CASE Undisturbed(t)
    BY <1>2, <2>2 DEF Undisturbed, ComIdInv, InExchange, discoveryVars
  <2>3. CASE Build(t)
    <3>1. cmd_buf'.method = MethodOf(call[t].op)
          /\ (cmd_buf'.method # "discovery" => cmd_buf'.com = com_id)
      BY <2>3 DEF Build, Packet
    <3>2. session_open \/ discovered \/ call[t].op \in StartOps
      BY <1>2, <2>3, <3>1
      DEF Build, WrongState, NothingToEnd, MethodOf, MethodOps, StartOps,
          TypeOK, Calls, AllOperations, ComIdInv
    <3>3. com_id \in ComIds
      BY <2>3, <3>2 DEF ComIdInv, Build
    <3> QED
      BY <1>2, <2>3, <3>1, <3>3 DEF Build, discoveryVars
  <2>4. CASE Send(t) \/ Recv(t)
    BY <1>2, <2>4 DEF Send, Recv, ComIdInv, InExchange, discoveryVars
  <2>5. CASE FinishPsidSession(t) /\ SessionOpens(t)
    BY <2>5 DEF FinishPsidSession, Exchanged, ComIdInv, InExchange, Packet, discoveryVars
  <2> QED
    BY <1>2, <2>1, <2>2, <2>3, <2>4, <2>5, ExchangeStep
<1> QED
  BY <1>1, <1>2, ComIdStep, NextComIdsAnswered DEF ComIdInv, ComIdsAnswered

(* Although discovered is read before the mutex is taken and a revert may   *)
(* clear it in between, every session command carries a ComID that a        *)
(* discovery reported.                                                      *)
THEOREM ComIdAlwaysNegotiated == Spec => []ComIdNegotiated
<1>1. Init => ComIdInv
  BY DEF Init, DriveInit, ComIdInv, EmptyAnswer, Answer, InExchange
<1>2. ComIdInv => ComIdNegotiated
  BY DEF ComIdInv, ComIdNegotiated, InExchange
<1> QED
  BY <1>1, <1>2, TypeCorrect, MutexDiscipline, NextComId, PTL DEF Spec

-----------------------------------------------------------------------------
(* The response belongs to the command. *)

(* The strengthening of ResponseMatchesCommand: from IF-SEND on, the answer  *)
(* the drive keeps, and then the one in resp_buf, is one to cmd_buf.        *)
AnswerMatches ==
  \A t \in Tasks :
    /\ pc[t] = "recv" => answer.kind \in AnswersTo(cmd_buf.method)
    /\ pc[t] = "finish" /\ ret[t] = OPAL_OK =>
         resp_buf.kind \in AnswersTo(cmd_buf.method)

(* The drive answers each method in kind, and IF-SEND replaces any answer   *)
(* an earlier command left unfetched.                                       *)
LEMMA DriveAnswers ==
  ASSUME NEW c \in Commands, DriveExecutes(c)
  PROVE  answer'.kind \in AnswersTo(c.method)
BY DEF DriveExecutes, DriveDiscovers, DriveGrants, DriveEndsSession, DriveSetsLock,
       DriveActivates, DriveSetsPin, DriveReverts, DriveReadsRow, DriveRefuses,
       Answer, EmptyAnswer, DiscoveryAnswer, SyncAnswer, StatusAnswer, RowAnswer,
       AnswersTo, Commands, Methods

(* Every step keeps the pending answer one to the command in cmd_buf.       *)
LEMMA NextAnswer ==
  TypeOK /\ LockDiscipline /\ AnswerMatches /\ [Next]_vars => AnswerMatches'
<1> SUFFICES ASSUME TypeOK, LockDiscipline, AnswerMatches, [Next]_vars,
                    NEW t \in Tasks, pc'[t] \in {"recv", "finish"}
             PROVE  /\ pc'[t] = "recv" => answer'.kind \in AnswersTo(cmd_buf'.method)
                    /\ pc'[t] = "finish" /\ ret'[t] = OPAL_OK =>
                         resp_buf'.kind \in AnswersTo(cmd_buf'.method)
  BY DEF AnswerMatches
<1>1. Step(t) \/ Undisturbed(t)
  BY Holder DEF Critical
<1>2. CASE Undisturbed(t)
  BY <1>2 DEF Undisturbed, AnswerMatches, driveVars
<1>3. CASE Send(t)
  <2>1. pc'[t] = "finish" => ret'[t] # OPAL_OK
    BY <1>3 DEF Send, TypeOK, OPAL_OK, OPAL_ERR_TRANSPORT
  <2>2. pc'[t] = "recv" => DriveExecutes(cmd_buf)
    BY <1>3 DEF Send, TypeOK
  <2> QED
    BY <1>3, <2>1, <2>2, DriveAnswers DEF Send, TypeOK
<1>4. CASE Recv(t)
  <2>1. pc'[t] = "finish" /\ resp_buf' \in {answer, EmptyAnswer}
    BY <1>4 DEF Recv, TypeOK
  <2>2. EmptyAnswer.kind \in AnswersTo(cmd_buf.method)
    BY DEF EmptyAnswer, Answer, AnswersTo
  <2> QED
    BY <1>4, <2>1, <2>2 DEF Recv, AnswerMatches
<1> QED
  BY <1>1, <1>2, <1>3, <1>4, ExchangeStep DEF InExchange

(* Tasks share one cmd_buf, one resp_buf and one transport, and an answer   *)
(* may be late: still no call ever parses the answer to another's command,  *)
(* or to an earlier one of its own.                                         *)
THEOREM ResponsesMatch == Spec => []ResponseMatchesCommand
<1>1. Init => AnswerMatches
  BY DEF Init, AnswerMatches
<1>2. SessionInv /\ AnswerMatches => ResponseMatchesCommand
  BY DEF SessionInv, CommandOfCall, AnswerMatches, ResponseMatchesCommand
<1> QED
  BY <1>1, <1>2, TypeCorrect, MutexDiscipline, SessionInvariant, NextAnswer, PTL DEF Spec

-----------------------------------------------------------------------------
(* A failing call and the session. *)

(* The step in which a call returns is its own, and one of those below.     *)
LEMMA EndStep ==
  ASSUME TypeOK, [Next]_vars, NEW t \in Tasks, Ends(t)
  PROVE  Decline(t) \/ (Finish(t) /\ \E code : Return(t, code))
<1>1. Step(t)
  BY OwnStep DEF Ends, Critical
<1>2. ~Acquire(t) /\ ~Build(t) /\ ~Send(t) /\ ~Recv(t) /\ ~Free(t)
  BY DEF Ends, Acquire, Build, Send, Recv, Free, Critical, TypeOK
<1>3. ASSUME Finish(t), pc' = [pc EXCEPT ![t] = "send"] PROVE FALSE
  BY <1>3 DEF Ends, TypeOK
<1>4. Finish(t) => (\E code : Return(t, code)) \/ pc' = [pc EXCEPT ![t] = "send"]
  BY Zenon DEF Finish, FinishDiscover, FinishStart, FinishEnd, FinishMethod,
     FinishQuery, FinishPsidSession, FinishRevert
<1> QED
  BY <1>1, <1>2, <1>3, <1>4 DEF Step

(* Whatever goes wrong with a discovery, a start of a session, a method or a *)
(* query, the session that was open, if any, stays open under its number.   *)
THEOREM FailuresKeepSession == Spec => FailureKeepsSession
<1>1. TypeOK /\ [Next]_vars =>
        [\A t \in Tasks :
           /\ Ends(t) /\ ret'[t] # OPAL_OK
           /\ call[t].op \notin {"end_session", "destroy", "revert"}
           => UNCHANGED sessionVars]_vars
  <2> SUFFICES ASSUME TypeOK, [Next]_vars,
                      NEW t \in Tasks, Ends(t), ret'[t] # OPAL_OK,
                      call[t].op \notin {"end_session", "destroy", "revert"}
               PROVE  UNCHANGED sessionVars
    OBVIOUS
  <2>1. CASE Decline(t)
    BY <2>1 DEF Decline
  <2>2. CASE FinishStart(t)
    BY <2>2 DEF FinishStart, Return, TypeOK
  <2>3. CASE FinishDiscover(t) \/ FinishMethod(t) \/ FinishQuery(t)
    BY <2>3 DEF FinishDiscover, FinishMethod, FinishQuery
  <2>4. ~FinishEnd(t) /\ ~FinishPsidSession(t) /\ ~FinishRevert(t)
    BY DEF FinishEnd, FinishPsidSession, FinishRevert, Exchanged
  <2> QED
    BY <2>1, <2>2, <2>3, <2>4, EndStep DEF Finish
<1> QED
  BY <1>1, TypeCorrect, PTL DEF Spec, FailureKeepsSession

-----------------------------------------------------------------------------
(* How a call advances. *)

(* opal_dev_destroy never has Revert in the buffer. *)
NoRevertByDestroy(t) ==
  pc[t] = "finish" /\ call[t].op = "destroy" => cmd_buf.method # "revert"

(* A call that gives up the mutex is about to return, or to be freed.       *)
LEMMA ReturnAdvances ==
  ASSUME TypeOK, NEW t \in Tasks, NEW code, Return(t, code),
         pc[t] \in {"build", "finish"}, NoRevertByDestroy(t)
  PROVE  pc'[t] # pc[t] /\ (pc'[t] = "idle" \/ StepsLeft(t)' < StepsLeft(t))
<1>1. CASE call[t].op = "destroy"
  <2>1. pc'[t] = "free" /\ StepsLeft(t)' = 1
    BY <1>1 DEF Return, TypeOK, StepsLeft
  <2>2. StepsLeft(t) \in {4, 7}
    BY <1>1 DEF StepsLeft, NoRevertByDestroy
  <2> QED
    BY <2>1, <2>2
<1>2. CASE call[t].op # "destroy"
  BY <1>2 DEF Return, TypeOK
<1> QED
  BY <1>1, <1>2

(* Every step of a task leaves it elsewhere and with fewer steps to take.   *)
LEMMA StepAdvances ==
  ASSUME TypeOK, NEW t \in Tasks, Step(t), NoRevertByDestroy(t)
  PROVE  pc'[t] # pc[t] /\ (pc'[t] = "idle" \/ StepsLeft(t)' < StepsLeft(t))
<1>1. CASE Acquire(t)
  BY <1>1 DEF Acquire, TypeOK, StepsLeft
<1>2. CASE Decline(t)
  <2>1. PICK code : Return(t, code)
    BY <1>2, Zenon DEF Decline
  <2> QED
    BY <1>2, <2>1, ReturnAdvances DEF Decline
<1>3. CASE Build(t)
  BY <1>3 DEF Build, TypeOK, StepsLeft
<1>4. CASE Send(t) \/ Recv(t)
  BY <1>4 DEF Send, Recv, TypeOK, StepsLeft
<1>5. CASE Finish(t)
  <2>1. pc[t] = "finish"
    BY <1>5 DEF Finish, FinishDiscover, FinishStart, FinishEnd, FinishMethod,
                FinishQuery, FinishPsidSession, FinishRevert, Exchanged
  <2>2. \/ \E code : Return(t, code)
        \/ FinishPsidSession(t) /\ SessionOpens(t)
    BY <1>5, Zenon DEF Finish, FinishDiscover, FinishStart, FinishEnd, FinishMethod,
                FinishQuery, FinishPsidSession, FinishRevert
  <2>3. CASE FinishPsidSession(t) /\ SessionOpens(t)
    BY <2>1, <2>3 DEF FinishPsidSession, Packet, TypeOK, StepsLeft
  <2> QED
    BY <2>1, <2>2, <2>3, ReturnAdvances
<1>6. CASE Free(t)
  BY <1>6 DEF Free, TypeOK
<1> QED
  BY <1>1, <1>2, <1>3, <1>4, <1>5, <1>6 DEF Step

(* The safety half of "every call returns": no operation can wait, retry or *)
(* start over, whatever the other tasks, the transport and the drive do;    *)
(* nine steps after it began it has returned.                               *)
THEOREM CallsAdvance == Spec => CallAdvances
<1>1. TypeOK /\ SessionInv /\ [Next]_vars =>
        [\A t \in Tasks : pc[t] # "idle" =>
           IF pc'[t] = pc[t] THEN StepsLeft(t)' = StepsLeft(t)
           ELSE pc'[t] = "idle" \/ StepsLeft(t)' < StepsLeft(t)]_vars
  <2> SUFFICES ASSUME TypeOK, SessionInv, [Next]_vars, NEW t \in Tasks, pc[t] # "idle"
               PROVE  IF pc'[t] = pc[t] THEN StepsLeft(t)' = StepsLeft(t)
                      ELSE pc'[t] = "idle" \/ StepsLeft(t)' < StepsLeft(t)
    OBVIOUS
  <2>1. NoRevertByDestroy(t)
    BY DEF NoRevertByDestroy, SessionInv, CommandOfCall, MethodOf, StartOps
  <2>2. CASE pc'[t] # pc[t]
    BY <2>1, <2>2, OwnStep, StepAdvances
  <2>3. CASE pc'[t] = pc[t] /\ pc[t] \in Critical
    <3>1. Undisturbed(t)
      BY <2>1, <2>3, Holder, StepAdvances DEF SessionInv
    <3> QED
      BY <2>3, <3>1 DEF Undisturbed, StepsLeft
  <2>4. CASE pc'[t] = pc[t] /\ pc[t] \notin Critical
    BY <2>4 DEF StepsLeft, Critical
  <2> QED
    BY <2>2, <2>3, <2>4
<1> QED
  BY <1>1, TypeCorrect, SessionInvariant, PTL DEF Spec, CallAdvances

-----------------------------------------------------------------------------
(* The values calls return. *)

(* The longest credential StartSession has room for in cmd_buf. *)
LongestCredential == 400

(* A credential overflows cmd_buf exactly from 401 bytes on. *)
LEMMA CredentialFits ==
  \A n \in Nat : Overflows(StartSessionLen(n)) <=> n > LongestCredential
BY DEF Overflows, StartSessionLen, CredentialLen, NamedLen, BytesLen, UidLen,
       CallHeaderLen, EodLen, TotalHdrLen, MaxCmdLen, LongestCredential

(* A PIN that opal_set_password lets through never does. *)
LEMMA PasswordFits ==
  \A n \in 0 .. MaxPinLen : ~Overflows(MethodLen(5 + NamedLen(BytesLen(n))))
BY DEF Overflows, MethodLen, NamedLen, BytesLen, UidLen, CallHeaderLen, EodLen,
       TotalHdrLen, MaxCmdLen, MaxPinLen

(* The length check of opal_set_password, made before the mutex is taken,   *)
(* holds for as long as the call runs.                                      *)
PasswordsChecked ==
  \A t \in Tasks : call[t].op = "set_password" => LenOf(call[t].pin) \in 1 .. MaxPinLen

LEMMA NextPasswords ==
  TypeOK /\ PasswordsChecked /\ [Next]_vars => PasswordsChecked'
<1> SUFFICES ASSUME TypeOK, PasswordsChecked, [Next]_vars,
                    NEW t \in Tasks, call'[t].op = "set_password"
             PROVE  LenOf(call'[t].pin) \in 1 .. MaxPinLen
  BY DEF PasswordsChecked
<1>1. CASE call'[t] = call[t]
  BY <1>1 DEF PasswordsChecked
<1>2. CASE call'[t] # call[t]
  <2>1. ASSUME NEW u \in Tasks, CallDestroy(u) \/ Step(u)
        PROVE  call'[t].op \in {"none", "destroy"} \/ call'[t] = call[t]
    BY <2>1 DEF CallDestroy, DestroyCall, NoCall, Step, Free, Acquire, Decline, Build,
       Send, Recv, Finish, FinishDiscover, FinishStart, FinishEnd, FinishMethod,
       FinishQuery, FinishPsidSession, FinishRevert, Return, TypeOK
  <2>2. PICK u \in Tasks : CallApi(u)
    BY <1>2, <2>1 DEF Next, Done, vars, taskVars
  <2>3. PICK c \in Requests : CallWith(u, c)
    BY <2>2 DEF CallApi
  <2>4. call'[t] = c /\ EarlyCode(c) = OPAL_OK
    BY <1>2, <2>3 DEF CallWith, TypeOK
  <2> QED
    BY <2>4 DEF EarlyCode, OPAL_OK, OPAL_ERR_PARAM
<1> QED
  BY <1>1, <1>2

ShortCredentials == \A p \in Pins : PinLen[p] <= LongestCredential

(* While no caller passes a credential of more than 400 bytes, no command   *)
(* is too long.                                                             *)
LEMMA NothingTooLong ==
  ASSUME ShortCredentials, TypeOK, PasswordsChecked, NEW t \in Tasks
  PROVE  ~TooLong(call[t])
<1>1. LenOf(call[t].pin) \in Nat /\ LenOf(call[t].pin) <= LongestCredential
  BY CoreAssumption
  DEF LenOf, ShortCredentials, LongestCredential, TypeOK, Calls, PinArgs
<1>2. ~Overflows(StartSessionLen(LenOf(call[t].pin)))
  BY <1>1, CredentialFits DEF LongestCredential
<1>3. call[t].op = "set_password" =>
        ~Overflows(MethodLen(5 + NamedLen(BytesLen(LenOf(call[t].pin)))))
  BY PasswordFits DEF PasswordsChecked
<1> QED
  BY <1>2, <1>3 DEF TooLong

(* Every step keeps the return values among the documented ones.            *)
LEMMA NextReturns ==
  ASSUME ShortCredentials, TypeOK, PasswordsChecked, ReturnsDocumented, [Next]_vars
  PROVE  ReturnsDocumented'
<1> SUFFICES ASSUME NEW u \in Tasks PROVE ret'[u] \in DocumentedCodes
  BY DEF ReturnsDocumented
<1>0. ret[u] \in DocumentedCodes /\ \A v \in Tasks : ret[v] \in DocumentedCodes
  BY DEF ReturnsDocumented
<1>1. {OPAL_OK, OPAL_ERR_TRANSPORT, OPAL_ERR_PROTO, OPAL_ERR_AUTH, OPAL_ERR_PARAM}
        \subseteq DocumentedCodes
  BY DEF DocumentedCodes, OPAL_OK, OPAL_ERR_TRANSPORT, OPAL_ERR_PROTO, OPAL_ERR_AUTH,
         OPAL_ERR_PARAM
<1>2. ASSUME NEW t \in Tasks, NEW code \in DocumentedCodes, Return(t, code)
      PROVE  ret'[u] \in DocumentedCodes
  BY <1>0, <1>2 DEF Return, TypeOK
<1>3. ASSUME NEW t \in Tasks, CallApi(t) PROVE ret'[u] \in DocumentedCodes
  <2>1. PICK c \in Requests : ret' = [ret EXCEPT ![t] = EarlyCode(c)]
    BY <1>3 DEF CallApi, CallWith
  <2>2. EarlyCode(c) \in DocumentedCodes
    BY <1>1 DEF EarlyCode
  <2> QED
    BY <1>0, <2>1, <2>2 DEF TypeOK
<1>4. ASSUME NEW t \in Tasks, CallDestroy(t) \/ Free(t) \/ Acquire(t) \/ Build(t)
             \/ Send(t) \/ Recv(t)
      PROVE  ret'[u] \in DocumentedCodes
  BY <1>0, <1>1, <1>4 DEF CallDestroy, Free, Acquire, Build, Send, Recv, TypeOK
<1>5. ASSUME NEW t \in Tasks, Decline(t) PROVE ret'[u] \in DocumentedCodes
  <2>1. Return(t, OPAL_ERR_PROTO) \/ Return(t, OPAL_OK)
    BY <1>5, NothingTooLong DEF Decline
  <2> QED
    BY <1>1, <1>2, <2>1
<1>6. ASSUME NEW t \in Tasks, Finish(t) PROVE ret'[u] \in DocumentedCodes
  <2>1. FirstError(ret[t], OPAL_ERR_PROTO) \in DocumentedCodes
        /\ FirstError(ret[t], ParseStatus(resp_buf)) \in DocumentedCodes
    BY <1>0, <1>1 DEF FirstError, ParseStatus, CodeOfStatus
  <2>2. (\E code \in DocumentedCodes : Return(t, code)) \/ UNCHANGED ret
    BY <1>0, <1>1, <1>6, <2>1
    DEF Finish, FinishDiscover, FinishStart, FinishEnd, FinishMethod, FinishQuery,
        FinishPsidSession, FinishRevert
  <2> QED
    BY <1>0, <1>2, <2>2
<1>7. CASE UNCHANGED vars
  BY <1>0, <1>7 DEF vars, taskVars
<1> QED
  BY <1>3, <1>4, <1>5, <1>6, <1>7 DEF Next, Step, Done

(* The 1 of a failed append_ reaches a caller only if somebody passes a     *)
(* credential of more than 400 bytes: opal_start_locking_session and        *)
(* opal_revert_tper do not look at its length.                              *)
THEOREM ReturnsAreDocumented ==
  ASSUME ShortCredentials PROVE Spec => []ReturnsDocumented
<1>1. Init => ReturnsDocumented /\ PasswordsChecked
  BY DEF Init, ReturnsDocumented, PasswordsChecked, NoCall, DocumentedCodes, OPAL_OK
<1>2. TypeOK /\ PasswordsChecked /\ ReturnsDocumented /\ [Next]_vars => ReturnsDocumented'
  BY NextReturns
<1> QED
  BY <1>1, <1>2, TypeCorrect, NextPasswords, PTL DEF Spec

-----------------------------------------------------------------------------
(* Discovery before sessions. *)

(* No other task can revert the TPer between a task's check of discovered   *)
(* and the moment it adopts its session.                                    *)
RevertsAlone == "revert" \in Operations => \A t, u \in Tasks : t = u

(* The strengthening of SessionNeedsDiscovery: discovered stays set for a   *)
(* call that is to open a session.                                          *)
DiscoveryInv ==
  /\ SessionNeedsDiscovery
  /\ \A t \in Tasks :
       /\ call[t].op \in Operations \cup {"none", "destroy"}
       /\ pc[t] # "idle" /\ call[t].op \in StartOps => discovered
       /\ InExchange(t) /\ call[t].op = "revert" => discovered

LEMMA InitDiscovery == Init => DiscoveryInv
BY DEF Init, DiscoveryInv, SessionNeedsDiscovery, NoCall, InExchange

LEMMA NextDiscovery ==
  ASSUME RevertsAlone, TypeOK, DiscoveryInv, [Next]_vars
  PROVE  DiscoveryInv'
<1> USE DEF DiscoveryInv, SessionNeedsDiscovery
<1>1. ASSUME NEW t \in Tasks, CallApi(t) PROVE DiscoveryInv'
  <2>1. PICK c \in Requests : CallWith(t, c)
    BY <1>1 DEF CallApi
  <2>2. c.op \in Operations
    BY <2>1 DEF Requests
  <2>3. EarlyCode(c) = OPAL_OK /\ c.op \in StartOps => discovered
    BY DEF EarlyCode, OPAL_OK, OPAL_ERR_PARAM, OPAL_ERR_PROTO
  <2>4. /\ UNCHANGED <<discovered, session_open>> /\ pc[t] = "idle"
        /\ \/ pc'[t] = "idle" /\ call'[t] = call[t]
           \/ pc'[t] = "lock" /\ call'[t] = c /\ EarlyCode(c) = OPAL_OK
        /\ \A u \in Tasks \ {t} : pc'[u] = pc[u] /\ call'[u] = call[u]
    BY <2>1 DEF CallWith, discoveryVars, sessionVars, TypeOK
  <2> QED
    BY <2>2, <2>3, <2>4 DEF InExchange
<1>2. ASSUME NEW t \in Tasks, pc[t] # "idle", UNCHANGED discovered \/ discovered' = TRUE,
             session_open' => session_open \/ discovered,
             \A u \in Tasks \ {t} : pc'[u] = pc[u] /\ call'[u] = call[u],
             \/ call'[t] = call[t] /\ (InExchange(t)' => InExchange(t) \/ ~WrongState(call[t]))
             \/ pc'[t] = "idle" /\ call'[t].op = "none"
      PROVE  DiscoveryInv'
  BY <1>2 DEF WrongState, InExchange, StartOps
<1>3. ASSUME NEW t \in Tasks, CallDestroy(t) \/ Free(t) PROVE DiscoveryInv'
  BY <1>3 DEF CallDestroy, DestroyCall, Free, NoCall, StartOps, InExchange, discoveryVars,
     sessionVars, TypeOK
<1>4. ASSUME NEW t \in Tasks,
             Acquire(t) \/ Decline(t) \/ Build(t) \/ Send(t) \/ Recv(t)
      PROVE  DiscoveryInv'
  <2>1. /\ pc[t] # "idle" /\ UNCHANGED <<discovered, session_open>>
        /\ \A u \in Tasks \ {t} : pc'[u] = pc[u] /\ call'[u] = call[u]
        /\ \/ call'[t] = call[t] /\ (InExchange(t)' => InExchange(t) \/ ~WrongState(call[t]))
           \/ pc'[t] = "idle" /\ call'[t].op = "none"
    BY <1>4 DEF Acquire, Decline, Build, Send, Recv, Return, NoCall, InExchange,
       discoveryVars, sessionVars, TypeOK
  <2> QED
    BY <1>2, <2>1
<1>5. ASSUME NEW t \in Tasks, Finish(t), ~FinishRevert(t) PROVE DiscoveryInv'
  <2>1. pc[t] = "finish" /\ (UNCHANGED discovered \/ discovered' = TRUE)
    BY <1>5 DEF Finish, FinishDiscover, FinishStart, FinishEnd, FinishMethod,
       FinishQuery, FinishPsidSession, Exchanged, discoveryVars
  <2>2. session_open' => session_open \/ discovered
    BY <1>5 DEF Finish, FinishDiscover, FinishStart, FinishEnd, FinishMethod,
       FinishQuery, FinishPsidSession, Exchanged, ForgetSession, InExchange,
       sessionVars
  <2>3. /\ \A u \in Tasks \ {t} : pc'[u] = pc[u] /\ call'[u] = call[u]
        /\ call'[t] = call[t] \/ (pc'[t] = "idle" /\ call'[t].op = "none")
    BY <1>5 DEF Finish, FinishDiscover, FinishStart, FinishEnd, FinishMethod,
       FinishQuery, FinishPsidSession, Return, NoCall, TypeOK
  <2> QED
    BY <1>2, <2>1, <2>2, <2>3 DEF InExchange
<1>6. ASSUME NEW t \in Tasks, FinishRevert(t) PROVE DiscoveryInv'
  <2>1. call[t].op = "revert" /\ ~session_open'
    BY <1>6 DEF FinishRevert, Exchanged, ForgetSession
  <2>2. \A u \in Tasks : u = t
    BY <2>1 DEF RevertsAlone
  <2>3. pc'[t] = "idle" /\ call'[t] = NoCall
    BY <1>6, <2>1 DEF FinishRevert, Return, TypeOK
  <2> QED
    BY <2>1, <2>2, <2>3 DEF NoCall, InExchange
<1>7. CASE UNCHANGED vars
  BY <1>7 DEF vars, taskVars, discoveryVars, sessionVars, InExchange
<1> QED
  BY <1>1, <1>3, <1>4, <1>5, <1>6, <1>7 DEF Next, Step, Done

(* A session opens only after a discovery, and is closed before discovered  *)
(* is cleared, as long as a task that calls opal_revert_tper has the        *)
(* context to itself.                                                       *)
THEOREM DiscoveryFirst ==
  ASSUME RevertsAlone PROVE Spec => []SessionNeedsDiscovery
<1>1. TypeOK /\ DiscoveryInv /\ [Next]_vars => DiscoveryInv'
  BY NextDiscovery
<1>2. DiscoveryInv => SessionNeedsDiscovery
  BY DEF DiscoveryInv
<1> QED
  BY <1>1, <1>2, TypeCorrect, InitDiscovery, PTL DEF Spec

-----------------------------------------------------------------------------
(* The end of the context. *)

(* opal_dev_destroy is called when no call is running, or not at all. *)
OrderlyDestroy == Quiesce \/ "destroy" \notin Operations

(* A destroying task is alone, and about to free a context with no session. *)
DestroyAlone ==
  \A t \in Tasks :
    /\ pc[t] = "free" => call[t].op = "destroy" /\ ~session_open
    /\ pc[t] # "idle" /\ call[t].op = "destroy" =>
         handle # "live" /\ \A u \in Tasks \ {t} : pc[u] = "idle"

LEMMA NextDestroy ==
  ASSUME OrderlyDestroy, TypeOK, DestroyAlone, [Next]_vars
  PROVE  DestroyAlone'
<1>1. ASSUME NEW t \in Tasks, CallApi(t) PROVE DestroyAlone'
  <2>1. PICK c \in Requests : CallWith(t, c)
    BY <1>1 DEF CallApi
  <2>2. c.op # "destroy"
    BY <2>1 DEF Requests, CallsOf
  <2>3. /\ handle = "live" /\ UNCHANGED <<handle, session_open>>
        /\ pc'[t] \in {"idle", "lock"} /\ (pc'[t] # "idle" => call'[t].op # "destroy")
        /\ \A u \in Tasks \ {t} : pc'[u] = pc[u] /\ call'[u] = call[u]
    BY <2>1, <2>2 DEF CallWith, sessionVars, TypeOK
  <2> QED
    BY <2>3 DEF DestroyAlone
<1>2. ASSUME NEW t \in Tasks, CallDestroy(t) PROVE DestroyAlone'
  BY <1>2 DEF CallDestroy, DestroyCall, NoCall, OrderlyDestroy, DestroyAlone, sessionVars,
     TypeOK
<1>3. ASSUME NEW t \in Tasks, pc[t] # "idle",
             UNCHANGED handle \/ handle' = "freed",
             \A u \in Tasks \ {t} : pc'[u] = pc[u] /\ call'[u] = call[u],
             pc'[t] # "idle" => call'[t] = call[t],
             pc'[t] = "free" => call[t].op = "destroy" /\ ~session_open',
             UNCHANGED session_open \/ pc[t] # "free"
      PROVE  DestroyAlone'
  <2>1. ASSUME NEW u \in Tasks, pc'[u] = "free"
        PROVE  call'[u].op = "destroy" /\ ~session_open'
    BY <1>3, <2>1 DEF DestroyAlone
  <2>2. ASSUME NEW u \in Tasks, pc'[u] # "idle", call'[u].op = "destroy"
        PROVE  handle' # "live" /\ \A v \in Tasks \ {u} : pc'[v] = "idle"
    BY <1>3, <2>2 DEF DestroyAlone
  <2> QED
    BY <2>1, <2>2 DEF DestroyAlone
<1>4. ASSUME NEW t \in Tasks, Step(t) PROVE DestroyAlone'
  <2>1. /\ pc[t] # "idle"
        /\ UNCHANGED handle \/ handle' = "freed"
        /\ \A u \in Tasks \ {t} : pc'[u] = pc[u] /\ call'[u] = call[u]
        /\ pc'[t] # "idle" => call'[t] = call[t]
        /\ UNCHANGED session_open \/ pc[t] # "free"
    BY <1>4 DEF Step, Free, Acquire, Decline, Build, Send, Recv, Finish, FinishDiscover,
       FinishStart, FinishEnd, FinishMethod, FinishQuery, FinishPsidSession,
       FinishRevert, Exchanged, Return, sessionVars, TypeOK
  <2>2. ASSUME pc'[t] = "free" PROVE call[t].op = "destroy" /\ ~session_open'
    <3>1. CASE Decline(t)
      BY <2>2, <3>1 DEF Decline, Return, WrongState, NothingToEnd, TooLong, StartOps,
         MethodOps, sessionVars, TypeOK
    <3>2. CASE FinishEnd(t)
      BY <2>2, <3>2 DEF FinishEnd, ForgetSession, Return, TypeOK
    <3>3. ~Free(t) /\ ~Acquire(t) /\ ~Build(t) /\ ~Send(t) /\ ~Recv(t)
      BY <2>2 DEF Free, Acquire, Build, Send, Recv, TypeOK
    <3>4. ~FinishDiscover(t) /\ ~FinishStart(t) /\ ~FinishMethod(t) /\ ~FinishQuery(t)
          /\ ~FinishPsidSession(t) /\ ~FinishRevert(t)
      BY <2>2 DEF FinishDiscover, FinishStart, FinishMethod, FinishQuery,
         FinishPsidSession, FinishRevert, Exchanged, Return, StartOps, MethodOps, TypeOK
    <3> QED
      BY <1>4, <3>1, <3>2, <3>3, <3>4 DEF Step, Finish
  <2> QED
    BY <1>3, <2>1, <2>2
<1>5. CASE UNCHANGED vars
  BY <1>5 DEF vars, taskVars, sessionVars, DestroyAlone
<1> QED
  BY <1>1, <1>2, <1>4, <1>5 DEF Next, Done

(* Nobody is inside a call of a freed context, nor is its session open.     *)
FreedAndClosed ==
  handle = "freed" => ~session_open /\ \A t \in Tasks : pc[t] = "idle"

LEMMA NextFreed ==
  TypeOK /\ DestroyAlone /\ FreedAndClosed /\ [Next]_vars => FreedAndClosed'
<1> SUFFICES ASSUME TypeOK, DestroyAlone, FreedAndClosed, [Next]_vars,
                    handle' = "freed"
             PROVE  ~session_open' /\ \A u \in Tasks : pc'[u] = "idle"
  BY DEF FreedAndClosed
<1>1. ASSUME NEW t \in Tasks, Free(t)
      PROVE  ~session_open' /\ \A u \in Tasks : pc'[u] = "idle"
  <2>1. ~session_open /\ \A u \in Tasks \ {t} : pc[u] = "idle"
    BY <1>1 DEF Free, DestroyAlone
  <2> QED
    BY <1>1, <2>1 DEF Free, sessionVars, TypeOK
<1>2. ASSUME NEW t \in Tasks, CallApi(t) \/ CallDestroy(t) PROVE FALSE
  BY <1>2 DEF CallApi, CallWith, CallDestroy
<1>3. ASSUME NEW t \in Tasks, Step(t), ~Free(t) PROVE FALSE
  <2>1. pc[t] # "idle" /\ handle' = handle
    BY <1>3 DEF Step, Acquire, Decline, Build, Send, Recv, Finish, FinishDiscover,
       FinishStart, FinishEnd, FinishMethod, FinishQuery, FinishPsidSession,
       FinishRevert, Exchanged
  <2> QED
    BY <2>1 DEF FreedAndClosed
<1>4. CASE UNCHANGED vars
  BY <1>4 DEF vars, taskVars, sessionVars, FreedAndClosed
<1> QED
  BY <1>1, <1>2, <1>3, <1>4 DEF Next, Done

-----------------------------------------------------------------------------
(* No session lost sight of. *)

(* A call has not failed before its response is parsed, unless the transport*)
(* failed it.                                                               *)
OkSoFar ==
  \A t \in Tasks : pc[t] \in {"lock", "build", "send", "recv"} => ret[t] = OPAL_OK

LEMMA NextOkSoFar == TypeOK /\ OkSoFar /\ [Next]_vars => OkSoFar'
<1> SUFFICES ASSUME TypeOK, OkSoFar, [Next]_vars PROVE OkSoFar'
  OBVIOUS
<1> USE DEF OkSoFar
<1>1. ASSUME NEW t \in Tasks,
             pc'[t] \in {"lock", "build", "send", "recv"} => ret'[t] = OPAL_OK,
             \A u \in Tasks \ {t} : pc'[u] = pc[u] /\ ret'[u] = ret[u]
      PROVE  OkSoFar'
  BY <1>1
<1>2. ASSUME NEW t \in Tasks, CallApi(t) PROVE OkSoFar'
  BY <1>1, <1>2 DEF CallApi, CallWith, TypeOK
<1>3. ASSUME NEW t \in Tasks, CallDestroy(t) PROVE OkSoFar'
  BY <1>1, <1>3 DEF CallDestroy, TypeOK
<1>4. ASSUME NEW t \in Tasks, Step(t) PROVE OkSoFar'
  BY <1>1, <1>4 DEF Step, Free, Acquire, Decline, Build, Send, Recv, Finish,
     FinishDiscover, FinishStart, FinishEnd, FinishMethod, FinishQuery,
     FinishPsidSession, FinishRevert, Exchanged, SessionOpens, Return, TypeOK
<1>5. CASE UNCHANGED vars
  BY <1>5 DEF vars, taskVars
<1> QED
  BY <1>2, <1>3, <1>4, <1>5 DEF Next, Done

(* What answer a tells of the sessions: EndSession, to which it says        *)
(* nothing, has ended the host's, and a Revert that succeeded has ended all.*)
EndsTold(a) ==
  /\ cmd_buf.method = "end_session" => tper_session_id \notin LiveTsns
  /\ cmd_buf.method = "revert" /\ a = StatusAnswer(OPAL_STATUS_SUCCESS) => sessions = {}

EndsAgreed ==
  \A t \in Tasks :
    /\ pc[t] = "recv" => EndsTold(answer)
    /\ pc[t] = "finish" /\ ret[t] = OPAL_OK => EndsTold(resp_buf)

(* The drive ends the session named by EndSession, and all by Revert.       *)
LEMMA DriveEnds ==
  ASSUME DriveExecutes(cmd_buf), UNCHANGED <<cmd_buf, sessionVars>>,
         cmd_buf.method = "end_session" => cmd_buf.tsn = tper_session_id
  PROVE  EndsTold(answer)'
<1>1. ASSUME cmd_buf.method = "end_session" PROVE tper_session_id \notin LiveTsns'
  <2>1. DriveEndsSession(cmd_buf)
    BY <1>1 DEF DriveExecutes, DriveDiscovers, DriveGrants, DriveSetsLock, DriveActivates,
       DriveSetsPin, DriveReverts, DriveReadsRow, DriveRefuses
  <2> QED
    BY <1>1, <2>1 DEF DriveEndsSession, LiveTsns
<1>2. ASSUME cmd_buf.method = "revert", answer' = StatusAnswer(OPAL_STATUS_SUCCESS)
      PROVE  sessions' = {}
  <2>1. ~DriveRefuses(cmd_buf)
    BY <1>2, DriveAssumption DEF DriveRefuses, StatusAnswer, Answer
  <2>2. DriveReverts(cmd_buf)
    BY <1>2, <2>1 DEF DriveExecutes, DriveDiscovers, DriveGrants, DriveEndsSession,
       DriveSetsLock, DriveActivates, DriveSetsPin, DriveReadsRow
  <2> QED
    BY <2>2 DEF DriveReverts
<1> QED
  BY <1>1, <1>2 DEF EndsTold, sessionVars

LEMMA NextEnds ==
  TypeOK /\ LockDiscipline /\ MethodsInLiveSession /\ EndsAgreed /\ [Next]_vars
    => EndsAgreed'
<1> SUFFICES ASSUME TypeOK, LockDiscipline, MethodsInLiveSession, EndsAgreed,
                    [Next]_vars, NEW t \in Tasks, pc'[t] \in {"recv", "finish"}
             PROVE  /\ pc'[t] = "recv" => EndsTold(answer)'
                    /\ pc'[t] = "finish" /\ ret'[t] = OPAL_OK => EndsTold(resp_buf)'
  BY DEF EndsAgreed
<1>1. Step(t) \/ Undisturbed(t)
  BY Holder DEF Critical
<1>2. CASE Undisturbed(t)
  BY <1>2 DEF Undisturbed, EndsAgreed, EndsTold, LiveTsns, driveVars, sessionVars
<1>3. CASE Send(t)
  <2>1. pc'[t] = "finish" => ret'[t] # OPAL_OK
    BY <1>3 DEF Send, TypeOK, OPAL_OK, OPAL_ERR_TRANSPORT
  <2>2. pc'[t] = "recv" => DriveExecutes(cmd_buf)
    BY <1>3 DEF Send, TypeOK
  <2>3. cmd_buf.method = "end_session" => cmd_buf.tsn = tper_session_id
    BY <1>3 DEF Send, MethodsInLiveSession, SessionMethods
  <2> QED
    BY <1>3, <2>1, <2>2, <2>3, DriveEnds DEF Send
<1>4. CASE Recv(t)
  <2>1. /\ pc[t] = "recv" /\ pc'[t] = "finish" /\ resp_buf' \in {answer, EmptyAnswer}
        /\ UNCHANGED <<cmd_buf, sessions, tper_session_id>>
    BY <1>4 DEF Recv, sessionVars, TypeOK
  <2>2. EmptyAnswer # StatusAnswer(OPAL_STATUS_SUCCESS)
    BY DEF EmptyAnswer, StatusAnswer, Answer
  <2> QED
    BY <2>1, <2>2 DEF EndsAgreed, EndsTold, LiveTsns
<1> QED
  BY <1>1, <1>2, <1>3, <1>4, ExchangeStep DEF InExchange

(* A session that is new to the drive is the one it tells of.               *)
LEMMA DriveOpens ==
  ASSUME DriveExecutes(cmd_buf), NEW n \in LiveTsns', n \notin LiveTsns
  PROVE  /\ cmd_buf.method = "start_session"
         /\ answer'.kind = "sync" /\ answer'.tsn = n
<1>1. DriveGrants(cmd_buf)
  BY DEF DriveExecutes, DriveDiscovers, DriveEndsSession, DriveSetsLock, DriveActivates,
     DriveSetsPin, DriveReverts, DriveReadsRow, DriveRefuses, LiveTsns
<1> QED
  BY <1>1 DEF DriveGrants, LiveTsns, SyncAnswer, Answer

(* What OrphansExplained needs of the state. *)
SightInv ==
  /\ TypeOK /\ LockDiscipline /\ CommandOfCall /\ AdminExclusive /\ AnswerMatches
  /\ EndsAgreed

(* An exchange that answered with SyncSession was one to open a session.    *)
LEMMA SyncAnswersStart ==
  ASSUME NEW m \in Methods, "sync" \in AnswersTo(m)
  PROVE  m = "start_session"
BY DEF AnswersTo, Methods

(* A step that gives no session up leaves every session the drive holds in  *)
(* the host's sight that was there, or that is new.                         *)
LEMMA NextOrphans ==
  ASSUME SightInv, OkSoFar, [Next]_vars, \A t \in Tasks : ~LosesTrack(t),
         NEW n \in LiveTsns', ~InSight(n)'
  PROVE  n \in LiveTsns /\ ~InSight(n)
<1> USE DEF InSight, SightInv
<1>1. ASSUME NEW t \in Tasks,
             UNCHANGED <<sessionVars, driveVars, resp_buf>>,
             pc[t] \notin {"recv", "finish"},
             \A u \in Tasks \ {t} : pc'[u] = pc[u] /\ ret'[u] = ret[u]
      PROVE  n \in LiveTsns /\ ~InSight(n)
  BY <1>1 DEF LiveTsns, SessionOpens, sessionVars, driveVars
<1>2. ASSUME NEW t \in Tasks, CallApi(t) \/ CallDestroy(t) \/ Free(t) \/ Acquire(t)
             \/ Decline(t) \/ Build(t)
      PROVE  n \in LiveTsns /\ ~InSight(n)
  <2>1. /\ UNCHANGED <<sessionVars, driveVars, resp_buf>>
        /\ pc[t] \notin {"recv", "finish"}
        /\ \A u \in Tasks \ {t} : pc'[u] = pc[u] /\ ret'[u] = ret[u]
    BY <1>2 DEF CallApi, CallWith, CallDestroy, Free, Acquire, Decline, Build, Return,
       TypeOK
  <2> QED
    BY <1>1, <2>1
<1>3. ASSUME NEW t \in Tasks, pc[t] \in Critical, InSight(n)
      PROVE  \/ session_open /\ n = tper_session_id
             \/ pc[t] = "recv" /\ answer.kind = "sync" /\ n = answer.tsn
             \/ pc[t] = "finish" /\ SessionOpens(t) /\ n = resp_buf.tsn
  BY <1>3, Alone DEF Critical
<1>4. ASSUME NEW t \in Tasks, Send(t) PROVE n \in LiveTsns /\ ~InSight(n)
  <2>1. pc[t] = "send" /\ pc'[t] \in {"recv", "finish"} /\ UNCHANGED sessionVars
    BY <1>4 DEF Send, TypeOK
  <2>2. ~InSight(n)
    BY <1>3, <2>1 DEF Critical, sessionVars
  <2>3. ASSUME n \notin LiveTsns PROVE FALSE
    <3>1. DriveExecutes(cmd_buf)
      BY <1>4, <2>3 DEF Send, LiveTsns, driveVars
    <3>2. cmd_buf.method = "start_session" /\ answer'.kind = "sync" /\ answer'.tsn = n
      BY <2>3, <3>1, DriveOpens
    <3>3. pc'[t] = "finish"
      BY <2>1, <3>2
    <3>4. ret'[t] # OPAL_OK
      BY <1>4, <3>3 DEF Send, TypeOK, OPAL_OK, OPAL_ERR_TRANSPORT
    <3> QED
      BY <2>1, <3>2, <3>3, <3>4 DEF LosesTrack
  <2> QED
    BY <2>2, <2>3
<1>5. ASSUME NEW t \in Tasks, Recv(t) PROVE n \in LiveTsns /\ ~InSight(n)
  <2>1. /\ pc[t] = "recv" /\ pc'[t] = "finish"
        /\ UNCHANGED <<sessionVars, sessions>>
    BY <1>5 DEF Recv, TypeOK
  <2>2. ASSUME answer.kind = "sync", n = answer.tsn PROVE FALSE
    <3>1. cmd_buf.method = "start_session"
      BY <2>1, <2>2, SyncAnswersStart DEF AnswerMatches, TypeOK, Commands
    <3>2. ret'[t] = OPAL_OK /\ resp_buf' = answer
      BY <2>1, <3>1 DEF LosesTrack
    <3> QED
      BY <2>1, <2>2, <3>2 DEF SessionOpens
  <2> QED
    BY <1>3, <2>1, <2>2 DEF Critical, LiveTsns, sessionVars
<1>6. ASSUME NEW t \in Tasks, Finish(t) PROVE n \in LiveTsns /\ ~InSight(n)
  <2>1. pc[t] = "finish" /\ UNCHANGED driveVars
    BY <1>6 DEF Finish, FinishDiscover, FinishStart, FinishEnd, FinishMethod,
       FinishQuery, FinishPsidSession, FinishRevert, Exchanged
  <2>2. n \in LiveTsns
    BY <2>1 DEF LiveTsns, driveVars
  <2>3. SessionOpens(t) => cmd_buf.method = "start_session"
    BY <2>1, SyncAnswersStart DEF SessionOpens, AnswerMatches, TypeOK, Commands
  <2>4. CASE SessionOpens(t) /\ (FinishStart(t) \/ FinishPsidSession(t))
    <3>1. ~session_open
      BY <2>1, <2>4 DEF LosesTrack, AdminExclusive, InExchange
    <3>2. session_open' /\ tper_session_id' = resp_buf.tsn
      BY <2>4 DEF FinishStart, FinishPsidSession, AdoptSession
    <3> QED
      BY <1>3, <2>1, <2>2, <3>1, <3>2 DEF Critical
  <2>5. ASSUME UNCHANGED sessionVars, ~SessionOpens(t)
        PROVE  n \in LiveTsns /\ ~InSight(n)
    BY <1>3, <2>1, <2>2, <2>5 DEF Critical, sessionVars
  <2>6. CASE ~SessionOpens(t) /\ (FinishStart(t) \/ FinishPsidSession(t))
    BY <2>5, <2>6 DEF FinishStart, FinishPsidSession
  <2>7. CASE FinishDiscover(t) \/ FinishMethod(t) \/ FinishQuery(t)
    <3>1. cmd_buf.method # "start_session" /\ UNCHANGED sessionVars
      BY <2>1, <2>7 DEF FinishDiscover, FinishMethod, FinishQuery, Exchanged, CommandOfCall,
         MethodOf, MethodOps, StartOps
    <3> QED
      BY <2>3, <2>5, <3>1
  <2>8. CASE FinishEnd(t)
    <3>1. cmd_buf.method = "end_session"
      BY <2>1, <2>8 DEF FinishEnd, Exchanged, CommandOfCall, MethodOf, StartOps
    <3>2. EndsTold(resp_buf)
      BY <2>1, <3>1 DEF LosesTrack, EndsAgreed
    <3> QED
      BY <1>3, <2>1, <2>2, <2>3, <3>1, <3>2 DEF EndsTold, Critical
  <2>9. CASE FinishRevert(t)
    <3>1. cmd_buf.method = "revert"
      BY <2>9 DEF FinishRevert
    <3>2. EndsTold(resp_buf) /\ resp_buf = StatusAnswer(OPAL_STATUS_SUCCESS)
      BY <2>1, <3>1 DEF LosesTrack, EndsAgreed
    <3> QED
      BY <2>2, <3>1, <3>2 DEF EndsTold, LiveTsns
  <2> QED
    BY <1>6, <2>4, <2>6, <2>7, <2>8, <2>9 DEF Finish
<1>7. CASE UNCHANGED vars
  BY <1>7 DEF vars, taskVars, sessionVars, driveVars, LiveTsns, SessionOpens
<1> QED
  BY <1>2, <1>4, <1>5, <1>6, <1>7 DEF Next, Step, Done

LEMMA SightInvariant == Spec => [](SightInv /\ OkSoFar)
<1>1. Init => AdminExclusive /\ AnswerMatches /\ EndsAgreed /\ OkSoFar
  BY DEF Init, AdminExclusive, AnswerMatches, EndsAgreed, OkSoFar, InExchange
<1>2. SessionInv => CommandOfCall
  BY DEF SessionInv
<1>3. TypeOK /\ LockDiscipline /\ CommandOfCall /\ AdminExclusive /\ AnswerMatches
        /\ EndsAgreed => SightInv
  BY DEF SightInv
<1> QED
  BY <1>1, <1>2, <1>3, TypeCorrect, MutexDiscipline, SessionInvariant,
     MethodsOnlyInLiveSession, NextAdmin, NextAnswer, NextEnds, NextOkSoFar, PTL DEF Spec

(* With any number of tasks and every fault, the host loses sight of a      *)
(* session the drive holds only in the four places LosesTrack names.        *)
THEOREM OrphansAreExplained == Spec => OrphansExplained
<1>1. SightInv /\ OkSoFar /\ [Next]_vars =>
        [Orphans' \subseteq Orphans \/ \E t \in Tasks : LosesTrack(t)]_vars
  <2> SUFFICES ASSUME SightInv, OkSoFar, [Next]_vars, \A t \in Tasks : ~LosesTrack(t),
                      NEW n \in LiveTsns', ~InSight(n)'
               PROVE  n \in LiveTsns /\ ~InSight(n)
    BY DEF Orphans
  <2> QED
    BY NextOrphans
<1> QED
  BY <1>1, SightInvariant, PTL DEF Spec, OrphansExplained

(* opal_dev_destroy, called when no call is running, leaves no session on   *)
(* the drive, whatever was called before it, reverts and LockingSP sessions *)
(* included, and whatever failed, in every run in which none of the four    *)
(* things of LosesTrack happened: it ends the one session the host keeps.   *)
THEOREM DestroyLeavesNoSession ==
  ASSUME OrderlyDestroy
  PROVE  Spec /\ [][\A t \in Tasks : ~LosesTrack(t)]_vars => []DestroyClosesSessions
<1>1. Init => DestroyAlone /\ FreedAndClosed /\ Orphans = {}
  BY DEF Init, DriveInit, DestroyAlone, FreedAndClosed, Orphans, LiveTsns
<1>2. TypeOK /\ DestroyAlone /\ [Next]_vars => DestroyAlone'
  BY NextDestroy
<1>3. Orphans = {}
        /\ [Orphans' \subseteq Orphans \/ \E t \in Tasks : LosesTrack(t)]_vars
        /\ [\A t \in Tasks : ~LosesTrack(t)]_vars
        => (Orphans = {})'
  <2>1. CASE UNCHANGED vars
    BY <2>1 DEF vars, taskVars, sessionVars, driveVars, Orphans, InSight, LiveTsns,
       SessionOpens
  <2> QED
    BY <2>1
<1>4. FreedAndClosed /\ Orphans = {} => DestroyClosesSessions
  <2> SUFFICES ASSUME FreedAndClosed, Orphans = {}, handle = "freed"
               PROVE  sessions = {}
    BY DEF DestroyClosesSessions
  <2>1. LiveTsns = {}
    BY DEF FreedAndClosed, Orphans, InSight
  <2> QED
    BY <2>1 DEF LiveTsns
<1> QED
  BY <1>1, <1>2, <1>3, <1>4, OrphansAreExplained, TypeCorrect, NextFreed, PTL
  DEF Spec, OrphansExplained

-----------------------------------------------------------------------------
(* Session numbers are new. *)

(* No number the host or a packet holds is one the drive has yet to give.   *)
TsnsGiven ==
  /\ tper_session_id < next_tsn /\ answer.tsn < next_tsn /\ resp_buf.tsn < next_tsn

(* The drive numbers sessions upwards.                                      *)
LEMMA DriveTsns ==
  ASSUME DriveTypeOK, NEW c \in Commands, DriveExecutes(c)
  PROVE  /\ next_tsn <= next_tsn' /\ answer'.tsn < next_tsn'
         /\ answer'.kind = "sync" => answer'.tsn = next_tsn
<1> USE DEF DriveTypeOK, Answer, EmptyAnswer, DiscoveryAnswer, SyncAnswer, StatusAnswer,
            RowAnswer
<1>1. CASE DriveGrants(c)
  BY <1>1 DEF DriveGrants
<1>2. CASE ~DriveGrants(c)
  BY <1>2 DEF DriveExecutes, DriveDiscovers, DriveEndsSession, DriveSetsLock,
     DriveActivates, DriveSetsPin, DriveReverts, DriveReadsRow, DriveRefuses
<1> QED
  BY <1>1, <1>2

(* Every step keeps the numbers in use below the next one.                  *)
LEMMA NextTsns == TypeOK /\ TsnsGiven /\ [Next]_vars => TsnsGiven'
<1> SUFFICES ASSUME TypeOK, TsnsGiven, [Next]_vars PROVE TsnsGiven'
  OBVIOUS
<1>0. next_tsn \in Nat /\ next_tsn > 0 /\ tper_session_id \in Nat /\ EmptyAnswer.tsn = 0
      /\ answer.tsn \in Nat /\ resp_buf.tsn \in Nat
  BY DEF TypeOK, DriveTypeOK, EmptyAnswer, Answer, Answers
<1>1. ASSUME UNCHANGED <<sessionVars, resp_buf, driveVars>> PROVE TsnsGiven'
  BY <1>1 DEF TsnsGiven, sessionVars, driveVars
<1>2. ASSUME NEW t \in Tasks, Send(t) PROVE TsnsGiven'
  <2>1. CASE DriveExecutes(cmd_buf)
    <3>1. next_tsn <= next_tsn' /\ answer'.tsn < next_tsn' /\ next_tsn' \in Nat
      BY <2>1, DriveTsns, DriveStepType DEF TypeOK, DriveTypeOK
    <3> QED
      BY <1>0, <1>2, <3>1 DEF Send, TsnsGiven, sessionVars
  <2>2. CASE UNCHANGED driveVars
    BY <1>1, <1>2, <2>2 DEF Send
  <2> QED
    BY <1>2, <2>1, <2>2 DEF Send
<1>3. ASSUME NEW t \in Tasks, Recv(t) PROVE TsnsGiven'
  BY <1>0, <1>3 DEF Recv, TsnsGiven, sessionVars
<1>4. ASSUME NEW t \in Tasks, Finish(t) PROVE TsnsGiven'
  <2>1. tper_session_id' \in {tper_session_id, resp_buf.tsn, 0}
        /\ UNCHANGED <<resp_buf, driveVars>>
    BY <1>4 DEF Finish, FinishDiscover, FinishStart, FinishEnd, FinishMethod,
       FinishQuery, FinishPsidSession, FinishRevert, AdoptSession, ForgetSession,
       sessionVars
  <2> QED
    BY <1>0, <2>1 DEF TsnsGiven, driveVars
<1>5. ASSUME NEW t \in Tasks, CallApi(t) \/ CallDestroy(t) \/ Free(t) \/ Acquire(t)
             \/ Decline(t) \/ Build(t)
      PROVE  UNCHANGED <<sessionVars, resp_buf, driveVars>>
  BY <1>5 DEF CallApi, CallWith, CallDestroy, Free, Acquire, Decline, Build
<1>6. CASE UNCHANGED vars
  BY <1>1, <1>6 DEF vars
<1> QED
  BY <1>1, <1>2, <1>3, <1>4, <1>5, <1>6 DEF Next, Step, Done
=============================================================================
