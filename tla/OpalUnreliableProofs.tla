------------------------ MODULE OpalUnreliableProofs ------------------------
(***************************************************************************)
(* Theorems about OpalUnreliable: the core in front of drives that lose     *)
(* power or whose answers come late, for any number of tasks, calls, resets *)
(* and answers not fetched.                                                 *)
(***************************************************************************)
EXTENDS OpalUnreliable, OpalRefinementProofs

-----------------------------------------------------------------------------
(* Steps and types. *)

UnreliableTypeOK ==
  /\ TypeOK
  /\ mode \in Modes /\ queue \in Seq(Answers) /\ lost \subseteq Nat \ {0}
  /\ mode # "queue" => queue = <<>>

(* Except for the steps only these drives take, the core runs as in         *)
(* OpalCore.                                                                *)
LEMMA CoreOrFault ==
  ASSUME [UnreliableNext]_unreliableVars
  PROVE  \/ [Next]_vars
         \/ Reset
         \/ \E t \in Tasks : mode = "queue" /\ RecvOldest(t)
<1>1. ASSUME NEW t \in Tasks, CoreStep(t) PROVE Next
  BY <1>1 DEF CoreStep, Next, Step
<1>2. ASSUME NEW t \in Tasks, SendUnreliable(t) PROVE Next
  BY <1>2 DEF SendUnreliable, Next, Step
<1>3. ASSUME NEW t \in Tasks, RecvUnreliable(t), ~(mode = "queue" /\ RecvOldest(t))
      PROVE  Next
  <2>1. CASE Recv(t)
    BY <2>1 DEF Next, Step
  <2>2. CASE RecvNothing(t)
    <3>1. Recv(t)
      BY <2>2 DEF RecvNothing, Recv, driveVars
    <3> QED
      BY <3>1 DEF Next, Step
  <2> QED
    BY <1>3, <2>1, <2>2 DEF RecvUnreliable
<1>4. CASE UNCHANGED unreliableVars
  BY <1>4 DEF unreliableVars
<1> QED
  BY <1>1, <1>2, <1>3, <1>4 DEF UnreliableNext, Next

(* A reset keeps the types, and so does the oldest answer.                  *)
LEMMA NextUnreliableType ==
  UnreliableTypeOK /\ [UnreliableNext]_unreliableVars => UnreliableTypeOK'
<1> SUFFICES ASSUME UnreliableTypeOK, [UnreliableNext]_unreliableVars
             PROVE  UnreliableTypeOK'
  OBVIOUS
<1> USE DEF UnreliableTypeOK
<1>1. TypeOK'
  <2>1. CASE [Next]_vars
    BY <2>1, NextType
  <2>2. CASE Reset
    <3>1. EmptyAnswer \in Answers
      BY DEF EmptyAnswer, Answer, Answers, Kinds, OPAL_STATUS_SUCCESS
    <3> QED
      BY <2>2, <3>1 DEF Reset, TypeOK, DriveTypeOK, discoveryVars, sessionVars, taskVars
  <2>3. ASSUME NEW t \in Tasks, mode = "queue", RecvOldest(t) PROVE TypeOK'
    <3>1. Head(queue) \in Answers
      BY <2>3 DEF RecvOldest
    <3> QED
      BY <2>3, <3>1 DEF RecvOldest, TypeOK, PcStates, DriveTypeOK, discoveryVars,
         sessionVars, driveVars
  <2> QED
    BY <2>1, <2>2, <2>3, CoreOrFault
<1>2. lost' \subseteq Nat \ {0}
  <2>1. LiveTsns \subseteq Nat \ {0}
    BY DEF TypeOK, DriveTypeOK, LiveTsns
  <2>2. lost' \subseteq lost \cup LiveTsns
    BY DEF UnreliableNext, CoreStep, SendUnreliable, RecvUnreliable, Reset, faultVars,
           unreliableVars
  <2> QED
    BY <2>1, <2>2
<1>3. mode' = mode /\ (mode # "queue" => queue' = queue)
  BY DEF UnreliableNext, CoreStep, SendUnreliable, RecvUnreliable, Reset, faultVars,
         unreliableVars
<1>4. queue' \in Seq(Answers)
  <2>1. answer' \in Answers
    BY <1>1 DEF TypeOK, DriveTypeOK
  <2>2. UNCHANGED queue \/ queue' = Append(queue, answer')
        \/ (queue # <<>> /\ queue' = Tail(queue))
    BY DEF UnreliableNext, CoreStep, SendUnreliable, RecvUnreliable, RecvOldest,
           RecvNothing, Reset, faultVars, unreliableVars
  <2> QED
    BY <2>1, <2>2
<1> QED
  BY <1>1, <1>2, <1>3, <1>4

LEMMA UnreliableTypeCorrect == UnreliableSpec => []UnreliableTypeOK
<1>1. UnreliableInit => UnreliableTypeOK
  BY InitType DEF UnreliableInit, UnreliableTypeOK
<1> QED
  BY <1>1, NextUnreliableType, PTL DEF UnreliableSpec

(* The mutex does not depend on the drive.                                  *)
LEMMA NextUnreliableLock ==
  TypeOK /\ LockDiscipline /\ [UnreliableNext]_unreliableVars => LockDiscipline'
<1>1. TypeOK /\ LockDiscipline /\ Reset => LockDiscipline'
  BY DEF Reset, LockDiscipline, taskVars
<1>2. ASSUME TypeOK, LockDiscipline, NEW t \in Tasks, RecvOldest(t)
      PROVE  LockDiscipline'
  BY <1>2 DEF RecvOldest, LockDiscipline, Critical, TypeOK
<1> QED
  BY <1>1, <1>2, NextLock, CoreOrFault

LEMMA UnreliableMutex == UnreliableSpec => [](UnreliableTypeOK /\ LockDiscipline)
<1>1. UnreliableInit => LockDiscipline
  BY InitLock DEF UnreliableInit
<1>2. UnreliableTypeOK => TypeOK
  BY DEF UnreliableTypeOK
<1> QED
  BY <1>1, <1>2, UnreliableTypeCorrect, NextUnreliableLock, PTL DEF UnreliableSpec

-----------------------------------------------------------------------------
(* What the mutex holder can rely on. *)

(* A reset touches nothing of the host's.                                   *)
HostUndisturbed(u) ==
  /\ pc'[u] = pc[u] /\ call'[u] = call[u] /\ ret'[u] = ret[u]
  /\ UNCHANGED <<sessionVars, discoveryVars, cmd_buf, resp_buf>>

LEMMA UnreliableHolder ==
  ASSUME TypeOK, LockDiscipline, [UnreliableNext]_unreliableVars,
         NEW u \in Tasks, pc'[u] \in Critical
  PROVE  Step(u) \/ RecvOldest(u) \/ HostUndisturbed(u)
<1>1. CASE [Next]_vars
  BY <1>1, Holder DEF Undisturbed, HostUndisturbed
<1>2. CASE Reset
  BY <1>2 DEF Reset, HostUndisturbed, taskVars
<1>3. ASSUME NEW t \in Tasks, RecvOldest(t) PROVE t = u
  <2>1. pc[t] \in Critical /\ pc[u] \in Critical
    BY <1>3 DEF RecvOldest, Critical, TypeOK
  <2> QED
    BY <2>1, Alone
<1> QED
  BY <1>1, <1>2, <1>3, CoreOrFault

(* The command in cmd_buf is still the one of the call in its exchange.     *)
LEMMA NextUnreliableCommand ==
  TypeOK /\ LockDiscipline /\ CommandOfCall /\ [UnreliableNext]_unreliableVars
    => CommandOfCall'
<1> SUFFICES ASSUME TypeOK, LockDiscipline, CommandOfCall,
                    [UnreliableNext]_unreliableVars, NEW t \in Tasks, InExchange(t)'
             PROVE  \/ cmd_buf'.method = MethodOf(call'[t].op)
                    \/ call'[t].op = "revert" /\ cmd_buf'.method = "revert"
  BY DEF CommandOfCall, InExchange
<1>1. Step(t) \/ RecvOldest(t) \/ HostUndisturbed(t)
  BY UnreliableHolder DEF InExchange, Critical
<1>2. CASE HostUndisturbed(t) \/ RecvOldest(t) \/ Send(t) \/ Recv(t)
  BY <1>2 DEF HostUndisturbed, RecvOldest, Send, Recv, CommandOfCall, InExchange
<1>3. CASE Build(t)
  BY <1>3 DEF Build, Packet
<1>4. CASE FinishPsidSession(t) /\ SessionOpens(t)
  BY <1>4 DEF FinishPsidSession, Exchanged, Packet
<1> QED
  BY <1>1, <1>2, <1>3, <1>4, ExchangeStep

(* EndSession goes out with the number of the session the host believes     *)
(* open.                                                                    *)
EndsOwnSession ==
  \A t \in Tasks : pc[t] = "send" /\ cmd_buf.method = "end_session" =>
    cmd_buf.tsn = tper_session_id

LEMMA NextEndsOwn ==
  TypeOK /\ LockDiscipline /\ EndsOwnSession /\ [UnreliableNext]_unreliableVars
    => EndsOwnSession'
<1> SUFFICES ASSUME TypeOK, LockDiscipline, EndsOwnSession,
                    [UnreliableNext]_unreliableVars,
                    NEW t \in Tasks, pc'[t] = "send", cmd_buf'.method = "end_session"
             PROVE  cmd_buf'.tsn = tper_session_id'
  BY DEF EndsOwnSession
<1>1. Step(t) \/ RecvOldest(t) \/ HostUndisturbed(t)
  BY UnreliableHolder DEF Critical
<1>2. CASE HostUndisturbed(t)
  BY <1>2 DEF HostUndisturbed, EndsOwnSession, sessionVars
<1>3. ~RecvOldest(t)
  BY DEF RecvOldest, TypeOK
<1>4. CASE Build(t)
  BY <1>4 DEF Build, Packet, sessionVars
<1>5. CASE FinishPsidSession(t)
  BY <1>5 DEF FinishPsidSession, Packet, Return, TypeOK
<1> QED
  BY <1>1, <1>2, <1>3, <1>4, <1>5, ExchangeStep DEF InExchange

-----------------------------------------------------------------------------
(* Every session number arrives once. *)

(* No answer in the queue carries a number the drive has yet to give.       *)
QueueGiven == \A i \in 1 .. Len(queue) : queue[i].tsn < next_tsn

LEMMA NextQueueGiven ==
  ASSUME UnreliableTypeOK, TsnsGiven, QueueGiven, [UnreliableNext]_unreliableVars
  PROVE  TsnsGiven' /\ QueueGiven'
<1> USE DEF UnreliableTypeOK
<1>0. UnreliableTypeOK' /\ next_tsn' \in Nat /\ next_tsn \in Nat
  <2>1. UnreliableTypeOK'
    BY NextUnreliableType
  <2> QED
    BY <2>1 DEF TypeOK, DriveTypeOK
<1>1. TsnsGiven'
  <2>1. CASE [Next]_vars
    BY <2>1, NextTsns
  <2>2. CASE Reset
    BY <2>2 DEF Reset, TsnsGiven, EmptyAnswer, Answer, sessionVars, TypeOK, DriveTypeOK
  <2>3. ASSUME NEW t \in Tasks, RecvOldest(t) PROVE TsnsGiven'
    <3>1. resp_buf' = queue[1] /\ 1 \in 1 .. Len(queue)
      BY <2>3 DEF RecvOldest
    <3> QED
      BY <2>3, <3>1 DEF RecvOldest, TsnsGiven, QueueGiven, sessionVars, driveVars
  <2> QED
    BY <2>1, <2>2, <2>3, CoreOrFault
<1>2. next_tsn <= next_tsn'
  <2>1. ASSUME NEW t \in Tasks, Send(t) PROVE next_tsn <= next_tsn'
    BY <1>0, <2>1, DriveTsns DEF Send, TypeOK, driveVars
  <2>2. ASSUME NEW t \in Tasks, CoreStep(t) \/ RecvUnreliable(t) PROVE next_tsn' = next_tsn
    BY <2>2 DEF CoreStep, CallApi, CallWith, CallDestroy, Free, Acquire, Decline, Build,
       Finish, FinishDiscover, FinishStart, FinishEnd, FinishMethod, FinishQuery,
       FinishPsidSession, FinishRevert, RecvUnreliable, Recv, RecvOldest, RecvNothing,
       driveVars
  <2>3. Reset \/ Done \/ UNCHANGED unreliableVars => next_tsn' = next_tsn
    BY DEF Reset, Done, unreliableVars, vars, driveVars
  <2> QED
    BY <1>0, <2>1, <2>2, <2>3 DEF UnreliableNext, SendUnreliable
<1>3. UNCHANGED queue \/ queue' = Append(queue, answer')
      \/ (queue # <<>> /\ queue' = Tail(queue))
  BY DEF UnreliableNext, CoreStep, SendUnreliable, RecvUnreliable, RecvOldest,
         RecvNothing, Reset, faultVars, unreliableVars
<1>4. \A i \in 1 .. Len(queue) : queue[i].tsn \in Nat /\ queue[i].tsn < next_tsn'
  <2> HIDE DEF UnreliableTypeOK
  <2> TAKE i \in 1 .. Len(queue)
  <2>1. queue[i] \in Answers
    BY DEF UnreliableTypeOK
  <2>2. queue[i].tsn \in Nat /\ queue[i].tsn < next_tsn
    BY <2>1 DEF QueueGiven, Answers
  <2> QED
    BY <1>0, <1>2, <2>2
<1>5. answer'.tsn < next_tsn'
  BY <1>1 DEF TsnsGiven
<1>6. queue \in Seq(Answers) /\ answer' \in Answers
  BY NextUnreliableType DEF TypeOK, DriveTypeOK
<1> HIDE DEF UnreliableTypeOK
<1>7. ASSUME UNCHANGED queue PROVE QueueGiven'
  BY <1>4, <1>7 DEF QueueGiven
<1>8. ASSUME queue' = Append(queue, answer') PROVE QueueGiven'
  <2>1. \A i \in 1 .. Len(queue') :
          IF i = Len(queue) + 1 THEN queue'[i] = answer'
          ELSE i \in 1 .. Len(queue) /\ queue'[i] = queue[i]
    BY <1>6, <1>8
  <2> QED
    BY <1>4, <1>5, <2>1 DEF QueueGiven
<1>9. ASSUME queue # <<>> /\ queue' = Tail(queue) PROVE QueueGiven'
  <2>1. \A i \in 1 .. Len(queue') : i + 1 \in 1 .. Len(queue) /\ queue'[i] = queue[i + 1]
    BY <1>6, <1>9
  <2> QED
    BY <1>4, <2>1 DEF QueueGiven
<1> QED
  BY <1>1, <1>3, <1>7, <1>8, <1>9

(* A session number is in one SyncSession answer at most, and no longer in  *)
(* any once the host has adopted it.                                        *)
QueueOnce ==
  \A i \in 1 .. Len(queue) : queue[i].kind = "sync" =>
    /\ queue[i].tsn \notin {0, tper_session_id}
    /\ \A t \in Tasks : pc[t] = "finish" /\ SessionOpens(t) => resp_buf.tsn # queue[i].tsn
    /\ \A j \in 1 .. Len(queue) :
         j # i /\ queue[j].kind = "sync" => queue[j].tsn # queue[i].tsn

(* A step of the core that does not end an exchange touches nothing the     *)
(* drive and the transport have a say in.                                   *)
LEMMA CoreQuiet ==
  ASSUME TypeOK, NEW t \in Tasks, CoreStep(t), ~Finish(t)
  PROVE  /\ UNCHANGED <<sessionVars, resp_buf, driveVars, faultVars>>
         /\ \A u \in Tasks : pc'[u] \in {"recv", "finish"} =>
              pc[u] = pc'[u] /\ ret'[u] = ret[u]
         /\ UNCHANGED cmd_buf \/ pc[t] = "build"
<1>1. CASE CallApi(t)
  <2>1. \E c \in Requests :
          /\ UNCHANGED <<sessionVars, resp_buf, driveVars, cmd_buf>>
          /\ pc' = pc \/ pc' = [pc EXCEPT ![t] = "lock"]
          /\ pc[t] = "idle" /\ ret' = [ret EXCEPT ![t] = EarlyCode(c)]
    BY <1>1 DEF CallApi, CallWith
  <2> QED
    BY <2>1 DEF CoreStep, TypeOK
<1>2. CASE CallDestroy(t) \/ Acquire(t) \/ Build(t) \/ Free(t)
  BY <1>2 DEF CoreStep, CallDestroy, Acquire, Build, Free, TypeOK
<1>3. CASE Decline(t)
  BY <1>3 DEF CoreStep, Decline, Return, TypeOK
<1> QED
  BY <1>1, <1>2, <1>3 DEF CoreStep

(* The end of an exchange adopts the session in resp_buf, if any, or none,  *)
(* and leaves nobody waiting for an answer.                                 *)
LEMMA FinishEnds ==
  ASSUME TypeOK, LockDiscipline, NEW t \in Tasks, Finish(t)
  PROVE  /\ pc[t] = "finish" /\ UNCHANGED <<resp_buf, driveVars>>
         /\ \A u \in Tasks : pc'[u] \notin {"recv", "finish"}
         /\ \/ UNCHANGED sessionVars
            \/ ~session_open' /\ tper_session_id' = 0
            \/ SessionOpens(t) /\ tper_session_id' = resp_buf.tsn
<1>1. pc[t] = "finish" /\ UNCHANGED <<resp_buf, driveVars>>
  BY DEF Finish, FinishDiscover, FinishStart, FinishEnd, FinishMethod, FinishQuery,
         FinishPsidSession, FinishRevert, Exchanged
<1>2. \/ UNCHANGED sessionVars
      \/ ~session_open' /\ tper_session_id' = 0
      \/ SessionOpens(t) /\ tper_session_id' = resp_buf.tsn
  BY DEF Finish, FinishDiscover, FinishStart, FinishEnd, FinishMethod, FinishQuery,
         FinishPsidSession, FinishRevert, AdoptSession, ForgetSession
<1>3. pc'[t] \notin {"recv", "finish"} /\ \A u \in Tasks \ {t} : pc'[u] = pc[u]
  BY DEF Finish, FinishDiscover, FinishStart, FinishEnd, FinishMethod, FinishQuery,
         FinishPsidSession, FinishRevert, Return, TypeOK
<1>4. \A u \in Tasks \ {t} : pc[u] \notin Critical
  BY <1>1, Alone DEF Critical
<1> QED
  BY <1>1, <1>2, <1>3, <1>4 DEF Critical

(* IF-SEND: the drive gets the command or it does not, and only the sender  *)
(* goes on to wait for an answer, or to report the failure.                 *)
LEMMA SendAlone ==
  ASSUME TypeOK, LockDiscipline, NEW t \in Tasks, Send(t)
  PROVE  /\ pc[t] = "send" /\ pc'[t] \in {"recv", "finish"}
         /\ UNCHANGED <<sessionVars, cmd_buf, resp_buf>>
         /\ DriveExecutes(cmd_buf) \/ UNCHANGED driveVars
         /\ \A u \in Tasks : ~(pc'[u] = "finish" /\ SessionOpens(u)')
<1>1. pc'[t] = "finish" => ret'[t] # OPAL_OK
  BY DEF Send, TypeOK, OPAL_OK, OPAL_ERR_TRANSPORT
<1>2. \A u \in Tasks \ {t} : pc'[u] = pc[u] /\ pc[u] \notin Critical
  BY Alone DEF Send, Critical, TypeOK
<1> QED
  BY <1>1, <1>2 DEF Send, SessionOpens, Critical, TypeOK

LEMMA NextQueueOnce ==
  ASSUME UnreliableTypeOK, LockDiscipline, TsnsGiven, QueueGiven, QueueOnce,
         [UnreliableNext]_unreliableVars
  PROVE  QueueOnce'
<1>0. /\ TypeOK /\ \A i \in 1 .. Len(queue) : queue[i] \in Answers
      /\ queue \in Seq(Answers) /\ \A i \in 1 .. Len(queue) : queue[i].tsn \in Nat
  <2>1. \A i \in 1 .. Len(queue) : queue[i] \in Answers
    BY DEF UnreliableTypeOK
  <2> QED
    BY <2>1 DEF UnreliableTypeOK, Answers
<1>1. ASSUME UNCHANGED <<queue, tper_session_id, resp_buf>>,
             \A t \in Tasks : pc'[t] = "finish" => pc[t] = "finish" /\ ret'[t] = ret[t]
      PROVE  QueueOnce'
  BY <1>1 DEF QueueOnce, SessionOpens
<1>2. ASSUME NEW t \in Tasks, CoreStep(t) PROVE QueueOnce'
  <2>1. CASE Finish(t)
    <3>1. /\ pc[t] = "finish" /\ \A u \in Tasks : pc'[u] # "finish"
          /\ \/ tper_session_id' \in {0, tper_session_id}
             \/ SessionOpens(t) /\ tper_session_id' = resp_buf.tsn
      BY <1>0, <2>1, FinishEnds DEF sessionVars
    <3>2. UNCHANGED queue
      BY <1>2 DEF CoreStep, faultVars
    <3> QED
      BY <3>1, <3>2 DEF QueueOnce
  <2>2. CASE ~Finish(t)
    BY <1>0, <1>1, <1>2, <2>2, CoreQuiet DEF sessionVars, faultVars
  <2> QED
    BY <2>1, <2>2
<1>3. ASSUME NEW t \in Tasks, SendUnreliable(t) PROVE QueueOnce'
  <2>1. /\ UNCHANGED <<tper_session_id, resp_buf>>
        /\ \A u \in Tasks : ~(pc'[u] = "finish" /\ SessionOpens(u)')
    BY <1>0, <1>3, SendAlone DEF SendUnreliable, sessionVars
  <2>2. CASE UNCHANGED queue
    BY <2>1, <2>2 DEF QueueOnce
  <2>3. CASE DriveExecutes(cmd_buf) /\ queue' = Append(queue, answer')
    <3>1. answer'.kind = "sync" => answer'.tsn = next_tsn
      BY <1>0, <2>3, DriveTsns DEF TypeOK
    <3>2. /\ next_tsn \in Nat \ {0} /\ tper_session_id \in Nat
          /\ tper_session_id < next_tsn
          /\ \A i \in 1 .. Len(queue) : queue[i].tsn < next_tsn
      BY <1>0 DEF TypeOK, DriveTypeOK, TsnsGiven, QueueGiven
    <3>3. answer' \in Answers
      BY NextUnreliableType DEF UnreliableTypeOK, TypeOK, DriveTypeOK
    <3>4. /\ Len(queue') = Len(queue) + 1 /\ queue'[Len(queue) + 1] = answer'
          /\ \A i \in 1 .. Len(queue) : queue'[i] = queue[i]
      BY <1>0, <2>3, <3>3
    <3>5. \A i \in 1 .. Len(queue') : i \in 1 .. Len(queue) \/ i = Len(queue) + 1
      BY <1>0, <3>4
    <3>6. ASSUME NEW i \in 1 .. Len(queue'), queue'[i].kind = "sync"
          PROVE  /\ queue'[i].tsn \notin {0, tper_session_id}
                 /\ \A j \in 1 .. Len(queue') :
                      j # i /\ queue'[j].kind = "sync" => queue'[j].tsn # queue'[i].tsn
      <4>1. \A j \in 1 .. Len(queue) : queue'[j].tsn \in Nat /\ queue'[j].tsn < next_tsn
        BY <1>0, <3>2, <3>4
      <4>2. CASE i \in 1 .. Len(queue)
        <5>1. /\ queue[i].kind = "sync" /\ queue'[i].tsn = queue[i].tsn
              /\ queue'[i].tsn < next_tsn
          BY <3>2, <3>4, <3>6, <4>2
        <5>2. /\ queue[i].tsn \notin {0, tper_session_id}
              /\ \A j \in 1 .. Len(queue) :
                   j # i /\ queue[j].kind = "sync" => queue[j].tsn # queue[i].tsn
          BY <4>2, <5>1 DEF QueueOnce
        <5>3. ASSUME NEW j \in 1 .. Len(queue'), j # i, queue'[j].kind = "sync"
              PROVE  queue'[j].tsn # queue'[i].tsn
          <6>1. CASE j \in 1 .. Len(queue)
            BY <3>4, <5>1, <5>2, <5>3, <6>1
          <6>2. CASE j = Len(queue) + 1
            BY <3>1, <3>2, <3>4, <4>1, <4>2, <5>1, <5>3, <6>2
          <6> QED
            BY <3>5, <6>1, <6>2
        <5> QED
          BY <5>1, <5>2, <5>3
      <4>3. CASE i = Len(queue) + 1
        BY <3>1, <3>2, <3>4, <3>5, <3>6, <4>1, <4>3
      <4> QED
        BY <3>5, <4>2, <4>3
    <3> QED
      BY <2>1, <3>6 DEF QueueOnce
  <2> QED
    BY <1>3, <2>2, <2>3 DEF SendUnreliable
<1>4. ASSUME NEW t \in Tasks, RecvOldest(t) PROVE QueueOnce'
  <2>1. /\ resp_buf' = queue[1] /\ queue' = Tail(queue) /\ queue # <<>>
        /\ UNCHANGED <<tper_session_id, ret>>
    BY <1>4 DEF RecvOldest, sessionVars
  <2>2. /\ 1 \in 1 .. Len(queue)
        /\ \A i \in 1 .. Len(queue') :
             i + 1 \in 1 .. Len(queue) /\ queue'[i] = queue[i + 1] /\ i + 1 # 1
    BY <1>0, <2>1
  <2>3. \A i, j \in 1 .. Len(queue') : i # j => i + 1 # j + 1
    OBVIOUS
  <2>4. \A u \in Tasks : SessionOpens(u)' => queue[1].kind = "sync"
    BY <2>1 DEF SessionOpens
  <2> QED
    BY <2>1, <2>2, <2>3, <2>4 DEF QueueOnce
<1>5. ASSUME NEW t \in Tasks, RecvNothing(t) PROVE QueueOnce'
  <2>1. \A u \in Tasks : ~SessionOpens(u)'
    BY <1>5 DEF RecvNothing, SessionOpens, EmptyAnswer, Answer
  <2> QED
    BY <1>5, <2>1 DEF RecvNothing, QueueOnce, sessionVars
<1>6. ASSUME mode # "queue" PROVE QueueOnce'
  <2>1. queue' = <<>>
    BY <1>6, NextUnreliableType
    DEF UnreliableTypeOK, UnreliableNext, CoreStep, SendUnreliable, RecvUnreliable, Reset,
        faultVars, unreliableVars
  <2> QED
    BY <2>1 DEF QueueOnce
<1>7. CASE Reset
  BY <1>6, <1>7 DEF Reset
<1>8. CASE UNCHANGED vars /\ UNCHANGED queue
  BY <1>1, <1>8 DEF vars, taskVars, sessionVars
<1> QED
  BY <1>2, <1>3, <1>4, <1>5, <1>6, <1>7, <1>8
  DEF UnreliableNext, RecvUnreliable, Done, faultVars, unreliableVars

-----------------------------------------------------------------------------
(* The session the host believes open. *)

(* The sessions the drive gave that no call has ended since. *)
Held == LiveTsns \cup lost

(* The strengthening of SessionLiveUnlessLost.  What SessionInv says of live *)
(* sessions, these drives keep of held ones; the answers still in the queue *)
(* name held ones too, since opal_end_session ends no other session than    *)
(* the one the host has adopted.                                            *)
HeldInv ==
  /\ session_open => tper_session_id \in Held \/ \E t \in Tasks : EndingSession(t)
  /\ AnswerLive
  /\ \A t \in Tasks : pc[t] = "finish" /\ SessionOpens(t) => resp_buf.tsn \in Held
  /\ \A i \in 1 .. Len(queue) : queue[i].kind = "sync" => queue[i].tsn \in Held

(* A number is given up by the EndSession or the Revert that names it, or   *)
(* by a Revert behind late answers, which is a loss.                        *)
LEMMA SendHeld ==
  ASSUME TypeOK, NEW t \in Tasks, SendUnreliable(t), Send(t)
  PROVE  /\ cmd_buf.method \notin {"end_session", "revert"} => Held \subseteq Held'
         /\ mode = "queue" /\ cmd_buf.method = "revert" => Held \subseteq Held'
         /\ cmd_buf.method = "end_session" => Held \ {cmd_buf.tsn} \subseteq Held'
<1>1. lost \subseteq lost'
      /\ (mode = "queue" /\ cmd_buf.method = "revert" => LiveTsns \ LiveTsns' \subseteq lost')
  BY DEF SendUnreliable
<1>2. CASE UNCHANGED driveVars
  BY <1>1, <1>2 DEF Held, LiveTsns, driveVars
<1>3. CASE DriveExecutes(cmd_buf)
  <2>1. cmd_buf.method \notin {"end_session", "revert"} => LiveTsns \subseteq LiveTsns'
    BY <1>3, DriveSessions DEF TypeOK
  <2>2. cmd_buf.method = "end_session" => LiveTsns \ {cmd_buf.tsn} \subseteq LiveTsns'
    BY <1>3 DEF DriveExecutes, DriveDiscovers, DriveGrants, DriveEndsSession,
       DriveSetsLock, DriveActivates, DriveSetsPin, DriveReverts, DriveReadsRow,
       DriveRefuses, LiveTsns
  <2> QED
    BY <1>1, <2>1, <2>2 DEF Held
<1> QED
  BY <1>2, <1>3 DEF Send

LEMMA NextHeld ==
  ASSUME UnreliableTypeOK, LockDiscipline, CommandOfCall, EndsOwnSession, QueueOnce,
         HeldInv, [UnreliableNext]_unreliableVars
  PROVE  HeldInv'
<1>0. TypeOK /\ (mode # "queue" => queue = <<>>)
      /\ \A i \in 1 .. Len(queue) : queue[i] \in Answers
  BY DEF UnreliableTypeOK
<1>1. ASSUME UNCHANGED <<sessionVars, resp_buf, driveVars, queue, lost>>,
             \A t \in Tasks : pc'[t] = "finish" => pc[t] = "finish" /\ ret'[t] = ret[t],
             \A t \in Tasks : EndingSession(t) => EndingSession(t)'
      PROVE  HeldInv'
  <2>1. Held' = Held
    BY <1>1 DEF Held, LiveTsns, driveVars
  <2> QED
    BY <1>1, <2>1
    DEF HeldInv, SessionOpens, AnswerLive, LiveTsns, sessionVars, driveVars
<1>2. ASSUME NEW t \in Tasks, CoreStep(t), ~Finish(t) PROVE HeldInv'
  <2>1. \A u \in Tasks : EndingSession(u) => EndingSession(u)'
    <3> SUFFICES ASSUME NEW u \in Tasks, EndingSession(u) PROVE EndingSession(u)'
      OBVIOUS
    <3>1. pc[u] \in {"recv", "finish"} /\ pc[u] \in Critical
      BY DEF EndingSession, Critical
    <3>2. t # u
      BY <1>2, <3>1 DEF CoreStep, CallApi, CallWith, CallDestroy, Acquire, Decline, Build,
         Free
    <3>3. pc'[u] = pc[u]
      BY <1>0, <1>2, <3>2 DEF CoreStep, CallApi, CallWith, CallDestroy, Acquire, Decline,
         Build, Free, Return, TypeOK
    <3>4. pc[t] # "build"
      BY <3>1, <3>2, Alone DEF Critical
    <3>5. UNCHANGED cmd_buf
      BY <1>0, <1>2, <3>4, CoreQuiet
    <3> QED
      BY <3>3, <3>5 DEF EndingSession
  <2> QED
    BY <1>0, <1>1, <1>2, <2>1, CoreQuiet DEF faultVars
<1>3. ASSUME NEW t \in Tasks, CoreStep(t), Finish(t) PROVE HeldInv'
  <2>1. /\ pc[t] = "finish" /\ UNCHANGED <<resp_buf, driveVars, queue, lost>>
        /\ \A u \in Tasks : pc'[u] \notin {"recv", "finish"}
    BY <1>0, <1>3, FinishEnds DEF CoreStep, faultVars
  <2>2. Held' = Held
    BY <2>1 DEF Held, LiveTsns, driveVars
  <2>3. session_open' => tper_session_id' \in Held
    <3>1. CASE ~session_open'
      BY <3>1
    <3>2. CASE SessionOpens(t) /\ tper_session_id' = resp_buf.tsn
      BY <2>1, <3>2 DEF HeldInv
    <3>3. CASE UNCHANGED sessionVars /\ session_open'
      <4>1. cmd_buf.method \notin {"end_session", "revert"}
        BY <1>0, <1>3, <3>3
        DEF Finish, FinishDiscover, FinishStart, FinishEnd, FinishMethod, FinishQuery,
            FinishPsidSession, FinishRevert, Exchanged, ForgetSession, CommandOfCall,
            MethodOf, StartOps, MethodOps, sessionVars
      <4> QED
        BY <3>3, <4>1 DEF HeldInv, EndingSession, sessionVars
    <3> QED
      BY <1>0, <1>3, <3>1, <3>2, <3>3, FinishEnds
  <2> QED
    BY <2>1, <2>2, <2>3 DEF HeldInv, AnswerLive, LiveTsns, driveVars
<1>4. ASSUME NEW t \in Tasks, SendUnreliable(t) PROVE HeldInv'
  <2>1. /\ Send(t) /\ pc[t] = "send" /\ pc'[t] \in {"recv", "finish"}
        /\ UNCHANGED <<sessionVars, cmd_buf, resp_buf>>
        /\ DriveExecutes(cmd_buf) \/ UNCHANGED driveVars
        /\ \A u \in Tasks : ~(pc'[u] = "finish" /\ SessionOpens(u)')
    BY <1>0, <1>4, SendAlone DEF SendUnreliable
  <2>2. AnswerLive'
    BY <1>0, <2>1, DriveSessions DEF TypeOK, HeldInv, AnswerLive, LiveTsns, driveVars
  <2>3. session_open' => tper_session_id' \in Held' \/ EndingSession(t)'
    <3>1. CASE cmd_buf.method \in {"end_session", "revert"}
      BY <2>1, <3>1 DEF EndingSession
    <3>2. CASE cmd_buf.method \notin {"end_session", "revert"}
      BY <1>0, <1>4, <2>1, <3>2, SendHeld DEF HeldInv, EndingSession, sessionVars
    <3> QED
      BY <3>1, <3>2
  <2>4. \A i \in 1 .. Len(queue) : queue[i].kind = "sync" => queue[i].tsn \in Held'
    <3> SUFFICES ASSUME NEW i \in 1 .. Len(queue), queue[i].kind = "sync"
                 PROVE  queue[i].tsn \in Held'
      OBVIOUS
    <3>1. mode = "queue"
      BY <1>0
    <3>2. queue[i].tsn \in Held /\ queue[i].tsn # tper_session_id
      BY DEF HeldInv, QueueOnce
    <3>3. cmd_buf.method = "end_session" => cmd_buf.tsn = tper_session_id
      BY <2>1 DEF EndsOwnSession
    <3> QED
      BY <1>0, <1>4, <2>1, <3>1, <3>2, <3>3, SendHeld
  <2>5. \A i \in 1 .. Len(queue') : queue'[i].kind = "sync" => queue'[i].tsn \in Held'
    <3>1. CASE UNCHANGED queue
      BY <2>4, <3>1
    <3>2. CASE queue' = Append(queue, answer')
      <4>1. answer' \in Answers /\ queue \in Seq(Answers)
        BY NextUnreliableType DEF UnreliableTypeOK, TypeOK, DriveTypeOK
      <4>2. \A i \in 1 .. Len(queue') :
              \/ i \in 1 .. Len(queue) /\ queue'[i] = queue[i]
              \/ queue'[i] = answer'
        BY <3>2, <4>1
      <4>3. answer'.kind = "sync" => answer'.tsn \in Held'
        BY <2>2 DEF AnswerLive, Held
      <4> QED
        BY <2>4, <4>2, <4>3
    <3> QED
      BY <1>4, <3>1, <3>2 DEF SendUnreliable
  <2> QED
    BY <2>1, <2>2, <2>3, <2>5 DEF HeldInv
<1>5. ASSUME NEW t \in Tasks, RecvUnreliable(t) PROVE HeldInv'
  <2>1. /\ pc[t] = "recv" /\ pc'[t] = "finish"
        /\ UNCHANGED <<sessionVars, cmd_buf, sessions, lost>>
        /\ \A u \in Tasks \ {t} : pc'[u] = pc[u] /\ pc[u] \notin Critical
    <3>1. pc[t] = "recv" /\ pc' = [pc EXCEPT ![t] = "finish"]
          /\ UNCHANGED <<sessionVars, cmd_buf, sessions, lost>>
      BY <1>5 DEF RecvUnreliable, RecvOldest, RecvNothing, Recv, driveVars
    <3> QED
      BY <1>0, <3>1, Alone DEF Critical, TypeOK
  <2>2. Held' = Held /\ LiveTsns' = LiveTsns
    BY <2>1 DEF Held, LiveTsns
  <2>3. \A u \in Tasks : EndingSession(u) => EndingSession(u)'
    BY <2>1 DEF EndingSession
  <2>4. answer' \in {answer, EmptyAnswer}
    BY <1>5 DEF RecvUnreliable, RecvOldest, RecvNothing, Recv, driveVars
  <2>5. resp_buf'.kind = "sync" => resp_buf'.tsn \in Held
    <3>1. CASE RecvOldest(t)
      BY <1>0, <3>1 DEF RecvOldest, HeldInv, UnreliableTypeOK
    <3>2. CASE RecvNothing(t)
      BY <3>2 DEF RecvNothing, EmptyAnswer, Answer
    <3>3. CASE Recv(t)
      BY <3>3 DEF Recv, HeldInv, AnswerLive, Held, EmptyAnswer, Answer
    <3> QED
      BY <1>5, <3>1, <3>2, <3>3 DEF RecvUnreliable
  <2>6. \A i \in 1 .. Len(queue') : queue'[i].kind = "sync" => queue'[i].tsn \in Held
    <3>1. UNCHANGED queue \/ (queue # <<>> /\ queue' = Tail(queue))
      BY <1>5 DEF RecvUnreliable, RecvOldest, RecvNothing
    <3>2. \A i \in 1 .. Len(queue') :
            \E j \in 1 .. Len(queue) : queue'[i] = queue[j]
      <4>1. queue \in Seq(Answers)
        BY DEF UnreliableTypeOK
      <4>2. queue # <<>> /\ queue' = Tail(queue) =>
              \A i \in 1 .. Len(queue') :
                 i + 1 \in 1 .. Len(queue) /\ queue'[i] = queue[i + 1]
        BY <4>1
      <4> QED
        BY <3>1, <4>2
    <3> QED
      BY <3>2 DEF HeldInv
  <2> QED
    BY <2>1, <2>2, <2>3, <2>4, <2>5, <2>6
    DEF HeldInv, AnswerLive, SessionOpens, Critical, EmptyAnswer, Answer, sessionVars
<1>6. CASE Reset
  <2>1. Held \subseteq Held' /\ queue' = queue
    BY <1>6 DEF Reset, Held
  <2>2. \A t \in Tasks : EndingSession(t)' = EndingSession(t)
    BY <1>6 DEF Reset, EndingSession, taskVars
  <2> QED
    BY <1>6, <2>1, <2>2
    DEF Reset, HeldInv, AnswerLive, SessionOpens, EmptyAnswer, Answer, sessionVars, taskVars
<1>7. CASE UNCHANGED vars /\ UNCHANGED <<queue, lost>>
  <2>1. \A t \in Tasks : EndingSession(t)' = EndingSession(t)
    BY <1>7 DEF vars, taskVars, EndingSession
  <2> QED
    BY <1>1, <1>7, <2>1 DEF vars, taskVars
<1> QED
  BY <1>2, <1>3, <1>4, <1>5, <1>6, <1>7
  DEF UnreliableNext, Done, faultVars, unreliableVars

(* Whatever the drive loses and however late its answers are, the host      *)
(* adopts no session it has ended itself: the session it believes open is   *)
(* the drive's, or fell to a power loss or, behind late answers, a Revert.  *)
THEOREM SessionsLiveUnlessLost == UnreliableSpec => []SessionLiveUnlessLost
<1>1. UnreliableInit => /\ CommandOfCall /\ EndsOwnSession /\ TsnsGiven /\ QueueGiven
                        /\ QueueOnce /\ HeldInv
  BY DEF UnreliableInit, Init, DriveInit, CommandOfCall, EndsOwnSession, TsnsGiven,
         QueueGiven, QueueOnce, HeldInv, AnswerLive, EmptyAnswer, Answer
<1>2. UnreliableTypeOK => TypeOK
  BY DEF UnreliableTypeOK
<1>3. UnreliableTypeOK /\ TsnsGiven /\ QueueGiven /\ [UnreliableNext]_unreliableVars
        => TsnsGiven' /\ QueueGiven'
  BY NextQueueGiven
<1>4. UnreliableTypeOK /\ LockDiscipline /\ TsnsGiven /\ QueueGiven /\ QueueOnce
        /\ [UnreliableNext]_unreliableVars => QueueOnce'
  BY NextQueueOnce
<1>5. UnreliableTypeOK /\ LockDiscipline /\ CommandOfCall /\ EndsOwnSession /\ QueueOnce
        /\ HeldInv /\ [UnreliableNext]_unreliableVars => HeldInv'
  BY NextHeld
<1>6. LockDiscipline /\ HeldInv => SessionLiveUnlessLost
  BY CoreAssumption
  DEF LockDiscipline, HeldInv, SessionLiveUnlessLost, Held, EndingSession, Critical
<1> QED
  BY <1>1, <1>2, <1>3, <1>4, <1>5, <1>6, UnreliableMutex, NextUnreliableCommand,
     NextEndsOwn, PTL DEF UnreliableSpec

-----------------------------------------------------------------------------
(* The calls are atomic in front of these drives, too. *)

(* A power loss and an old answer change nothing OpalSession knows of, and  *)
(* keep what the refinement needs: the session in an old answer is new to   *)
(* the host.                                                                *)
LEMMA QuietFault ==
  ASSUME UnreliableTypeOK, RefinementInv, QueueOnce, LockDiscipline', TypeOK',
         CommandOfCall', Reset \/ \E t \in Tasks : RecvOldest(t)
  PROVE  RefinementInv' /\ UNCHANGED Session!sessionSpecVars
<1> USE DEF RefinementInv
<1>1. CASE Reset
  <2>1. UNCHANGED <<sessionVars, discovered, cmd_buf, resp_buf, handle, pc, call, ret>>
        /\ answer'.kind = "empty"
    BY <1>1 DEF Reset, discoveryVars, taskVars, EmptyAnswer, Answer
  <2> QED
    BY <2>1
    DEF NewSession, SessionOpens, SessionNumbered, AdminExclusive, RevertSession,
        MethodHeld, DestroyAlone, InExchange, sessionVars, Session!sessionSpecVars,
        VisibleSession, Reverting, Progress
<1>2. ASSUME NEW t \in Tasks, RecvOldest(t)
      PROVE  RefinementInv' /\ UNCHANGED Session!sessionSpecVars
  <2>1. /\ pc[t] = "recv" /\ pc' = [pc EXCEPT ![t] = "finish"]
        /\ UNCHANGED <<sessionVars, discovered, cmd_buf, handle, call, ret, answer>>
        /\ resp_buf' = queue[1] /\ 1 \in 1 .. Len(queue)
    BY <1>2 DEF RecvOldest, discoveryVars, driveVars, UnreliableTypeOK
  <2>2. /\ pc'[t] = "finish" /\ \A u \in Tasks \ {t} : pc'[u] = pc[u]
        /\ \A u \in Tasks : InExchange(u)' = InExchange(u) /\ Progress(u)' = Progress(u)
    BY <2>1 DEF TypeOK, InExchange, Progress
  <2>3. resp_buf'.kind = "sync" => resp_buf'.tsn \notin {0, tper_session_id}
    BY <2>1 DEF QueueOnce
  <2>4. \A u \in Tasks \ {t} : pc'[u] # "finish"
    BY <2>1, <2>2, Alone DEF Critical
  <2>5. NewSession'
    BY <2>1, <2>2, <2>3, <2>4 DEF NewSession, SessionOpens, sessionVars
  <2>6. SessionNumbered' /\ AdminExclusive' /\ RevertSession' /\ MethodHeld'
    BY <2>1, <2>2 DEF SessionNumbered, AdminExclusive, RevertSession, MethodHeld, sessionVars
  <2>7. DestroyAlone'
    BY <2>1, <2>2 DEF DestroyAlone, sessionVars
  <2>8. VisibleSession' = VisibleSession
    BY <2>1, <2>2 DEF VisibleSession, Reverting, sessionVars
  <2> QED
    BY <2>1, <2>2, <2>5, <2>6, <2>7, <2>8 DEF Session!sessionSpecVars
<1> QED
  BY <1>1, <1>2

(* Neither a power loss nor answers shifted by one show in the order or the *)
(* number of the sessions the host starts and ends: the calls still are     *)
(* atomic and keep what opal_core.h promises, although the session they     *)
(* agree on may be gone.                                                    *)
THEOREM CallsAreAtomicUnreliable ==
  ASSUME OrderlyDestroy PROVE UnreliableSpec => ImplementsSession
<1> DEFINE Inv == /\ UnreliableTypeOK /\ LockDiscipline /\ CommandOfCall
                  /\ TsnsGiven /\ QueueGiven /\ QueueOnce /\ RefinementInv
<1>1. UnreliableInit => Init /\ Inv
  <2> SUFFICES ASSUME UnreliableInit PROVE Init /\ Inv
    OBVIOUS
  <2>1. Init /\ queue = <<>>
    BY DEF UnreliableInit
  <2>2. TsnsGiven /\ RefinementInv
    BY <2>1, InitRefinement
  <2>3. UnreliableTypeOK
    BY <2>2 DEF RefinementInv, UnreliableInit, UnreliableTypeOK
  <2> QED
    BY <2>1, <2>2, <2>3 DEF RefinementInv, QueueGiven, QueueOnce
<1>2. Inv /\ [UnreliableNext]_unreliableVars =>
        Inv' /\ [Session!SessionNext]_Session!sessionSpecVars
  <2> SUFFICES ASSUME Inv, [UnreliableNext]_unreliableVars
               PROVE  Inv' /\ [Session!SessionNext]_Session!sessionSpecVars
    OBVIOUS
  <2>1. TypeOK /\ UnreliableTypeOK' /\ TypeOK' /\ TsnsGiven' /\ QueueGiven' /\ QueueOnce'
    BY NextUnreliableType, NextQueueGiven, NextQueueOnce DEF UnreliableTypeOK
  <2>2. LockDiscipline' /\ CommandOfCall'
    BY <2>1, NextUnreliableLock, NextUnreliableCommand
  <2>3. RefinementInv' /\ [Session!SessionNext]_Session!sessionSpecVars
    <3>1. CASE [Next]_vars
      BY <2>2, <3>1, NextRefinement, RefinesNext
    <3>2. CASE Reset \/ \E t \in Tasks : RecvOldest(t)
      BY <2>1, <2>2, <3>2, QuietFault
    <3> QED
      BY <3>1, <3>2, CoreOrFault
  <2> QED
    BY <2>1, <2>2, <2>3
<1> QED
  BY <1>1, <1>2, RefinesInit, PTL DEF UnreliableSpec, ImplementsSession, Session!SessionSpec

-----------------------------------------------------------------------------
(* Discovery before sessions. *)

(* Neither a power loss nor a late answer makes up for, or undoes, a        *)
(* discovery.                                                               *)
THEOREM DiscoveryFirstUnreliable ==
  ASSUME RevertsAlone PROVE UnreliableSpec => []SessionNeedsDiscovery
<1>1. TypeOK /\ LockDiscipline /\ DiscoveryInv /\ [UnreliableNext]_unreliableVars
        => DiscoveryInv'
  <2> SUFFICES ASSUME TypeOK, DiscoveryInv, [UnreliableNext]_unreliableVars
               PROVE  DiscoveryInv'
    OBVIOUS
  <2>1. CASE Reset
    BY <2>1 DEF Reset, DiscoveryInv, SessionNeedsDiscovery, InExchange, discoveryVars,
       sessionVars, taskVars
  <2>2. ASSUME NEW t \in Tasks, RecvOldest(t) PROVE DiscoveryInv'
    BY <2>2 DEF RecvOldest, DiscoveryInv, SessionNeedsDiscovery, InExchange,
       discoveryVars, sessionVars, TypeOK
  <2> QED
    BY <2>1, <2>2, NextDiscovery, CoreOrFault
<1>2. UnreliableInit => DiscoveryInv
  BY InitDiscovery DEF UnreliableInit
<1>3. UnreliableTypeOK => TypeOK
  BY DEF UnreliableTypeOK
<1>4. DiscoveryInv => SessionNeedsDiscovery
  BY DEF DiscoveryInv
<1> QED
  BY <1>1, <1>2, <1>3, <1>4, UnreliableMutex, PTL DEF UnreliableSpec

-----------------------------------------------------------------------------
(* What OPAL_OK says. *)

(* Only a discovery reports a ComID.                                        *)
ComIdsDiscovered ==
  /\ answer.com # 0 => answer.kind = "disc"
  /\ resp_buf.com # 0 => resp_buf.kind = "disc"
  /\ \A i \in 1 .. Len(queue) : queue[i].com # 0 => queue[i].kind = "disc"

LEMMA NextDiscovered ==
  ASSUME UnreliableTypeOK, LockDiscipline, ComIdsDiscovered,
         [UnreliableNext]_unreliableVars
  PROVE  ComIdsDiscovered'
<1>0. TypeOK /\ queue \in Seq(Answers) /\ EmptyAnswer.com = 0
  BY DEF UnreliableTypeOK, EmptyAnswer, Answer
<1>1. answer'.com # 0 => answer'.kind = "disc"
  <2>1. ASSUME DriveExecutes(cmd_buf)
        PROVE  answer'.com # 0 => answer'.kind = "disc"
    BY <2>1 DEF DriveExecutes, DriveDiscovers, DriveGrants, DriveEndsSession, DriveSetsLock,
       DriveActivates, DriveSetsPin, DriveReverts, DriveReadsRow, DriveRefuses,
       Answer, EmptyAnswer, DiscoveryAnswer, SyncAnswer, StatusAnswer, RowAnswer
  <2>2. ASSUME NEW t \in Tasks, CoreStep(t) PROVE UNCHANGED answer
    BY <1>0, <2>2, CoreQuiet, FinishEnds DEF driveVars
  <2> QED
    BY <1>0, <2>1, <2>2
    DEF UnreliableNext, SendUnreliable, Send, RecvUnreliable, Recv, RecvOldest,
        RecvNothing, Reset, Done, ComIdsDiscovered, unreliableVars, vars, driveVars
<1>2. \/ UNCHANGED queue \/ queue' = Append(queue, answer')
      \/ queue # <<>> /\ queue' = Tail(queue)
  BY DEF UnreliableNext, CoreStep, SendUnreliable, RecvUnreliable, RecvOldest,
         RecvNothing, Reset, faultVars, unreliableVars
<1>3. \A i \in 1 .. Len(queue') : queue'[i].com # 0 => queue'[i].kind = "disc"
  <2>1. answer' \in Answers
    BY NextUnreliableType DEF UnreliableTypeOK, TypeOK, DriveTypeOK
  <2>2. \A i \in 1 .. Len(queue') :
          queue'[i] = answer' \/ \E j \in 1 .. Len(queue) : queue'[i] = queue[j]
    <3>1. CASE queue' = Append(queue, answer')
      <4>1. \A i \in 1 .. Len(queue') :
              queue'[i] = answer' \/ (i \in 1 .. Len(queue) /\ queue'[i] = queue[i])
        BY <1>0, <2>1, <3>1
      <4> QED
        BY <4>1
    <3>2. CASE queue # <<>> /\ queue' = Tail(queue)
      <4>1. \A i \in 1 .. Len(queue') :
              i + 1 \in 1 .. Len(queue) /\ queue'[i] = queue[i + 1]
        BY <1>0, <3>2
      <4> QED
        BY <4>1
    <3> QED
      BY <1>2, <3>1, <3>2
  <2> QED
    BY <1>1, <2>2 DEF ComIdsDiscovered
<1>4. resp_buf'.com # 0 => resp_buf'.kind = "disc"
  <2>1. ASSUME NEW t \in Tasks, CoreStep(t) PROVE UNCHANGED resp_buf
    BY <1>0, <2>1, CoreQuiet, FinishEnds
  <2>2. ASSUME NEW t \in Tasks, RecvOldest(t)
        PROVE  resp_buf'.com # 0 => resp_buf'.kind = "disc"
    BY <1>0, <2>2 DEF RecvOldest, ComIdsDiscovered
  <2> QED
    BY <1>0, <2>1, <2>2
    DEF UnreliableNext, SendUnreliable, Send, RecvUnreliable, Recv, RecvNothing, Reset,
        Done, ComIdsDiscovered, unreliableVars, vars
<1> QED
  BY <1>1, <1>3, <1>4 DEF ComIdsDiscovered

(* The call that returns does so in a step of the core.                     *)
LEMMA UnreliableEnd ==
  ASSUME TypeOK, [UnreliableNext]_unreliableVars, NEW t \in Tasks, Ends(t)
  PROVE  Decline(t) \/ (Finish(t) /\ \E code : Return(t, code))
<1>1. ~Reset
  BY DEF Reset, Ends, Critical, taskVars
<1>2. ASSUME NEW u \in Tasks, RecvOldest(u) PROVE FALSE
  BY <1>2 DEF RecvOldest, Ends, Critical, TypeOK
<1> QED
  BY <1>1, <1>2, EndStep, CoreOrFault

(* Even with the answers shifted by one, a discovery, a start, a method or a*)
(* Revert that received nothing, or the discovery of an earlier call, does  *)
(* not report success; query and the ends of sessions may.                  *)
THEOREM SuccessesAnswered == UnreliableSpec => SuccessWasAnswered
<1>1. UnreliableInit => ComIdsDiscovered
  BY DEF UnreliableInit, Init, DriveInit, ComIdsDiscovered, EmptyAnswer, Answer
<1>2. UnreliableTypeOK /\ LockDiscipline /\ ComIdsDiscovered
        /\ [UnreliableNext]_unreliableVars => ComIdsDiscovered'
  BY NextDiscovered
<1>3. UnreliableTypeOK /\ ComIdsDiscovered /\ [UnreliableNext]_unreliableVars =>
        [\A t \in Tasks :
           /\ Ends(t) /\ pc[t] = "finish" /\ ret'[t] = OPAL_OK
           /\ call[t].op \notin {"query", "end_session", "destroy"}
           => /\ resp_buf # EmptyAnswer
              /\ resp_buf.kind = "disc" <=> call[t].op = "discover"]_unreliableVars
  <2> SUFFICES ASSUME UnreliableTypeOK, ComIdsDiscovered,
                      [UnreliableNext]_unreliableVars,
                      NEW t \in Tasks, Ends(t), pc[t] = "finish",
                      call[t].op \notin {"query", "end_session", "destroy"},
                      ret'[t] = OPAL_OK
               PROVE  /\ resp_buf # EmptyAnswer
                      /\ resp_buf.kind = "disc" <=> call[t].op = "discover"
    OBVIOUS
  <2>0. TypeOK
    BY DEF UnreliableTypeOK
  <2>1. Finish(t) /\ \E code : Return(t, code)
    BY <2>0, UnreliableEnd DEF Decline
  <2>2. EmptyAnswer.com = 0 /\ EmptyAnswer.kind = "empty"
    BY DEF EmptyAnswer, Answer
  <2>3. CASE FinishDiscover(t)
    BY <2>0, <2>2, <2>3
    DEF FinishDiscover, Exchanged, Return, ComIdsDiscovered, TypeOK, OPAL_OK,
        OPAL_ERR_PROTO
  <2>4. CASE FinishStart(t)
    BY <2>0, <2>2, <2>4
    DEF FinishStart, Exchanged, SessionOpens, Return, FirstError, StartOps, TypeOK,
        OPAL_OK, OPAL_ERR_PROTO
  <2>5. CASE FinishMethod(t) \/ FinishRevert(t)
    BY <2>0, <2>2, <2>5
    DEF FinishMethod, FinishRevert, Exchanged, Return, FirstError, ParseStatus, MethodOps,
        TypeOK, OPAL_OK, OPAL_ERR_PROTO
  <2>6. CASE FinishPsidSession(t)
    <3>1. ~SessionOpens(t)
      BY <2>0, <2>6 DEF FinishPsidSession, Ends, TypeOK
    <3> QED
      BY <2>0, <2>6, <3>1
      DEF FinishPsidSession, Return, FirstError, TypeOK, OPAL_OK, OPAL_ERR_PROTO
  <2>7. ~FinishEnd(t) /\ ~FinishQuery(t)
    BY DEF FinishEnd, FinishQuery, Exchanged, StartOps, MethodOps
  <2> QED
    BY <2>1, <2>3, <2>4, <2>5, <2>6, <2>7 DEF Finish
<1> QED
  BY <1>1, <1>2, <1>3, UnreliableMutex, PTL DEF UnreliableSpec, SuccessWasAnswered

(* The command in cmd_buf carries the arguments of the call it is for; the  *)
(* row is left open for user 0, and an empty PIN is none.                   *)
ArgumentsOfCall ==
  \A t \in Tasks : InExchange(t) =>
    /\ cmd_buf.range = call[t].range /\ cmd_buf.val = call[t].val
    /\ cmd_buf.method = "set_pin" =>
         /\ call[t].user # 0 => cmd_buf.user \in {call[t].user, NoRow}
         /\ cmd_buf.pin \in {call[t].pin, NoPin}

LEMMA NextArguments ==
  TypeOK /\ LockDiscipline /\ ArgumentsOfCall /\ [UnreliableNext]_unreliableVars
    => ArgumentsOfCall'
<1> SUFFICES ASSUME TypeOK, LockDiscipline, ArgumentsOfCall,
                    [UnreliableNext]_unreliableVars, NEW t \in Tasks, InExchange(t)'
             PROVE  /\ cmd_buf'.range = call'[t].range /\ cmd_buf'.val = call'[t].val
                    /\ cmd_buf'.method = "set_pin" =>
                         /\ call'[t].user # 0 => cmd_buf'.user \in {call'[t].user, NoRow}
                         /\ cmd_buf'.pin \in {call'[t].pin, NoPin}
  BY DEF ArgumentsOfCall, InExchange
<1>1. Step(t) \/ RecvOldest(t) \/ HostUndisturbed(t)
  BY UnreliableHolder DEF InExchange, Critical
<1>2. CASE HostUndisturbed(t) \/ RecvOldest(t) \/ Send(t) \/ Recv(t)
  BY <1>2 DEF HostUndisturbed, RecvOldest, Send, Recv, ArgumentsOfCall, InExchange
<1>3. CASE Build(t)
  <2>1. PICK row \in PinRows(call[t]) :
          cmd_buf' = Packet(MethodOf(call[t].op), call[t], row, tper_session_id)
    BY <1>3 DEF Build
  <2>2. /\ cmd_buf'.method = MethodOf(call[t].op) /\ cmd_buf'.user = row
        /\ cmd_buf'.range = call[t].range /\ cmd_buf'.val = call[t].val
        /\ cmd_buf'.pin \in {call[t].pin, NoPin}
    BY <2>1 DEF Packet
  <2>3. call[t].op \in AllOperations \cup {"none"} /\ call' = call
    BY <1>3 DEF Build, TypeOK, Calls
  <2>4. MethodOf(call[t].op) = "set_pin" => call[t].op = "set_password"
    BY <2>3 DEF MethodOf, AllOperations, StartOps, MethodOps
  <2> QED
    BY <2>1, <2>2, <2>3, <2>4 DEF PinRows
<1>4. CASE FinishPsidSession(t) /\ SessionOpens(t)
  BY <1>4 DEF FinishPsidSession, Packet
<1> QED
  BY <1>1, <1>2, <1>3, <1>4, ExchangeStep

(* What the drive does when it accepts c; a power loss undoes a lock state  *)
(* only.                                                                    *)
Effect(c) ==
  /\ c.method = "set_lock" => cut \/ locked[c.range] = c.val
  /\ c.method = "activate" => active
  /\ c.method = "set_pin" =>
       c.user # NoRow /\ c.pin # NoPin /\ pin[c.user] = c.pin
  /\ c.method = "revert" => ~active /\ sessions = {}

(* If answer a says that a method succeeded, it was the one in cmd_buf, and *)
(* it is in effect; if it brings a row, it is the one asked for.            *)
TellsTruth(a) ==
  /\ a.kind \in AnswersTo(cmd_buf.method)
  /\ a.kind = "row" => cut \/ a.locked = locked[cmd_buf.range]
  /\ a.kind = "method" /\ a.status = OPAL_STATUS_SUCCESS =>
       executed /\ Effect(cmd_buf)

(* The strengthening of OkMeansDone and QueryReportsLock.  A drive that     *)
(* keeps late answers gives no such guarantee.                              *)
AnswersTrue ==
  mode # "queue" => \A t \in Tasks :
    /\ pc[t] = "recv" => TellsTruth(answer)
    /\ pc[t] = "finish" /\ ret[t] = OPAL_OK => TellsTruth(resp_buf)

(* The drive says of a command it got what became of it.                    *)
LEMMA DriveTellsTruth ==
  ASSUME TypeOK, DriveExecutes(cmd_buf), UNCHANGED cmd_buf,
         executed' = (answer'.kind = "method" /\ answer'.status = OPAL_STATUS_SUCCESS)
  PROVE  TellsTruth(answer)'
<1>1. answer'.kind \in AnswersTo(cmd_buf.method)
  BY DriveAnswers DEF TypeOK
<1>2. ASSUME answer'.kind = "method", answer'.status = OPAL_STATUS_SUCCESS
      PROVE  Effect(cmd_buf)'
  <2> USE DEF Effect, Answer, EmptyAnswer, DiscoveryAnswer, SyncAnswer, StatusAnswer,
              RowAnswer
  <2>1. CASE DriveSetsLock(cmd_buf)
    BY <2>1 DEF DriveSetsLock, TypeOK, Commands, DriveTypeOK
  <2>2. CASE DriveActivates(cmd_buf) \/ DriveReverts(cmd_buf)
    BY <2>2 DEF DriveActivates, DriveReverts
  <2>5. CASE DriveSetsPin(cmd_buf)
    <3>1. cmd_buf.user \in UserIds
      BY <2>5 DEF DriveSetsPin, TypeOK, Commands
    <3> QED
      BY <2>5, <3>1 DEF DriveSetsPin, TypeOK, DriveTypeOK
  <2>3. ~DriveDiscovers(cmd_buf) /\ ~DriveGrants(cmd_buf) /\ ~DriveEndsSession(cmd_buf)
        /\ ~DriveReadsRow(cmd_buf)
    BY <1>2 DEF DriveDiscovers, DriveGrants, DriveEndsSession, DriveReadsRow
  <2>4. ~DriveRefuses(cmd_buf)
    BY <1>2, DriveAssumption DEF DriveRefuses
  <2> QED
    BY <2>1, <2>2, <2>3, <2>4, <2>5 DEF DriveExecutes
<1>3. ASSUME answer'.kind = "row" PROVE answer'.locked = locked'[cmd_buf.range]
  <2> USE DEF Answer, EmptyAnswer, DiscoveryAnswer, SyncAnswer, StatusAnswer, RowAnswer
  <2>1. DriveReadsRow(cmd_buf)
    BY <1>3 DEF DriveExecutes, DriveDiscovers, DriveGrants, DriveEndsSession,
       DriveSetsLock, DriveActivates, DriveSetsPin, DriveReverts, DriveRefuses
  <2> QED
    BY <2>1 DEF DriveReadsRow
<1> QED
  BY <1>1, <1>2, <1>3 DEF TellsTruth

LEMMA NextTrue ==
  ASSUME TypeOK, LockDiscipline, AnswersTrue, [UnreliableNext]_unreliableVars
  PROVE  AnswersTrue'
<1> SUFFICES ASSUME mode' # "queue", NEW t \in Tasks
             PROVE  /\ pc'[t] = "recv" => TellsTruth(answer)'
                    /\ pc'[t] = "finish" /\ ret'[t] = OPAL_OK => TellsTruth(resp_buf)'
  BY DEF AnswersTrue
<1>0. mode # "queue"
  BY DEF UnreliableNext, CoreStep, SendUnreliable, RecvUnreliable, Reset, faultVars,
         unreliableVars
<1>1. EmptyAnswer.kind = "empty" /\ "empty" \in AnswersTo(cmd_buf.method)
  BY DEF EmptyAnswer, Answer, AnswersTo
<1>2. ASSUME pc'[t] = pc[t], ret'[t] = ret[t],
             UNCHANGED <<cmd_buf, resp_buf, driveVars, executed, cut>>
      PROVE  /\ pc'[t] = "recv" => TellsTruth(answer)'
             /\ pc'[t] = "finish" /\ ret'[t] = OPAL_OK => TellsTruth(resp_buf)'
  BY <1>0, <1>2 DEF AnswersTrue, TellsTruth, Effect, driveVars
<1>3. ASSUME NEW u \in Tasks, CoreStep(u), pc'[t] \in {"recv", "finish"}
      PROVE  /\ pc'[t] = pc[t] /\ ret'[t] = ret[t]
             /\ UNCHANGED <<cmd_buf, resp_buf, driveVars, executed, cut>>
  <2>1. ~Finish(u)
    BY <1>3, FinishEnds
  <2>2. /\ UNCHANGED <<resp_buf, driveVars, faultVars>>
        /\ pc'[t] = pc[t] /\ ret'[t] = ret[t]
        /\ UNCHANGED cmd_buf \/ pc[u] = "build"
    BY <1>3, <2>1, CoreQuiet
  <2>3. pc[u] # "build"
    BY <1>3, <2>2, Alone DEF Critical
  <2> QED
    BY <2>2, <2>3 DEF faultVars
<1>4. ASSUME NEW u \in Tasks, SendUnreliable(u), pc'[t] \in {"recv", "finish"}
      PROVE  /\ pc'[t] = "recv" => TellsTruth(answer)'
             /\ pc'[t] = "finish" /\ ret'[t] = OPAL_OK => TellsTruth(resp_buf)'
  <2>1. u = t
    <3>1. pc[u] = "send" /\ (u # t => pc'[t] = pc[t])
      BY <1>4 DEF SendUnreliable, Send, TypeOK
    <3> QED
      BY <1>4, <3>1, Alone DEF Critical
  <2>2. pc'[t] = "finish" => ret'[t] # OPAL_OK
    BY <1>4, <2>1 DEF SendUnreliable, Send, TypeOK, OPAL_OK, OPAL_ERR_TRANSPORT
  <2>3. pc'[t] = "recv" => DriveExecutes(cmd_buf)
    BY <1>4, <2>1 DEF SendUnreliable, Send, TypeOK
  <2>4. UNCHANGED cmd_buf
        /\ executed' = (answer'.kind = "method" /\ answer'.status = OPAL_STATUS_SUCCESS)
    BY <1>4 DEF SendUnreliable, Send
  <2> QED
    BY <2>2, <2>3, <2>4, DriveTellsTruth
<1>5. ASSUME NEW u \in Tasks, RecvUnreliable(u), pc'[t] \in {"recv", "finish"}
      PROVE  /\ pc'[t] = "recv" => TellsTruth(answer)'
             /\ pc'[t] = "finish" /\ ret'[t] = OPAL_OK => TellsTruth(resp_buf)'
  <2>1. Recv(u) /\ UNCHANGED <<executed, cut>>
    BY <1>0, <1>5 DEF RecvUnreliable
  <2>2. u = t
    <3>1. pc[u] = "recv" /\ (u # t => pc'[t] = pc[t])
      BY <2>1 DEF Recv, TypeOK
    <3> QED
      BY <1>5, <3>1, Alone DEF Critical
  <2>3. /\ pc[t] = "recv" /\ pc'[t] = "finish" /\ resp_buf' \in {answer, EmptyAnswer}
        /\ UNCHANGED <<cmd_buf, sessions, active, locked, pin>>
    BY <2>1, <2>2 DEF Recv, TypeOK
  <2>4. TellsTruth(answer)
    BY <1>0, <2>3 DEF AnswersTrue
  <2> QED
    BY <1>1, <2>1, <2>3, <2>4 DEF TellsTruth, Effect
<1>6. CASE Reset
  <2>1. /\ pc'[t] = pc[t] /\ ret'[t] = ret[t] /\ answer' = EmptyAnswer /\ cut'
        /\ sessions' = {} /\ UNCHANGED <<cmd_buf, resp_buf, executed, active, pin>>
    BY <1>6 DEF Reset, taskVars
  <2>2. Effect(cmd_buf) => Effect(cmd_buf)'
    BY <2>1 DEF Effect
  <2> QED
    BY <1>0, <1>1, <2>1, <2>2 DEF AnswersTrue, TellsTruth
<1>7. CASE UNCHANGED vars /\ UNCHANGED faultVars
  BY <1>2, <1>7 DEF vars, taskVars, faultVars
<1> QED
  BY <1>2, <1>3, <1>4, <1>5, <1>6, <1>7 DEF UnreliableNext, Done, unreliableVars

(* Where the drive puts the status list before ENDOFDATA, OPAL_OK of a      *)
(* method or of opal_revert_tper means that the drive did what this very    *)
(* call asked and that, but for a power loss, it still is so when the call  *)
(* returns, whatever the other tasks do.                                    *)
THEOREM OkIsDone ==
  ASSUME StatusBeforeEod PROVE UnreliableSpec => OkMeansDone
<1>1. UnreliableInit => CommandOfCall /\ ArgumentsOfCall /\ AnswersTrue
  BY DEF UnreliableInit, Init, CommandOfCall, ArgumentsOfCall, AnswersTrue, InExchange
<1>2. UnreliableTypeOK => TypeOK
  BY DEF UnreliableTypeOK
<1>3. TypeOK /\ LockDiscipline /\ AnswersTrue /\ [UnreliableNext]_unreliableVars
        => AnswersTrue'
  BY NextTrue
<1>4. TypeOK /\ CommandOfCall /\ ArgumentsOfCall /\ AnswersTrue
        /\ [UnreliableNext]_unreliableVars =>
        [\A t \in Tasks :
           mode # "queue" /\ Ends(t) /\ ret'[t] = OPAL_OK
             /\ call[t].op \in MethodOps \cup {"revert"} =>
           executed /\ InEffect(call[t])]_unreliableVars
  <2> SUFFICES ASSUME TypeOK, CommandOfCall, ArgumentsOfCall, AnswersTrue,
                      [UnreliableNext]_unreliableVars,
                      NEW t \in Tasks, mode # "queue", Ends(t), ret'[t] = OPAL_OK,
                      call[t].op \in MethodOps \cup {"revert"}
               PROVE  executed /\ InEffect(call[t])
    OBVIOUS
  <2>1. ~Decline(t)
    BY DEF Decline, NothingToEnd, Return, MethodOps, TypeOK, OPAL_OK, OPAL_ERR_PROTO,
           APPEND_FAILED
  <2>2. Finish(t) /\ \E code : Return(t, code)
    BY <2>1, UnreliableEnd
  <2>3. ~FinishPsidSession(t)
    <3>1. ASSUME FinishPsidSession(t) PROVE ~SessionOpens(t)
      BY <3>1 DEF FinishPsidSession, Ends, TypeOK
    <3> QED
      BY <3>1
      DEF FinishPsidSession, Return, FirstError, TypeOK, OPAL_OK, OPAL_ERR_PROTO
  <2>4. FinishMethod(t) \/ FinishRevert(t)
    BY <2>2, <2>3
    DEF Finish, FinishDiscover, FinishStart, FinishEnd, FinishQuery, Exchanged, StartOps,
        MethodOps
  <2>5. /\ pc[t] = "finish" /\ ret[t] = OPAL_OK /\ ParseStatus(resp_buf) = OPAL_OK
        /\ call[t].op = "revert" => cmd_buf.method = "revert"
    BY <2>4 DEF FinishMethod, FinishRevert, Exchanged, Return, FirstError, MethodOps, TypeOK
  <2>6. resp_buf.kind \notin {"empty", "disc"} /\ resp_buf.status = OPAL_STATUS_SUCCESS
    BY <2>5 DEF ParseStatus, StatusByte, CodeOfStatus, OPAL_OK, OPAL_ERR_PROTO,
       OPAL_ERR_AUTH, OPAL_ERR_PARAM
  <2>7. cmd_buf.method \in {"set_lock", "activate", "set_pin", "revert"}
        /\ (call[t].op \in {"set_lock", "activate"} => cmd_buf.method = call[t].op)
        /\ (call[t].op = "set_password" => cmd_buf.method = "set_pin")
    BY <2>5 DEF CommandOfCall, MethodOf, MethodOps, StartOps
  <2>8. TellsTruth(resp_buf)
    BY <2>5 DEF AnswersTrue
  <2>9. executed /\ Effect(cmd_buf)
    BY <2>6, <2>7, <2>8 DEF TellsTruth, AnswersTo
  <2> QED
    BY <2>5, <2>7, <2>9 DEF Effect, InEffect, ArgumentsOfCall, InExchange, MethodOps
<1> QED
  BY <1>1, <1>2, <1>3, <1>4, UnreliableMutex, NextUnreliableCommand, NextArguments, PTL
  DEF UnreliableSpec, OkMeansDone

(* opal_query_lock_state reads the lock bit of the range it was asked for,  *)
(* and whatever the other tasks do it still is that when the call returns;  *)
(* only a power loss in between makes it stale.                             *)
THEOREM QueriesReportLock == UnreliableSpec => QueryReportsLock
<1>1. UnreliableInit => ArgumentsOfCall /\ AnswersTrue
  BY DEF UnreliableInit, Init, ArgumentsOfCall, AnswersTrue, InExchange
<1>2. UnreliableTypeOK => TypeOK
  BY DEF UnreliableTypeOK
<1>3. TypeOK /\ LockDiscipline /\ AnswersTrue /\ [UnreliableNext]_unreliableVars
        => AnswersTrue'
  BY NextTrue
<1>4. TypeOK /\ ArgumentsOfCall /\ AnswersTrue /\ [UnreliableNext]_unreliableVars =>
        [\A t \in Tasks :
           /\ mode # "queue" /\ Ends(t) /\ ret'[t] = OPAL_OK
           /\ call[t].op = "query" /\ resp_buf.kind = "row"
           => cut \/ out'[t] = locked[call[t].range]]_unreliableVars
  <2> SUFFICES ASSUME TypeOK, ArgumentsOfCall, AnswersTrue,
                      [UnreliableNext]_unreliableVars,
                      NEW t \in Tasks, mode # "queue", Ends(t), ret'[t] = OPAL_OK,
                      call[t].op = "query", resp_buf.kind = "row"
               PROVE  cut \/ out'[t] = locked[call[t].range]
    OBVIOUS
  <2>1. ~Decline(t)
    BY DEF Decline, NothingToEnd, Return, TypeOK, OPAL_OK, OPAL_ERR_PROTO, APPEND_FAILED
  <2>2. FinishQuery(t)
    BY <2>1, UnreliableEnd
    DEF Finish, FinishDiscover, FinishStart, FinishEnd, FinishMethod, FinishPsidSession,
        FinishRevert, Exchanged, StartOps, MethodOps
  <2>3. pc[t] = "finish" /\ ret[t] = OPAL_OK /\ out'[t] = resp_buf.locked
    BY <2>2 DEF FinishQuery, Exchanged, Return, TypeOK
  <2>4. TellsTruth(resp_buf)
    BY <2>3 DEF AnswersTrue
  <2> QED
    BY <2>3, <2>4 DEF TellsTruth, ArgumentsOfCall, InExchange
<1> QED
  BY <1>1, <1>2, <1>3, <1>4, UnreliableMutex, NextArguments, PTL
  DEF UnreliableSpec, QueryReportsLock
=============================================================================
