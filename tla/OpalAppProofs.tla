---------------------------- MODULE OpalAppProofs ----------------------------
(***************************************************************************)
(* Theorems about the programs of OpalApp, on each of the three transports, *)
(* for any drive: whatever it refuses, whichever exchange fails and         *)
(* whichever allocation does.                                               *)
(***************************************************************************)
EXTENDS OpalApp, OpalCoreProofs

-----------------------------------------------------------------------------
(* Where a program is. *)

(* Before opal_dev_init has returned, and after opal_dev_destroy has. *)
Outside == {"create_task", "alloc", "mutex", "done", "halted"}

LabelsOf(a) ==
  CASE a = "main_task" -> Outside \cup {"discover", "start_admin", "activate", "end",
                                        "destroy"}
    [] a = "opal_task" -> Labels \ {"script"}
    [] OTHER           -> {"alloc", "mutex", "script", "destroy", "done"}

OpAt(l) == IF l = "destroy" THEN "destroy" ELSE CallAt(l).op

(* The program is inside a call only between creation and destruction, and  *)
(* then in the one its label stands for; a test counts its calls.           *)
RunInv ==
  /\ at \in LabelsOf(app)
  /\ pc[AppTask] # "idle" => at \notin Outside /\ call[AppTask].op = OpAt(at)
  /\ pc[AppTask] = "free" => at = "destroy"
  /\ at \in {"create_task", "alloc", "mutex"} => step = 1
  /\ at = "script" => step \in 1 .. Len(Script(app))
  /\ at = "script" /\ pc[AppTask] # "idle" => step <= calls[AppTask]
  /\ step <= calls[AppTask] + 1 /\ calls[AppTask] <= MaxCalls
  /\ app \in Tests <=> backend = "mock"

(* What is allocated goes with where the program is.                        *)
HeapInv ==
  /\ at \notin Outside => {"dev", "mutex"} \subseteq heap
  /\ at = "create_task" => heap = {}
  /\ at = "alloc" => heap \subseteq {"task"}
  /\ at = "mutex" => "dev" \in heap
  /\ at = "done" => heap \subseteq {"task"}
  /\ handle = "freed" => at = "done"

(* Between these the program holds no session open. *)
SessionLabels == {"activate", "end_activated", "end_failed", "lock", "unlock", "end"}

ClosedOutside == app \in FreeRtosApps /\ at \notin SessionLabels => ~session_open

(* The Security Provider of the session, from the command that asks for it  *)
(* to the methods that need it.                                             *)
OpensSp(o) == IF o = "start_locking" THEN "locking" ELSE "admin"

RightSp ==
  backend = "drive" =>
    /\ InExchange(AppTask) =>
         /\ cmd_buf.method = MethodOf(call[AppTask].op) /\ cmd_buf.tsn = tper_session_id
         /\ cmd_buf.sp = OpensSp(call[AppTask].op)
         /\ call[AppTask].op \in MethodOps => session_open
    /\ pc[AppTask] = "recv" /\ answer.kind = "sync" =>
         [tsn |-> answer.tsn, sp |-> cmd_buf.sp] \in sessions
    /\ pc[AppTask] = "finish" /\ SessionOpens(AppTask) =>
         [tsn |-> resp_buf.tsn, sp |-> cmd_buf.sp] \in sessions
    /\ session_open /\ at = "activate" =>
         [tsn |-> tper_session_id, sp |-> "admin"] \in sessions
    /\ session_open /\ at \in {"lock", "unlock"} =>
         [tsn |-> tper_session_id, sp |-> "locking"] \in sessions

-----------------------------------------------------------------------------
(* The calls the programs make. *)

(* A call as a test makes it. *)
Scripted ==
  [next : NextOps \cup {"keep"}, call : {c \in Calls : c.op \notin {"none", "destroy"}},
   expect : {"ok", "fails", "any"}]

(* Every test makes well-formed calls only, and leaves opal_dev_destroy to  *)
(* the end.                                                                 *)
LEMMA ScriptType ==
  ASSUME {0, 1} \subseteq UserIds \cap RangeIds, NEW a \in Tests
  PROVE  Script(a) \in Seq(Scripted)
<1> DEFINE Proper == {c \in Calls : c.op \notin {"none", "destroy"}}
<1>1. /\ \A op \in AllOperations \ {"destroy"} : Plain(op) \in Proper
      /\ \A op \in AllOperations \ {"destroy"}, p \in PinArgs : WithPin(op, p) \in Proper
      /\ \A op \in AllOperations \ {"destroy"}, u \in {0, 1}, p \in PinArgs :
           AsUser(op, u, p) \in Proper
      /\ \A r \in {0, 1}, v \in BOOLEAN : LockRange(r, v) \in Proper
  <2>1. NoCall \in Calls /\ NoCall.op = "none"
    BY RequestType DEF NoCall
  <2>2. ASSUME NEW op \in AllOperations \ {"destroy"}, NEW p \in PinArgs
        PROVE  WithPin(op, p) \in Proper /\ Plain(op) \in Proper
    BY <2>1 DEF Plain, WithPin, Calls, AllOperations, StartOps, MethodOps
  <2>3. NoPin \in PinArgs
    BY DEF PinArgs
  <2>4. ASSUME NEW op \in AllOperations \ {"destroy"}, NEW u \in {0, 1}, NEW p \in PinArgs
        PROVE  AsUser(op, u, p) \in Proper
    BY <2>2 DEF AsUser, Calls
  <2>5. ASSUME NEW r \in {0, 1}, NEW v \in BOOLEAN PROVE LockRange(r, v) \in Proper
    BY <2>1 DEF LockRange, Calls, AllOperations, StartOps, MethodOps
  <2> QED
    BY <2>2, <2>3, <2>4, <2>5
<1>2. {TEST_PIN, TEST_NEW_PIN, TEST_PSID, long_pin, NoPin} \subseteq PinArgs
  BY TestsAssumption DEF PinArgs
<1>3. {"discover", "end_session", "start_admin", "start_locking", "activate", "revert",
       "set_password", "set_lock"} \subseteq AllOperations \ {"destroy"}
  BY DEF AllOperations, StartOps, MethodOps
<1> HIDE DEF Proper
<1>4. \A n \in NextOps \cup {"keep"}, c \in Proper, e \in {"ok", "fails", "any"} :
        TestCall(n, c, e) \in Scripted
  BY DEF TestCall, Scripted, Proper
<1>5. {Discover, DiscoverOk, EndSession, OpenAdmin("any"), OpenAdmin("ok"),
       OpenLocking(0), OpenLocking(1)} \subseteq Scripted
  BY <1>1, <1>2, <1>3, <1>4
  DEF Discover, DiscoverOk, EndSession, OpenAdmin, OpenLocking, NextOps
<1>6. \A c \in Proper : Succeeds(c) \in Scripted /\ Rejected(c) \in Scripted
  BY <1>4 DEF Succeeds, Rejected, NextOps
<1>7. NewPin(0) \in Proper /\ NewPin(1) \in Proper
  BY <1>1, <1>2, <1>3 DEF NewPin
<1> DEFINE Lock0    == Succeeds(LockRange(0, TRUE))
           Unlock0  == Succeeds(LockRange(0, FALSE))
           Lock1    == Succeeds(LockRange(1, TRUE))
           NoLock0  == Rejected(LockRange(0, TRUE))
<1>8. {Lock0, Unlock0, Lock1, NoLock0} \subseteq Scripted
  BY <1>1, <1>6
<1>9. test_sessions \in Seq(Scripted)
  BY <1>1, <1>2, <1>3, <1>4, <1>5, <1>6 DEF test_sessions, NextOps
<1>10. test_lock_unlock \in Seq(Scripted)
  <2>1. test_lock_unlock = <<Discover, OpenAdmin("any"), Lock0, Unlock0, Lock1,
                             EndSession, NoLock0>>
    BY Zenon DEF test_lock_unlock
  <2> HIDE DEF Lock0, Unlock0, Lock1, NoLock0
  <2> QED
    BY <1>5, <1>8, <2>1
<1>11. test_set_password \in Seq(Scripted)
  BY <1>1, <1>2, <1>3, <1>5, <1>6, <1>7 DEF test_set_password
<1>12. test_activate \in Seq(Scripted) /\ test_locking_session \in Seq(Scripted)
       /\ test_lifecycle \in Seq(Scripted) /\ test_discovery \in Seq(Scripted)
  BY <1>1, <1>3, <1>5, <1>6
  DEF test_activate, test_locking_session, test_lifecycle, test_discovery
<1>13. test_revert \in Seq(Scripted)
  BY <1>1, <1>2, <1>3, <1>4, <1>5, <1>6 DEF test_revert, NextOps
<1>14. test_full_workflow \in Seq(Scripted)
  <2>1. test_full_workflow =
          <<DiscoverOk, OpenAdmin("ok"), Succeeds(Plain("activate")),
            Succeeds(Plain("end_session")), OpenLocking(0), Lock0, Unlock0,
            Succeeds(NewPin(0)), Succeeds(Plain("end_session"))>>
    BY Zenon DEF test_full_workflow
  <2> HIDE DEF Lock0, Unlock0, Lock1, NoLock0
  <2> QED
    BY <1>1, <1>3, <1>5, <1>6, <1>7, <1>8, <2>1
<1> QED
  <2>1. {test_lifecycle, test_discovery, test_sessions, test_locking_session,
         test_lock_unlock, test_set_password, test_activate, test_revert,
         test_full_workflow} \subseteq Seq(Scripted)
    BY <1>9, <1>10, <1>11, <1>12, <1>13, <1>14
  <2>2. Script(a) \in {test_lifecycle, test_discovery, test_sessions,
         test_locking_session, test_lock_unlock, test_set_password, test_activate,
         test_revert, test_full_workflow}
    BY DEF Script, Tests
  <2> QED
    BY <2>1, <2>2

LEMMA CallAtType ==
  ASSUME app \in Apps, RunInv, at \notin Outside, at # "destroy"
  PROVE  CallAt(at) \in Calls /\ CallAt(at).op \notin {"none", "destroy"}
<1>1. CASE at = "script"
  <2>1. app \in Tests /\ step \in 1 .. Len(Script(app))
    BY <1>1, AppAssumption DEF RunInv, LabelsOf, FreeRtosApps, Outside, Labels
  <2>2. Script(app) \in Seq(Scripted)
    BY <2>1, ScriptType, AppAssumption
  <2>3. Script(app)[step] \in Scripted
    BY <2>1, <2>2
  <2> QED
    BY <1>1, <2>3 DEF CallAt, Scripted
<1>2. CASE at # "script"
  <2>1. NoCall \in Calls /\ {NoPin, InitialPin} \subseteq PinArgs
    BY RequestType, DriveAssumption DEF PinArgs
  <2> QED
    BY <1>2, <2>1 DEF CallAt, Calls, AllOperations, StartOps, MethodOps
<1> QED
  BY <1>1, <1>2

-----------------------------------------------------------------------------
(* Types. *)

LEMMA TheTask == AppTask \in Tasks /\ Tasks = {AppTask}
BY AppAssumption

(* Whichever transport answers, the core's variables keep their types.      *)
LEMMA StepType ==
  ASSUME TypeOK, StubTypeOK, RunInv, app \in Apps, AppStep(AppTask)
  PROVE  TypeOK' /\ StubTypeOK'
<1>1. CASE Calling(AppTask)
  <2>1. TypeOK'
    <3>1. CASE at = "destroy"
      BY <1>1, <3>1, NextType, TheTask DEF Calling, Next
    <3>2. CASE at # "destroy"
      BY <1>1, <3>2, CallWithType, CallAtType, TheTask DEF Calling, Outside
    <3> QED
      BY <3>1, <3>2
  <2>2. StubTypeOK'
    <3>1. CASE at = "script" /\ Script(app)[step].next # "keep"
      <4>1. app \in Tests /\ step \in 1 .. Len(Script(app))
        BY <3>1, AppAssumption DEF RunInv, LabelsOf, FreeRtosApps, Outside, Labels
      <4>2. Script(app) \in Seq(Scripted)
        BY <4>1, ScriptType, AppAssumption
      <4>3. Script(app)[step] \in Scripted
        BY <4>1, <4>2
      <4> QED
        BY <1>1, <3>1, <4>3 DEF Calling, Scripted, StubTypeOK
    <3>2. CASE ~(at = "script" /\ Script(app)[step].next # "keep")
      BY <1>1, <3>2 DEF Calling, StubTypeOK
    <3> QED
      BY <3>1, <3>2
  <2> QED
    BY <2>1, <2>2
<1>2. CASE Inside(AppTask)
  BY <1>2, NextType, TheTask DEF Inside, Next, Step, StubTypeOK
<1>3. CASE StubSends(AppTask)
  BY <1>3, TheTask
  DEF StubSends, HwSend, MockSend, StubTypeOK, NextOps, TypeOK, PcStates, DriveTypeOK,
      discoveryVars, sessionVars, driveVars
<1>4. CASE StubReceives(AppTask)
  <2>1. StubAnswer \in Answers
    BY DEF StubAnswer, DiscoveryAnswer, SyncAnswer, StatusAnswer, Answer, Answers, Kinds,
           StubComId, StubTsn, OPAL_STATUS_SUCCESS
  <2> QED
    BY <1>4, <2>1, TheTask
    DEF StubReceives, StubRecv, StubTypeOK, NextOps, TypeOK, PcStates, DriveTypeOK,
        discoveryVars, sessionVars, driveVars
<1>5. CASE (Send(AppTask) \/ Recv(AppTask)) /\ UNCHANGED next_op
  BY <1>5, NextType, TheTask DEF Next, Step, StubTypeOK
<1> QED
  BY <1>1, <1>2, <1>3, <1>4, <1>5 DEF AppStep, Exchange

(* What a step inside a call does to the program: it goes on, or it leaves  *)
(* the mutex, from opal_dev_destroy towards the free, or it frees.          *)
LEMMA InsideShape ==
  ASSUME TypeOK, Inside(AppTask) \/ Exchange(AppTask)
  PROVE  /\ pc[AppTask] # "idle" /\ UNCHANGED calls
         /\ \/ /\ pc[AppTask] # "free" /\ pc'[AppTask] \notin {"idle", "free"}
               /\ UNCHANGED <<call, handle>>
            \/ /\ pc[AppTask] # "free" /\ call[AppTask].op = "destroy"
               /\ pc'[AppTask] = "free" /\ UNCHANGED <<call, handle>>
            \/ /\ pc[AppTask] # "free" /\ call[AppTask].op # "destroy"
               /\ pc'[AppTask] = "idle" /\ UNCHANGED handle
            \/ pc[AppTask] = "free" /\ pc'[AppTask] = "idle" /\ handle' = "freed"
<1> USE TheTask
<1>1. CASE Acquire(AppTask) \/ Build(AppTask) \/ Send(AppTask) \/ Recv(AppTask)
           \/ StubSends(AppTask) \/ StubReceives(AppTask)
  BY <1>1 DEF Acquire, Build, Send, Recv, StubSends, StubReceives, TypeOK
<1>2. CASE Free(AppTask)
  BY <1>2 DEF Free, TypeOK
<1>3. CASE Decline(AppTask) \/ Finish(AppTask)
  BY <1>3 DEF Decline, Finish, FinishDiscover, FinishStart, FinishEnd, FinishMethod,
     FinishQuery, FinishPsidSession, FinishRevert, Exchanged, Return, TypeOK
<1> QED
  BY <1>1, <1>2, <1>3 DEF Inside, Exchange

(* A call is turned away, or it begins.                                     *)
LEMMA CallingShape ==
  ASSUME TypeOK, Calling(AppTask)
  PROVE  /\ pc[AppTask] = "idle" /\ at \notin Outside /\ handle = "live"
         /\ UNCHANGED <<sessionVars, driveVars, answer>>
         /\ \/ /\ at = "destroy" /\ pc'[AppTask] \in {"lock", "free"}
               /\ call'[AppTask].op = "destroy" /\ handle' = "closing"
               /\ UNCHANGED calls
            \/ /\ at # "destroy" /\ pc'[AppTask] = "lock"
               /\ call'[AppTask] = CallAt(at) /\ UNCHANGED handle
               /\ calls[AppTask] < MaxCalls /\ calls'[AppTask] = calls[AppTask] + 1
            \/ /\ at # "destroy" /\ pc'[AppTask] = "idle" /\ UNCHANGED handle
               /\ ret'[AppTask] = EarlyCode(CallAt(at)) /\ ret'[AppTask] # OPAL_OK
               /\ calls[AppTask] < MaxCalls /\ calls'[AppTask] = calls[AppTask] + 1
<1> USE TheTask
<1>1. CASE at = "destroy"
  BY <1>1 DEF Calling, CallDestroy, DestroyCall, NoCall, Outside, driveVars, TypeOK
<1>2. CASE at # "destroy"
  BY <1>2 DEF Calling, CallWith, Outside, driveVars, TypeOK
<1> QED
  BY <1>1, <1>2

(* Where the program goes next is among its labels, and it ends only after  *)
(* opal_dev_destroy.                                                        *)
LEMMA AfterLabel ==
  ASSUME app \in Apps, at \in LabelsOf(app), at \notin Outside, NEW r,
         at = "script" => step \in 1 .. Len(Script(app))
  PROVE  /\ After(at, r) \in LabelsOf(app)
         /\ After(at, r) \notin Outside \ {"done"}
         /\ After(at, r) = "done" <=> at = "destroy"
         /\ After(at, r) = "script" => at = "script" /\ step # Len(Script(app))
<1>1. CASE app = "main_task"
  BY <1>1 DEF After, MainTaskAfter, LabelsOf, Outside
<1>2. CASE app = "opal_task"
  BY <1>2 DEF After, OpalTaskAfter, LabelsOf, Outside, Labels
<1>3. CASE app \notin FreeRtosApps
  BY <1>3 DEF After, TestAfter, LabelsOf, Outside, FreeRtosApps
<1> QED
  BY <1>1, <1>2, <1>3 DEF FreeRtosApps

LEMMA ScriptLength ==
  ASSUME app \in Apps, at \in LabelsOf(app), at = "script" \/ app \notin FreeRtosApps
  PROVE  Len(Script(app)) \in Nat /\ app \in Tests
<1>1. app \in Tests
  BY AppAssumption DEF LabelsOf, FreeRtosApps, Outside, Labels
<1>2. Script(app) \in Seq(Scripted)
  BY <1>1, ScriptType, AppAssumption
<1> QED
  BY <1>1, <1>2

AppTyped == AppTypeOK /\ RunInv /\ HeapInv

LEMMA InitTyped == AppInit => AppTyped
<1> SUFFICES ASSUME AppInit PROVE AppTyped
  OBVIOUS
<1>1. AppTypeOK
  BY InitType, CoreAssumption
  DEF AppInit, AppTypeOK, StubInit, StubTypeOK, NextOps, Labels
<1>2. RunInv
  BY TheTask, CoreAssumption, AppAssumption
  DEF AppInit, Init, RunInv, LabelsOf, Outside, FreeRtosApps, Labels, Tests
<1>3. HeapInv
  BY DEF AppInit, Init, HeapInv, Outside
<1> QED
  BY <1>1, <1>2, <1>3 DEF AppTyped

(* Creation.                                                                *)
LEMMA CreatingTyped ==
  ASSUME AppTyped, Creating
  PROVE  AppTyped'
<1> USE DEF AppTyped
<1>0. /\ TypeOK' /\ StubTypeOK' /\ app' = app /\ backend' = backend /\ step' = step
      /\ pc' = pc /\ call' = call /\ calls' = calls /\ handle' = handle
  BY DEF Creating, AppTypeOK, TypeOK, StubTypeOK, DriveTypeOK, vars, discoveryVars,
         sessionVars, taskVars, driveVars
<1>1. pc[AppTask] = "idle" /\ at \in {"create_task", "alloc", "mutex"}
  BY DEF Creating, xTaskCreate, AllocDev, CreateMutex, RunInv, Outside
<1>2. CASE OutOfMemory
  <2>1. at' \in LabelsOf(app) \cap {"halted", "done"} /\ (app \notin FreeRtosApps => heap' = {})
        /\ (app \in FreeRtosApps => at' = "halted" /\ UNCHANGED heap)
    BY <1>2 DEF OutOfMemory, LabelsOf, Outside, FreeRtosApps, Labels
  <2> QED
    BY <1>0, <1>1, <2>1
    DEF AppTypeOK, RunInv, HeapInv, Outside, Labels, LabelsOf
<1>3. CASE xTaskCreate /\ heap' = {"task"} /\ at' = "alloc"
  BY <1>0, <1>1, <1>3
  DEF xTaskCreate, AppTypeOK, RunInv, HeapInv, Outside, Labels, LabelsOf
<1>4. CASE AllocDev /\ heap' = heap \cup {"dev"} /\ at' = "mutex"
  BY <1>0, <1>1, <1>4
  DEF AllocDev, AppTypeOK, RunInv, HeapInv, Outside, Labels, LabelsOf
<1>5. CASE CreateMutex /\ heap' = heap \cup {"mutex"} /\ at' = FirstLabel
  <2>1. FirstLabel \in LabelsOf(app) \cap {"discover", "destroy", "script"}
        /\ (FirstLabel = "script" => app \notin FreeRtosApps /\ Script(app) # <<>>)
    BY DEF FirstLabel, LabelsOf, Outside, FreeRtosApps, Labels
  <2>2. FirstLabel = "script" => 1 \in 1 .. Len(Script(app))
    <3>1. app \notin FreeRtosApps => Script(app) \in Seq(Scripted)
      BY ScriptType, AppAssumption DEF AppTypeOK
    <3> QED
      BY <2>1, <3>1
  <2> QED
    BY <1>0, <1>1, <1>5, <2>1, <2>2
    DEF CreateMutex, AppTypeOK, RunInv, HeapInv, Outside, Labels
<1> QED
  BY <1>2, <1>3, <1>4, <1>5 DEF Creating, xTaskCreate, AllocDev, CreateMutex

(* The steps of the task.                                                   *)
LEMMA AppStepTyped ==
  ASSUME AppTyped, AppStep(AppTask)
  PROVE  AppTyped'
<1> USE DEF AppTyped
<1>0. /\ app \in Apps /\ TypeOK /\ TypeOK' /\ StubTypeOK' /\ app' = app /\ backend' = backend
      /\ at \in LabelsOf(app) /\ at' = IF pc'[AppTask] = "idle" THEN After(at, ret'[AppTask]) ELSE at
      /\ step' = IF pc'[AppTask] = "idle" /\ at = "script" THEN step + 1 ELSE step
      /\ heap' = IF handle' = "freed" THEN heap \ {"dev", "mutex"} ELSE heap
      /\ step \in Nat /\ step > 0 /\ calls[AppTask] \in Nat /\ MaxCalls \in Nat
  BY StepType, TheTask, CoreAssumption DEF AppStep, AppTypeOK, RunInv, TypeOK
<1>1. LabelsOf(app) \subseteq Labels
  BY DEF LabelsOf, Labels, Outside
<1>2. at \notin Outside => CallAt(at)' = CallAt(at) \/ pc'[AppTask] = "idle"
  BY <1>0 DEF CallAt
<1>3. at = "script" => Len(Script(app)) \in Nat
  BY <1>0, ScriptLength
<1>4. ASSUME at \notin Outside
      PROVE  /\ After(at, ret'[AppTask]) \in LabelsOf(app)
             /\ After(at, ret'[AppTask]) \notin Outside \ {"done"}
             /\ After(at, ret'[AppTask]) = "done" <=> at = "destroy"
             /\ After(at, ret'[AppTask]) = "script" => at = "script" /\ step # Len(Script(app))
  BY <1>0, <1>4, AfterLabel DEF RunInv
<1>5. CASE Calling(AppTask)
  <2>1. CASE pc'[AppTask] = "idle"
    <3>1. /\ at # "destroy" /\ at \notin Outside /\ at' = After(at, ret'[AppTask])
          /\ handle' = "live" /\ handle = "live" /\ heap' = heap
          /\ calls[AppTask] < MaxCalls /\ calls'[AppTask] = calls[AppTask] + 1
      BY <1>0, <1>5, <2>1, CallingShape
    <3>2. /\ at' \in LabelsOf(app) /\ at' \notin Outside
          /\ at' = "script" => at = "script" /\ step # Len(Script(app))
      BY <1>4, <3>1 DEF Outside
    <3>3. RunInv'
      BY <1>0, <1>3, <2>1, <3>1, <3>2 DEF RunInv, Outside
    <3>4. HeapInv'
      BY <3>1, <3>2 DEF HeapInv, Outside
    <3>5. AppTypeOK'
      BY <1>0, <1>1, <3>1, <3>2 DEF AppTypeOK, RunInv
    <3> QED
      BY <3>3, <3>4, <3>5
  <2>2. CASE pc'[AppTask] # "idle"
    BY <1>0, <1>1, <1>2, <1>5, <2>2, CallingShape
    DEF AppTypeOK, RunInv, HeapInv, Outside, OpAt
  <2> QED
    BY <2>1, <2>2
<1>6. CASE Inside(AppTask) \/ Exchange(AppTask)
  <2>0. pc[AppTask] # "idle" /\ at \notin Outside /\ UNCHANGED calls
    BY <1>0, <1>6, InsideShape DEF RunInv
  <2>1. CASE pc'[AppTask] = "idle" /\ handle' = "freed" /\ pc[AppTask] = "free"
    BY <1>0, <1>1, <1>3, <1>4, <2>0, <2>1
    DEF AppTypeOK, RunInv, HeapInv, Outside
  <2>2. CASE pc'[AppTask] = "idle" /\ UNCHANGED handle /\ call[AppTask].op # "destroy"
    <3>1. at # "destroy"
      BY <2>0, <2>2 DEF RunInv, OpAt
    <3> QED
      BY <1>0, <1>1, <1>3, <1>4, <2>0, <2>2, <3>1
      DEF AppTypeOK, RunInv, HeapInv, Outside
  <2>3. CASE /\ pc'[AppTask] # "idle" /\ UNCHANGED <<call, handle>>
             /\ pc'[AppTask] = "free" => call[AppTask].op = "destroy"
    <3>1. pc'[AppTask] = "free" => at = "destroy"
      BY <1>0, <2>0, <2>3, CallAtType DEF RunInv, OpAt
    <3> QED
      BY <1>0, <1>1, <1>2, <2>0, <2>3, <3>1
      DEF AppTypeOK, RunInv, HeapInv, Outside, OpAt
  <2> QED
    BY <1>0, <1>6, <2>1, <2>2, <2>3, InsideShape
<1> QED
  BY <1>5, <1>6 DEF AppStep

LEMMA NextTyped == AppTyped /\ [AppNext]_appVars => AppTyped'
<1> SUFFICES ASSUME AppTyped, [AppNext]_appVars PROVE AppTyped'
  OBVIOUS
<1>1. CASE IdleTaskFrees
  BY <1>1
  DEF IdleTaskFrees, AppTyped, AppTypeOK, TypeOK, StubTypeOK, DriveTypeOK, RunInv, HeapInv,
      Outside, OpAt, CallAt, vars, discoveryVars, sessionVars, taskVars, driveVars
<1>2. CASE UNCHANGED appVars
  BY <1>2
  DEF appVars, AppTyped, AppTypeOK, TypeOK, StubTypeOK, DriveTypeOK, RunInv, HeapInv,
      Outside, OpAt, CallAt, vars, discoveryVars, sessionVars, taskVars, driveVars
<1> QED
  BY <1>1, <1>2, CreatingTyped, AppStepTyped DEF AppNext, AppProgress, AppDone

(* Every variable of the program, its transport and the core keeps its      *)
(* type, and the tests stay within the calls allowed.                       *)
THEOREM AppTypeCorrect == AppSpec => []AppTypeOK
<1>1. AppTyped => AppTypeOK
  BY DEF AppTyped
<1> QED
  BY <1>1, InitTyped, NextTyped, PTL DEF AppSpec

(* No call runs without a context and a mutex, whichever allocation fails,  *)
(* and at the end of the program both are given back.                       *)
THEOREM HeapFollowsContext == AppSpec => []HeapMatchesContext
<1>1. AppTyped => HeapMatchesContext
  BY DEF AppTyped, RunInv, HeapInv, HeapMatchesContext
<1> QED
  BY <1>1, InitTyped, NextTyped, PTL DEF AppSpec

-----------------------------------------------------------------------------
(* Sessions. *)

(* What a step inside a call does to the session, but for a revert: a start *)
(* that returns OPAL_OK opens one, an end leaves none.                      *)
LEMMA SessionMove ==
  ASSUME TypeOK, Inside(AppTask) \/ Exchange(AppTask), call[AppTask].op # "revert"
  PROVE  /\ \/ UNCHANGED sessionVars
            \/ /\ call[AppTask].op \in {"end_session", "destroy"}
               /\ pc'[AppTask] \in {"idle", "free"} /\ ~session_open'
            \/ /\ call[AppTask].op \in StartOps /\ FinishStart(AppTask)
               /\ SessionOpens(AppTask) /\ tper_session_id' = resp_buf.tsn
               /\ pc'[AppTask] = "idle" /\ ret'[AppTask] = OPAL_OK
         /\ call[AppTask].op = "end_session" /\ pc'[AppTask] = "idle"
               /\ pc[AppTask] # "free" => ~session_open'
<1> USE TheTask
<1>1. CASE \/ Acquire(AppTask) \/ Build(AppTask) \/ Send(AppTask) \/ Recv(AppTask)
           \/ StubSends(AppTask) \/ StubReceives(AppTask) \/ Free(AppTask)
  BY <1>1 DEF Acquire, Build, Send, Recv, StubSends, StubReceives, Free, TypeOK
<1>2. CASE Decline(AppTask)
  BY <1>2
  DEF Decline, WrongState, NothingToEnd, TooLong, StartOps, MethodOps, Return, sessionVars,
      TypeOK
<1>3. CASE FinishStart(AppTask)
  BY <1>3
  DEF FinishStart, Exchanged, AdoptSession, Return, StartOps, sessionVars, TypeOK
<1>4. CASE FinishEnd(AppTask)
  BY <1>4 DEF FinishEnd, Exchanged, ForgetSession, Return, TypeOK
<1>5. CASE FinishDiscover(AppTask) \/ FinishMethod(AppTask) \/ FinishQuery(AppTask)
  BY <1>5 DEF FinishDiscover, FinishMethod, FinishQuery, Exchanged, MethodOps
<1>6. ~FinishPsidSession(AppTask) /\ ~FinishRevert(AppTask)
  BY DEF FinishPsidSession, FinishRevert, Exchanged
<1> QED
  BY <1>1, <1>2, <1>3, <1>4, <1>5, <1>6 DEF Inside, Exchange, Finish

(* The operations of the FreeRTOS programs.                                 *)
LEMMA FreeRtosOps ==
  ASSUME app \in FreeRtosApps, RunInv, at \notin Outside
  PROVE  OpAt(at) = CASE at = "discover"      -> "discover"
                      [] at = "start_admin"   -> "start_admin"
                      [] at = "start_locking" -> "start_locking"
                      [] at = "activate"      -> "activate"
                      [] at \in {"lock", "unlock"} -> "set_lock"
                      [] at = "destroy"       -> "destroy"
                      [] OTHER                -> "end_session"
BY DEF FreeRtosApps, RunInv, LabelsOf, Labels, Outside, OpAt, CallAt, NoCall

LEMMA NextClosed == AppTyped /\ ClosedOutside /\ [AppNext]_appVars => ClosedOutside'
<1> SUFFICES ASSUME AppTyped, ClosedOutside, [AppNext]_appVars,
                    app' \in FreeRtosApps, at' \notin SessionLabels, session_open'
             PROVE  FALSE
  BY DEF ClosedOutside, AppTyped, AppTypeOK, TypeOK
<1>1. TypeOK /\ RunInv /\ app' = app /\ app \in FreeRtosApps
  BY DEF AppTyped, AppTypeOK, AppNext, AppProgress, AppDone, Creating, AppStep,
         IdleTaskFrees, appVars
<1>2. CASE Creating
  BY <1>1, <1>2
  DEF Creating, xTaskCreate, AllocDev, CreateMutex, ClosedOutside, SessionLabels, vars,
      sessionVars
<1>3. CASE IdleTaskFrees \/ UNCHANGED appVars
  BY <1>1, <1>3 DEF IdleTaskFrees, ClosedOutside, appVars, vars, sessionVars
<1>4. CASE AppStep(AppTask)
  <2>0. at' = IF pc'[AppTask] = "idle" THEN After(at, ret'[AppTask]) ELSE at
    BY <1>4 DEF AppStep
  <2>1. CASE Calling(AppTask)
    <3>1. session_open /\ at \notin Outside /\ at \in SessionLabels
      BY <1>1, <2>1, CallingShape DEF ClosedOutside, sessionVars, Outside, SessionLabels,
         AppTyped, HeapInv
    <3>2. CallAt(at).op \in {"activate", "set_lock", "end_session"}
      BY <1>1, <3>1, FreeRtosOps DEF SessionLabels, OpAt
    <3>3. EarlyCode(CallAt(at)) = OPAL_OK
      BY <3>2 DEF EarlyCode, StartOps
    <3> QED
      BY <1>1, <2>0, <2>1, <3>1, <3>3, CallingShape DEF SessionLabels
  <2>2. CASE Inside(AppTask) \/ Exchange(AppTask)
    <3>1. pc[AppTask] # "idle" /\ at \notin Outside /\ call[AppTask].op = OpAt(at)
      BY <1>1, <2>2, InsideShape DEF RunInv
    <3>2. call[AppTask].op # "revert"
      BY <1>1, <3>1, FreeRtosOps
    <3>3. CASE at \in {"end", "end_activated", "end_failed"}
      BY <1>1, <2>0, <2>2, <3>1, <3>2, <3>3, SessionMove, FreeRtosOps
      DEF SessionLabels, RunInv
    <3>4. CASE at \in {"activate", "lock", "unlock"}
      BY <1>1, <2>0, <3>4
      DEF SessionLabels, After, MainTaskAfter, OpalTaskAfter, FreeRtosApps, RunInv, LabelsOf,
          Outside
    <3>5. CASE at \in {"discover", "destroy"}
      BY <1>1, <2>2, <3>1, <3>2, <3>5, SessionMove, FreeRtosOps
      DEF SessionLabels, ClosedOutside, StartOps, sessionVars
    <3>6. CASE at \in {"start_admin", "start_locking"}
      <4>1. pc'[AppTask] = "idle" /\ ret'[AppTask] = OPAL_OK
        BY <1>1, <2>2, <3>1, <3>2, <3>6, SessionMove, FreeRtosOps
        DEF SessionLabels, ClosedOutside, sessionVars
      <4> QED
        BY <1>1, <2>0, <3>6, <4>1
        DEF SessionLabels, After, MainTaskAfter, OpalTaskAfter, FreeRtosApps, RunInv,
            LabelsOf, Outside
    <3> QED
      BY <1>1, <3>1, <3>3, <3>4, <3>5, <3>6
      DEF FreeRtosApps, RunInv, LabelsOf, Labels, Outside
  <2> QED
    BY <1>4, <2>1, <2>2 DEF AppStep
<1> QED
  BY <1>2, <1>3, <1>4 DEF AppNext, AppProgress, AppDone

(* Neither FreeRTOS program ever opens a session on top of an open one or   *)
(* leaves one for opal_dev_destroy to end, whichever call failed on its way *)
(* and whatever the transport made of the failure.                          *)
THEOREM AppsEndTheirSessions == AppSpec => []AppNeverDropsSession
<1>1. AppInit => ClosedOutside
  BY DEF AppInit, Init, ClosedOutside
<1>2. ClosedOutside => AppNeverDropsSession
  BY DEF ClosedOutside, AppNeverDropsSession, SessionLabels
<1> QED
  BY <1>1, <1>2, InitTyped, NextTyped, NextClosed, PTL DEF AppSpec

-----------------------------------------------------------------------------
(* Security Providers. *)

(* What the drive does with a command: it grants the Security Provider that *)
(* was asked for, and only an end of session takes one away.                *)
LEMMA DriveSps ==
  ASSUME TypeOK, NEW c \in Commands, c.method # "revert", DriveExecutes(c)
  PROVE  /\ answer'.kind = "sync" => [tsn |-> answer'.tsn, sp |-> c.sp] \in sessions'
         /\ c.method # "end_session" => sessions \subseteq sessions'
<1> USE DEF Answer, EmptyAnswer, DiscoveryAnswer, SyncAnswer, StatusAnswer, RowAnswer
<1>1. CASE DriveGrants(c)
  BY <1>1 DEF DriveGrants
<1>2. CASE DriveEndsSession(c)
  BY <1>2 DEF DriveEndsSession
<1>3. CASE \/ DriveDiscovers(c) \/ DriveSetsLock(c) \/ DriveActivates(c)
           \/ DriveSetsPin(c) \/ DriveReadsRow(c) \/ DriveRefuses(c)
  BY <1>3 DEF DriveDiscovers, DriveSetsLock, DriveActivates, DriveSetsPin, DriveReadsRow,
     DriveRefuses
<1> QED
  BY <1>1, <1>2, <1>3 DEF DriveExecutes, DriveReverts

(* The labels at which RightSp says something of the session. *)
MethodLabels == {"activate", "lock", "unlock"}

LEMMA NextRightSp ==
  AppTyped /\ ClosedOutside /\ RightSp /\ [AppNext]_appVars => RightSp'
<1> SUFFICES ASSUME AppTyped, ClosedOutside, RightSp, [AppNext]_appVars,
                    backend' = "drive"
             PROVE  RightSp'
  BY DEF RightSp
<1>0. TypeOK /\ RunInv /\ app' = app /\ backend = "drive" /\ app \in FreeRtosApps
      /\ AppTask \in Tasks
  BY TheTask, AppAssumption
  DEF AppTyped, AppTypeOK, RunInv, Tests, AppNext, AppProgress, AppDone, Creating, AppStep,
      IdleTaskFrees, appVars
<1>1. CASE Creating
  BY <1>0, <1>1
  DEF Creating, xTaskCreate, AllocDev, CreateMutex, OutOfMemory, FirstLabel, RightSp,
      RunInv, Outside, InExchange, SessionOpens, FreeRtosApps, vars, sessionVars, taskVars,
      driveVars
<1>2. CASE IdleTaskFrees \/ UNCHANGED appVars
  BY <1>0, <1>2
  DEF IdleTaskFrees, RightSp, InExchange, SessionOpens, appVars, vars, sessionVars,
      taskVars, driveVars
<1>3. CASE AppStep(AppTask)
  <2>0. at' = IF pc'[AppTask] = "idle" THEN After(at, ret'[AppTask]) ELSE at
    BY <1>3 DEF AppStep
  <2>1. CASE Calling(AppTask)
    <3>1. UNCHANGED <<sessionVars, sessions>> /\ pc'[AppTask] \in {"idle", "lock", "free"}
      BY <1>0, <2>1, CallingShape DEF driveVars
    <3>2. at' = at \/ ~session_open \/ at' \notin MethodLabels
      <4>1. CASE pc'[AppTask] = "idle" /\ at \in SessionLabels
        <5>1. CallAt(at).op \in {"activate", "set_lock", "end_session"}
          BY <1>0, <2>1, <4>1, CallingShape, FreeRtosOps DEF SessionLabels, OpAt
        <5>2. EarlyCode(CallAt(at)) = OPAL_OK
          BY <5>1 DEF EarlyCode, StartOps
        <5> QED
          BY <1>0, <2>1, <4>1, <5>2, CallingShape DEF SessionLabels
      <4>2. CASE at \notin SessionLabels
        BY <1>0, <4>2 DEF ClosedOutside
      <4> QED
        BY <2>0, <4>1, <4>2
    <3> QED
      BY <1>0, <3>1, <3>2 DEF RightSp, InExchange, MethodLabels, sessionVars
  <2>2. CASE Inside(AppTask) \/ Exchange(AppTask)
    <3>0. /\ pc[AppTask] # "idle" /\ at \notin Outside /\ call[AppTask].op = OpAt(at)
          /\ call[AppTask].op # "revert"
      BY <1>0, <2>2, InsideShape, FreeRtosOps DEF RunInv
    <3>1. CASE Acquire(AppTask) \/ Decline(AppTask) \/ Free(AppTask)
      <4>1. UNCHANGED <<sessionVars, sessions>> /\ ~InExchange(AppTask)'
        BY <1>0, <3>1
        DEF Acquire, Decline, Free, Return, InExchange, driveVars, TypeOK
      <4>2. at' = at \/ ~session_open \/ at' \notin MethodLabels
        <5>1. CASE at \notin SessionLabels
          BY <1>0, <5>1 DEF ClosedOutside
        <5>2. CASE at \in {"activate", "unlock", "end", "end_activated", "end_failed"}
          BY <1>0, <2>0, <2>2, <3>0, <5>2
          DEF After, MainTaskAfter, OpalTaskAfter, FreeRtosApps, RunInv, LabelsOf, Outside,
              MethodLabels
        <5>3. CASE at = "lock" /\ at' # "lock"
          <6>1. at' \in {"unlock", "end"}
            BY <1>0, <2>0, <5>3
            DEF After, OpalTaskAfter, FreeRtosApps, RunInv, LabelsOf, Outside
          <6> QED
            BY <1>0, <2>0, <3>0, <3>1, <5>3, <6>1, FreeRtosOps
            DEF Acquire, Decline, Free, WrongState, NothingToEnd, TooLong, StartOps,
                MethodOps, RunInv, MethodLabels, TypeOK
        <5> QED
          BY <5>1, <5>2, <5>3 DEF SessionLabels
      <4> QED
        BY <1>0, <4>1, <4>2 DEF RightSp, InExchange, MethodLabels, sessionVars
    <3>2. CASE Build(AppTask)
      <4>1. /\ pc'[AppTask] = "send" /\ UNCHANGED <<call, sessionVars, sessions>>
            /\ cmd_buf'.method = MethodOf(call[AppTask].op)
            /\ cmd_buf'.tsn = tper_session_id
            /\ cmd_buf'.sp = OpensSp(call[AppTask].op)
            /\ call[AppTask].op \in MethodOps => session_open
        BY <1>0, <3>2 DEF Build, WrongState, Packet, OpensSp, driveVars, TypeOK
      <4> QED
        BY <1>0, <2>0, <4>1 DEF RightSp, InExchange, MethodLabels, sessionVars
    <3>3. CASE backend = "drive" /\ Send(AppTask)
      <4>0. /\ pc[AppTask] = "send" /\ UNCHANGED <<call, cmd_buf, resp_buf, sessionVars>>
            /\ DriveExecutes(cmd_buf) \/ UNCHANGED driveVars
            /\ \/ pc'[AppTask] = "recv" /\ DriveExecutes(cmd_buf)
               \/ pc'[AppTask] = "finish" /\ ret'[AppTask] # OPAL_OK
        BY <1>0, <3>3 DEF Send, TypeOK, OPAL_OK, OPAL_ERR_TRANSPORT
      <4>1. cmd_buf.method = MethodOf(call[AppTask].op)
        BY <1>0, <4>0 DEF RightSp, InExchange
      <4>2. cmd_buf.method # "revert" /\ cmd_buf \in Commands
        BY <1>0, <3>0, <4>1, FreeRtosOps
        DEF MethodOf, StartOps, MethodOps, TypeOK
      <4>3. at \in MethodLabels => cmd_buf.method # "end_session"
        BY <1>0, <3>0, <4>1, FreeRtosOps DEF MethodLabels, MethodOf, StartOps
      <4>4. /\ at \in MethodLabels => sessions \subseteq sessions'
            /\ pc'[AppTask] = "recv" /\ answer'.kind = "sync" =>
                 [tsn |-> answer'.tsn, sp |-> cmd_buf.sp] \in sessions'
        BY <1>0, <4>0, <4>2, <4>3, DriveSps DEF driveVars
      <4> QED
        BY <1>0, <2>0, <4>0, <4>4
        DEF RightSp, InExchange, SessionOpens, MethodLabels, sessionVars
    <3>4. CASE backend = "drive" /\ Recv(AppTask)
      <4>1. /\ pc[AppTask] = "recv" /\ pc'[AppTask] = "finish"
            /\ UNCHANGED <<call, cmd_buf, sessionVars, sessions>>
            /\ resp_buf' = answer \/ resp_buf'.kind = "empty"
        BY <1>0, <3>4 DEF Recv, EmptyAnswer, Answer, TypeOK
      <4> QED
        BY <1>0, <2>0, <4>1
        DEF RightSp, InExchange, SessionOpens, MethodLabels, sessionVars
    <3>5. CASE Finish(AppTask)
      <4>1. /\ pc[AppTask] = "finish" /\ pc'[AppTask] \in {"idle", "free"}
            /\ UNCHANGED sessions
        BY <1>0, <3>0, <3>5
        DEF Finish, FinishDiscover, FinishStart, FinishEnd, FinishMethod, FinishQuery,
            FinishPsidSession, FinishRevert, Exchanged, Return, driveVars, TypeOK
      <4>2. ASSUME session_open', at' \in MethodLabels
            PROVE  [tsn |-> tper_session_id', sp |-> IF at' = "activate" THEN "admin"
                                                     ELSE "locking"] \in sessions
        <5>1. /\ at' = "activate" => at = "start_admin" \/ at' = at
              /\ at' = "lock" => at = "start_locking" \/ at' = at
              /\ at' = "unlock" => at = "lock" \/ at' = at
          BY <1>0, <2>0, <3>0
          DEF After, MainTaskAfter, OpalTaskAfter, FreeRtosApps, RunInv, LabelsOf, Outside
        <5>2. CASE at \in {"start_admin", "start_locking"}
          <6>1. /\ SessionOpens(AppTask) /\ tper_session_id' = resp_buf.tsn
                /\ call[AppTask].op = at
            BY <1>0, <2>2, <3>0, <4>2, <5>2, SessionMove, FreeRtosOps
            DEF ClosedOutside, SessionLabels, sessionVars
          <6> QED
            BY <1>0, <4>1, <4>2, <5>1, <5>2, <6>1
            DEF RightSp, InExchange, OpensSp, MethodLabels
        <5>3. CASE at \in MethodLabels
          <6>1. UNCHANGED sessionVars
            BY <1>0, <2>2, <3>0, <5>3, SessionMove, FreeRtosOps
            DEF MethodLabels, StartOps
          <6> QED
            BY <1>0, <4>2, <5>1, <5>3, <6>1 DEF RightSp, MethodLabels, sessionVars
        <5> QED
          BY <4>2, <5>1, <5>2, <5>3 DEF MethodLabels
      <4> QED
        BY <1>0, <4>1, <4>2 DEF RightSp, InExchange, MethodLabels
    <3>6. ~StubSends(AppTask) /\ ~StubReceives(AppTask)
      BY <1>0 DEF StubSends, StubReceives
    <3> QED
      BY <2>2, <3>1, <3>2, <3>3, <3>4, <3>5, <3>6 DEF Inside, Exchange
  <2> QED
    BY <1>3, <2>1, <2>2 DEF AppStep
<1> QED
  BY <1>1, <1>2, <1>3 DEF AppNext, AppProgress, AppDone

(* Activate only ever reaches the drive in an AdminSP session and Set only  *)
(* in a LockingSP session, whatever the drive refused and whichever         *)
(* exchange failed before.                                                  *)
THEOREM AppsUseRightSp == AppSpec => []AppMethodsRightSp
<1>1. AppInit => ClosedOutside /\ RightSp
  BY TheTask DEF AppInit, Init, ClosedOutside, RightSp, InExchange
<1>2. AppTyped /\ RightSp => AppMethodsRightSp
  <2> SUFFICES ASSUME AppTyped, RightSp, backend = "drive", pc[AppTask] = "send"
               PROVE  /\ cmd_buf.method = "activate" => InSession(cmd_buf, "admin")
                      /\ cmd_buf.method = "set_lock" => InSession(cmd_buf, "locking")
    BY DEF AppMethodsRightSp
  <2>1. /\ RunInv /\ app \in FreeRtosApps /\ at \notin Outside
        /\ call[AppTask].op = OpAt(at)
    BY AppAssumption DEF AppTyped, AppTypeOK, RunInv, Tests
  <2>2. /\ cmd_buf.method = MethodOf(call[AppTask].op) /\ cmd_buf.tsn = tper_session_id
        /\ call[AppTask].op \in MethodOps => session_open
    BY DEF RightSp, InExchange
  <2>3. /\ cmd_buf.method = "activate" => at = "activate"
        /\ cmd_buf.method = "set_lock" => at \in {"lock", "unlock"}
    BY <2>1, <2>2, FreeRtosOps DEF MethodOf, StartOps
  <2> QED
    BY <2>1, <2>2, <2>3, FreeRtosOps DEF RightSp, InSession, MethodOps
<1> QED
  BY <1>1, <1>2, InitTyped, NextTyped, NextClosed, NextRightSp, PTL DEF AppSpec

-----------------------------------------------------------------------------
(* In front of a drive the programs run OpalCore. *)

(* The calls of the FreeRTOS programs are among those of OpalCore.          *)
LEMMA AppRequests ==
  ASSUME app \in FreeRtosApps, RunInv, at \notin Outside, at # "destroy"
  PROVE  CallAt(at) \in Requests
<1>1. /\ 0 \in UserIds /\ 0 \in RangeIds /\ {NoPin, InitialPin} \subseteq PinArgs
      /\ Operations = AllOperations
  BY DriveAssumption, AppAssumption DEF PinArgs
<1>2. at \in {"discover", "start_admin", "activate", "end_activated", "end_failed",
              "start_locking", "lock", "unlock", "end"}
  BY DEF FreeRtosApps, RunInv, LabelsOf, Labels, Outside
<1>3. CASE at \in {"discover", "activate", "end", "end_activated", "end_failed"}
  BY <1>1, <1>3 DEF CallAt, NoCall, Requests, CallsOf, AllOperations, MethodOps
<1>4. CASE at \in {"start_admin", "start_locking"}
  BY <1>1, <1>4 DEF CallAt, NoCall, Requests, CallsOf, AllOperations, StartOps
<1>5. CASE at \in {"lock", "unlock"}
  BY <1>1, <1>5 DEF CallAt, NoCall, Requests, CallsOf, AllOperations, MethodOps
<1> QED
  BY <1>2, <1>3, <1>4, <1>5

LEMMA NextCore ==
  AppTyped /\ backend = "drive" /\ [AppNext]_appVars => [Next]_vars /\ (backend = "drive")'
<1> SUFFICES ASSUME AppTyped, backend = "drive", [AppNext]_appVars
             PROVE  [Next]_vars /\ backend' = "drive"
  OBVIOUS
<1>0. RunInv /\ app \in FreeRtosApps
  BY AppAssumption DEF AppTyped, AppTypeOK, RunInv, Tests
<1>1. CASE AppStep(AppTask)
  <2>1. ASSUME Calling(AppTask) PROVE Next
    <3>1. at \notin Outside
      BY <2>1 DEF Calling, Outside
    <3>2. CASE at = "destroy"
      BY <2>1, <3>2, TheTask DEF Calling, Next
    <3>3. CASE at # "destroy"
      BY <1>0, <2>1, <3>1, <3>3, AppRequests, TheTask DEF Calling, CallApi, Next
    <3> QED
      BY <3>2, <3>3
  <2>2. ASSUME Inside(AppTask) \/ Exchange(AppTask) PROVE Next
    BY <2>2, TheTask DEF Inside, Exchange, StubSends, StubReceives, Step, Next
  <2> QED
    BY <1>1, <2>1, <2>2 DEF AppStep
<1>2. CASE Creating \/ IdleTaskFrees \/ UNCHANGED appVars
  BY <1>2 DEF Creating, IdleTaskFrees, appVars
<1> QED
  BY <1>1, <1>2 DEF AppNext, AppProgress, AppDone

(* A program linked with a drive's transport is one of the tasks OpalCore   *)
(* speaks of: what is proved of Spec holds of it.                           *)
THEOREM AppsRunCore == AppSpec => (backend = "drive" => Spec)
<1>1. AppInit => Init
  BY DEF AppInit
<1> QED
  BY <1>1, InitTyped, NextTyped, NextCore, PTL DEF AppSpec, Spec

(* In particular the session it believes open is one the drive holds.       *)
COROLLARY AppsKeepSession == AppSpec => (backend = "drive" => []HostSessionLive)
BY AppsRunCore, SessionLive, PTL

-----------------------------------------------------------------------------
(* The mock transport. *)

(* On every transport the command in its exchange is the call's own.        *)
LEMMA NextAppCommand ==
  AppTyped /\ CommandOfCall /\ [AppNext]_appVars => CommandOfCall'
<1> SUFFICES ASSUME AppTyped, CommandOfCall, [AppNext]_appVars, InExchange(AppTask)'
             PROVE  \/ cmd_buf'.method = MethodOf(call'[AppTask].op)
                    \/ call'[AppTask].op = "revert" /\ cmd_buf'.method = "revert"
  BY TheTask DEF CommandOfCall, InExchange
<1>0. TypeOK /\ AppTask \in Tasks
  BY TheTask DEF AppTyped, AppTypeOK
<1>1. CASE Calling(AppTask)
  BY <1>0, <1>1, CallingShape DEF InExchange
<1>2. CASE Inside(AppTask) \/ Exchange(AppTask)
  <2>1. CASE Step(AppTask)
    <3>1. CASE Build(AppTask)
      BY <3>1 DEF Build, Packet
    <3>2. CASE Send(AppTask) \/ Recv(AppTask)
      BY <1>0, <3>2 DEF Send, Recv, CommandOfCall
    <3>3. CASE FinishPsidSession(AppTask) /\ SessionOpens(AppTask)
      BY <3>3 DEF FinishPsidSession, Exchanged, Packet
    <3> QED
      BY <1>0, <2>1, <3>1, <3>2, <3>3, ExchangeStep
  <2>2. CASE StubSends(AppTask) \/ StubReceives(AppTask)
    BY <1>0, <2>2 DEF StubSends, StubReceives, CommandOfCall
  <2> QED
    BY <1>2, <2>1, <2>2 DEF Inside, Exchange, Step
<1>3. CASE UNCHANGED vars
  BY <1>0, <1>3 DEF vars, taskVars, CommandOfCall, InExchange
<1> QED
  BY <1>1, <1>2, <1>3
  DEF AppNext, AppProgress, AppDone, AppStep, Creating, IdleTaskFrees, appVars

(* The steps of a test before which a session is open.                      *)
OpenAt(a) ==
  CASE a = "test_sessions"        -> {3, 5, 6}
    [] a = "test_locking_session" -> {3, 5}
    [] a \in {"test_lock_unlock", "test_set_password"} -> {3, 4, 5, 6}
    [] a = "test_activate"        -> {3, 4}
    [] a = "test_full_workflow"   -> {3, 4, 6, 7, 8, 9}
    [] OTHER                      -> {}

(* What a test's call is for, and the answer it has the mock give.          *)
Discovers(s) == s.expect # "fails" /\ s.call.op = "discover" /\ s.next = "keep"
Opens(s) ==
  s.expect # "fails" /\ s.call.op \in StartOps /\ LenOf(s.call.pin) = 6
CallsMethod(s) ==
  /\ s.expect # "fails" /\ s.call.op \in MethodOps /\ s.next = "success"
  /\ LenOf(s.call.pin) \in {0, 6} /\ (s.call.op = "set_password" => LenOf(s.call.pin) = 6)
Closes(s) == s.expect # "fails" /\ s.call.op = "end_session"
Reverts(s) ==
  /\ s.expect # "fails" /\ s.call.op = "revert" /\ s.next = "ses_open"
  /\ LenOf(s.call.pin) = 32
BadArgument(s) ==
  /\ s.expect = "fails" /\ s.next = "keep"
  /\ \/ s.call.op = "start_admin" /\ LenOf(s.call.pin) > MaxPinLen
     \/ s.call.op \in {"set_password", "revert"} /\ LenOf(s.call.pin) = 0
OutOfTurn(s, o) == s.expect = "fails" /\ s.next = "keep" /\ s.call.op \in o

(* The call of step i suits the session before it, open or not, and leaves  *)
(* the one the next step counts on.                                         *)
Fits(s, i, open, opened) ==
  \/ i = 1 /\ Discovers(s) /\ ~open /\ ~opened
  \/ i > 1 /\ Opens(s) /\ (s.call.op = "start_admin" => ~open) /\ opened
       /\ (s.next = "ses_open" \/ (i = 2 /\ s.next = "keep"))
  \/ i > 1 /\ CallsMethod(s) /\ open /\ opened
  \/ i > 1 /\ Closes(s) /\ ~opened
  \/ i > 1 /\ Reverts(s) /\ ~open /\ ~opened
  \/ i > 1 /\ open = opened /\ \/ BadArgument(s)
                               \/ open /\ OutOfTurn(s, {"start_admin"})
                               \/ ~open /\ OutOfTurn(s, MethodOps)

ScriptFits(a) ==
  \A i \in 1 .. Len(Script(a)) :
    /\ Fits(Script(a)[i], i, i \in OpenAt(a), i + 1 \in OpenAt(a))
    /\ Script(a)[i].call.op = "revert" <=> a = "test_revert" /\ i > 1
    /\ a = "test_revert" /\ i > 2 => BadArgument(Script(a)[i])

(* What each of the calls the tests are made of is for.                     *)
LEMMA TestKinds ==
  /\ Discovers(Discover) /\ Discovers(DiscoverOk) /\ Closes(EndSession)
  /\ \A e \in {"any", "ok"} : Opens(OpenAdmin(e)) /\ OpenAdmin(e).call.op = "start_admin"
                              /\ OpenAdmin(e).next = "ses_open"
  /\ \A u \in {0, 1} : /\ Opens(OpenLocking(u)) /\ OpenLocking(u).call.op = "start_locking"
                       /\ OpenLocking(u).next = "ses_open"
                       /\ CallsMethod(Succeeds(NewPin(u)))
                       /\ OutOfTurn(Rejected(NewPin(u)), MethodOps)
  /\ \A r \in {0, 1}, v \in BOOLEAN : /\ CallsMethod(Succeeds(LockRange(r, v)))
                                      /\ OutOfTurn(Rejected(LockRange(r, v)), MethodOps)
  /\ CallsMethod(Succeeds(Plain("activate"))) /\ Closes(Succeeds(Plain("end_session")))
  /\ OutOfTurn(Rejected(WithPin("start_admin", TEST_PIN)), {"start_admin"})
  /\ BadArgument(Rejected(WithPin("start_admin", long_pin)))
  /\ BadArgument(Rejected(AsUser("set_password", 0, NoPin)))
  /\ BadArgument(Rejected(WithPin("revert", NoPin)))
<1>1. /\ LenOf(TEST_PIN) = 6 /\ LenOf(TEST_NEW_PIN) = 6 /\ LenOf(long_pin) = 64
      /\ LenOf(TEST_PSID) = 32 /\ LenOf(NoPin) = 0
  BY TestsAssumption, DriveAssumption DEF LenOf
<1>2. \A op : Plain(op).op = op /\ Plain(op).pin = NoPin
  BY DEF Plain, NoCall
<1>3. \A op, p : WithPin(op, p).op = op /\ WithPin(op, p).pin = p
  BY DEF WithPin, NoCall
<1>4. \A op, u, p : AsUser(op, u, p).op = op /\ AsUser(op, u, p).pin = p
  BY DEF AsUser, WithPin, NoCall
<1>5. \A r, v : LockRange(r, v).op = "set_lock" /\ LockRange(r, v).pin = NoPin
  BY DEF LockRange, NoCall
<1>6. \A n, c, e : TestCall(n, c, e).next = n /\ TestCall(n, c, e).call = c
                   /\ TestCall(n, c, e).expect = e
  BY DEF TestCall
<1>7. /\ Discovers(Discover) /\ Discovers(DiscoverOk) /\ Closes(EndSession)
      /\ CallsMethod(Succeeds(Plain("activate"))) /\ Closes(Succeeds(Plain("end_session")))
  BY <1>1, <1>2, <1>6
  DEF Discover, DiscoverOk, EndSession, Succeeds, Discovers, Closes, CallsMethod, MethodOps
<1>8. \A e \in {"any", "ok"} : Opens(OpenAdmin(e)) /\ OpenAdmin(e).call.op = "start_admin"
                               /\ OpenAdmin(e).next = "ses_open"
  BY <1>1, <1>3, <1>6 DEF OpenAdmin, Opens, StartOps
<1>9. \A u \in {0, 1} : /\ Opens(OpenLocking(u)) /\ OpenLocking(u).call.op = "start_locking"
                        /\ OpenLocking(u).next = "ses_open"
  BY <1>1, <1>4, <1>6 DEF OpenLocking, Opens, StartOps
<1>10. \A u \in {0, 1} : /\ CallsMethod(Succeeds(NewPin(u)))
                         /\ OutOfTurn(Rejected(NewPin(u)), MethodOps)
  BY <1>1, <1>4, <1>6 DEF NewPin, Succeeds, Rejected, CallsMethod, OutOfTurn, MethodOps
<1>11. \A r \in {0, 1}, v \in BOOLEAN : /\ CallsMethod(Succeeds(LockRange(r, v)))
                                        /\ OutOfTurn(Rejected(LockRange(r, v)), MethodOps)
  BY <1>1, <1>5, <1>6 DEF Succeeds, Rejected, CallsMethod, OutOfTurn, MethodOps
<1>12. /\ OutOfTurn(Rejected(WithPin("start_admin", TEST_PIN)), {"start_admin"})
       /\ BadArgument(Rejected(WithPin("start_admin", long_pin)))
       /\ BadArgument(Rejected(AsUser("set_password", 0, NoPin)))
       /\ BadArgument(Rejected(WithPin("revert", NoPin)))
  BY <1>1, <1>3, <1>4, <1>6 DEF Rejected, OutOfTurn, BadArgument, MaxPinLen
<1> QED
  BY <1>7, <1>8, <1>9, <1>10, <1>11, <1>12

LEMMA ScriptsFit == \A a \in Tests : ScriptFits(a)
<1>1. \A s : /\ Discovers(s) \/ Opens(s) \/ CallsMethod(s) \/ Closes(s)
                  => s.call.op # "revert"
             /\ Reverts(s) => s.call.op = "revert"
             /\ OutOfTurn(s, {"start_admin"}) \/ OutOfTurn(s, MethodOps)
                  => s.call.op # "revert"
  BY DEF Discovers, Opens, CallsMethod, Closes, Reverts, OutOfTurn, StartOps, MethodOps
<1>0. /\ OpenAt("test_sessions") = {3, 5, 6} /\ OpenAt("test_locking_session") = {3, 5}
      /\ OpenAt("test_lock_unlock") = {3, 4, 5, 6}
      /\ OpenAt("test_set_password") = {3, 4, 5, 6}
      /\ OpenAt("test_activate") = {3, 4}
      /\ OpenAt("test_full_workflow") = {3, 4, 6, 7, 8, 9}
      /\ OpenAt("test_discovery") = {} /\ OpenAt("test_revert") = {}
  BY DEF OpenAt
<1>2. ScriptFits("test_lifecycle")
  BY DEF ScriptFits, Script, test_lifecycle
<1>3. ScriptFits("test_discovery")
  <2> DEFINE S == Script("test_discovery")
  <2>1. Script("test_discovery") = <<DiscoverOk>>
    BY DEF Script, test_discovery
  <2>2. /\ Len(S) = 1
        /\ Discovers(S[1])
    BY <2>1, TestKinds
  <2> QED
    BY <1>0, <1>1, <2>2 DEF ScriptFits, Fits
<1>4. ScriptFits("test_sessions")
  <2> DEFINE S == Script("test_sessions")
  <2> DEFINE Starts   == TestCall("keep", WithPin("start_admin", TEST_PIN), "ok")
             EndsIt     == TestCall("keep", Plain("end_session"), "ok")
             Restarts == Rejected(WithPin("start_admin", TEST_PIN))
             LongPin  == Rejected(WithPin("start_admin", long_pin))
  <2>1. Script("test_sessions") = <<Discover, Starts, EndsIt, OpenAdmin("any"), Restarts,
                                    EndSession, LongPin>>
    BY Zenon DEF Script, test_sessions
  <2>2. /\ Opens(Starts) /\ Starts.next = "keep" /\ Closes(EndsIt)
        /\ OutOfTurn(Restarts, {"start_admin"})
        /\ BadArgument(LongPin) /\ LongPin.call.op = "start_admin"
    <3>1. LenOf(TEST_PIN) = 6
      BY TestsAssumption, DriveAssumption DEF LenOf
    <3> QED
      BY <3>1, TestKinds
      DEF TestCall, WithPin, Plain, Rejected, NoCall, Opens, Closes, StartOps
  <2> HIDE DEF Starts, EndsIt, Restarts, LongPin
  <2>3. /\ Len(S) = 7
        /\ Discovers(S[1])
        /\ Opens(S[2]) /\ S[2].next = "keep"
        /\ Closes(S[3])
        /\ Opens(S[4]) /\ S[4].call.op = "start_admin" /\ S[4].next = "ses_open"
        /\ OutOfTurn(S[5], {"start_admin"})
        /\ Closes(S[6])
        /\ BadArgument(S[7]) /\ S[7].call.op = "start_admin"
    BY <2>1, <2>2, TestKinds
  <2> SUFFICES ASSUME NEW i \in 1 .. 7
               PROVE  /\ Fits(S[i], i, i \in {3, 5, 6}, i + 1 \in {3, 5, 6})
                      /\ S[i].call.op # "revert"
    BY <1>0, <2>3 DEF ScriptFits
  <2>4. CASE i \in 1 .. 4
    BY <1>1, <2>3, <2>4 DEF Fits
  <2>5. CASE i \in 5 .. 7
    BY <1>1, <2>3, <2>5 DEF Fits
  <2> QED
    BY <2>4, <2>5
<1>5. ScriptFits("test_locking_session")
  <2> DEFINE S == Script("test_locking_session")
  <2>1. Script("test_locking_session") = <<Discover, OpenLocking(0), EndSession,
                                           OpenLocking(1), EndSession>>
    BY Zenon DEF Script, test_locking_session
  <2>2. /\ Len(S) = 5
        /\ Discovers(S[1])
        /\ Opens(S[2]) /\ S[2].call.op = "start_locking" /\ S[2].next = "ses_open"
        /\ Closes(S[3])
        /\ Opens(S[4]) /\ S[4].call.op = "start_locking" /\ S[4].next = "ses_open"
        /\ Closes(S[5])
    BY <2>1, TestKinds
  <2> QED
    BY <1>0, <1>1, <2>2 DEF ScriptFits, Fits
<1>6. ScriptFits("test_lock_unlock")
  <2> DEFINE S == Script("test_lock_unlock")
  <2> DEFINE Lock0   == Succeeds(LockRange(0, TRUE))
             Unlock0 == Succeeds(LockRange(0, FALSE))
             Lock1   == Succeeds(LockRange(1, TRUE))
             NoLock0 == Rejected(LockRange(0, TRUE))
  <2>1. Script("test_lock_unlock") = <<Discover, OpenAdmin("any"), Lock0, Unlock0, Lock1,
                                       EndSession, NoLock0>>
    BY Zenon DEF Script, test_lock_unlock
  <2>2. /\ CallsMethod(Lock0) /\ CallsMethod(Unlock0) /\ CallsMethod(Lock1)
        /\ OutOfTurn(NoLock0, MethodOps)
    BY TestKinds
  <2> HIDE DEF Lock0, Unlock0, Lock1, NoLock0
  <2>3. /\ Len(S) = 7
        /\ Discovers(S[1])
        /\ Opens(S[2]) /\ S[2].call.op = "start_admin" /\ S[2].next = "ses_open"
        /\ CallsMethod(S[3])
        /\ CallsMethod(S[4])
        /\ CallsMethod(S[5])
        /\ Closes(S[6])
        /\ OutOfTurn(S[7], MethodOps)
    BY <2>1, <2>2, TestKinds
  <2> SUFFICES ASSUME NEW i \in 1 .. 7
               PROVE  /\ Fits(S[i], i, i \in {3, 4, 5, 6}, i + 1 \in {3, 4, 5, 6})
                      /\ S[i].call.op # "revert"
    BY <1>0, <2>3 DEF ScriptFits
  <2>4. CASE i \in 1 .. 4
    BY <1>1, <2>3, <2>4 DEF Fits
  <2>5. CASE i \in 5 .. 7
    BY <1>1, <2>3, <2>5 DEF Fits
  <2> QED
    BY <2>4, <2>5
<1>7. ScriptFits("test_set_password")
  <2> DEFINE S == Script("test_set_password")
  <2> DEFINE Pin0   == Succeeds(NewPin(0))
             Pin1   == Succeeds(NewPin(1))
             NullPin == Rejected(AsUser("set_password", 0, NoPin))
             NoPin0 == Rejected(NewPin(0))
  <2>1. Script("test_set_password") = <<Discover, OpenAdmin("any"), Pin0, Pin1, NullPin,
                                        EndSession, NoPin0>>
    BY Zenon DEF Script, test_set_password
  <2>2. /\ CallsMethod(Pin0) /\ CallsMethod(Pin1) /\ OutOfTurn(NoPin0, MethodOps)
        /\ BadArgument(NullPin) /\ NullPin.call.op = "set_password"
    BY TestKinds DEF Rejected, TestCall, AsUser, WithPin, NoCall
  <2> HIDE DEF Pin0, Pin1, NullPin, NoPin0
  <2>3. /\ Len(S) = 7
        /\ Discovers(S[1])
        /\ Opens(S[2]) /\ S[2].call.op = "start_admin" /\ S[2].next = "ses_open"
        /\ CallsMethod(S[3])
        /\ CallsMethod(S[4])
        /\ BadArgument(S[5]) /\ S[5].call.op = "set_password"
        /\ Closes(S[6])
        /\ OutOfTurn(S[7], MethodOps)
    BY <2>1, <2>2, TestKinds
  <2> SUFFICES ASSUME NEW i \in 1 .. 7
               PROVE  /\ Fits(S[i], i, i \in {3, 4, 5, 6}, i + 1 \in {3, 4, 5, 6})
                      /\ S[i].call.op # "revert"
    BY <1>0, <2>3 DEF ScriptFits
  <2>4. CASE i \in 1 .. 4
    BY <1>1, <2>3, <2>4 DEF Fits
  <2>5. CASE i \in 5 .. 7
    BY <1>1, <2>3, <2>5 DEF Fits
  <2> QED
    BY <2>4, <2>5
<1>8. ScriptFits("test_activate")
  <2> DEFINE S == Script("test_activate")
  <2>1. Script("test_activate") = <<Discover, OpenAdmin("any"), Succeeds(Plain("activate"))>>
    BY Zenon DEF Script, test_activate
  <2>2. /\ Len(S) = 3
        /\ Discovers(S[1])
        /\ Opens(S[2]) /\ S[2].call.op = "start_admin" /\ S[2].next = "ses_open"
        /\ CallsMethod(S[3])
    BY <2>1, TestKinds
  <2> QED
    BY <1>0, <1>1, <2>2 DEF ScriptFits, Fits
<1>9. ScriptFits("test_revert")
  <2> DEFINE S == Script("test_revert")
  <2> DEFINE Revert  == TestCall("ses_open", WithPin("revert", TEST_PSID), "ok")
             NullPin == Rejected(WithPin("revert", NoPin))
  <2>1. Script("test_revert") = <<Discover, Revert, NullPin>>
    BY Zenon DEF Script, test_revert
  <2>2. Reverts(Revert) /\ BadArgument(NullPin) /\ NullPin.call.op = "revert"
    <3>1. LenOf(TEST_PSID) = 32
      BY TestsAssumption, DriveAssumption DEF LenOf
    <3> QED
      BY <3>1, TestKinds DEF TestCall, WithPin, Rejected, NoCall, Reverts
  <2> HIDE DEF Revert, NullPin
  <2>3. /\ Len(S) = 3
        /\ Discovers(S[1])
        /\ Reverts(S[2])
        /\ BadArgument(S[3]) /\ S[3].call.op = "revert"
    BY <2>1, <2>2, TestKinds
  <2> QED
    BY <1>0, <1>1, <2>3 DEF ScriptFits, Fits
<1>10. ScriptFits("test_full_workflow")
  <2> DEFINE S == Script("test_full_workflow")
  <2> DEFINE Activates == Succeeds(Plain("activate"))
             EndsIt    == Succeeds(Plain("end_session"))
             Lock0     == Succeeds(LockRange(0, TRUE))
             Unlock0   == Succeeds(LockRange(0, FALSE))
             Pin0      == Succeeds(NewPin(0))
  <2>1. Script("test_full_workflow") = <<DiscoverOk, OpenAdmin("ok"), Activates, EndsIt,
                                         OpenLocking(0), Lock0, Unlock0, Pin0, EndsIt>>
    BY Zenon DEF Script, test_full_workflow
  <2>2. /\ CallsMethod(Activates) /\ CallsMethod(Lock0) /\ CallsMethod(Unlock0)
        /\ CallsMethod(Pin0) /\ Closes(EndsIt)
    BY TestKinds
  <2> HIDE DEF Activates, EndsIt, Lock0, Unlock0, Pin0
  <2>3. /\ Len(S) = 9
        /\ Discovers(S[1])
        /\ Opens(S[2]) /\ S[2].call.op = "start_admin" /\ S[2].next = "ses_open"
        /\ CallsMethod(S[3])
        /\ Closes(S[4])
        /\ Opens(S[5]) /\ S[5].call.op = "start_locking" /\ S[5].next = "ses_open"
        /\ CallsMethod(S[6])
        /\ CallsMethod(S[7])
        /\ CallsMethod(S[8])
        /\ Closes(S[9])
    BY <2>1, <2>2, TestKinds
  <2> SUFFICES ASSUME NEW i \in 1 .. 9
               PROVE  /\ Fits(S[i], i, i \in {3, 4, 6, 7, 8, 9}, i + 1 \in {3, 4, 6, 7, 8, 9})
                      /\ S[i].call.op # "revert"
    BY <1>0, <2>3 DEF ScriptFits
  <2>4. CASE i \in {1, 2, 3, 4, 9}
    BY <1>1, <2>3, <2>4 DEF Fits
  <2>5. CASE i \in 5 .. 8
    BY <1>1, <2>3, <2>5 DEF Fits
  <2> QED
    BY <2>4, <2>5
<1> QED
  BY <1>2, <1>3, <1>4, <1>5, <1>6, <1>7, <1>8, <1>9, <1>10 DEF Tests

(* Where a test counts on an open session, and on a discovery.           *)
OpenNow == step \in OpenAt(app)
Known == step > 1 /\ (app = "test_revert" => step = 2)

(* The test means its call to fail.                                         *)
Fails == at = "script" /\ Script(app)[step].expect = "fails"

(* With its next answer set to n the mock answers a command m as it asks.   *)
InStep(m, n) ==
  /\ m = "start_session" => n = "ses_open"
  /\ m \notin {"start_session", "discovery", "end_session"} => n = "success"

Admitted(c, n) == ~WrongState(c) /\ ~TooLong(c) /\ InStep(MethodOf(c.op), n)

SessionTracked ==
  /\ Known => discovered
  /\ \/ at \in {"done", "halted"} \/ pc[AppTask] = "free"
     \/ InExchange(AppTask) /\ call[AppTask].op = "revert"
     \/ session_open <=> OpenNow

(* Between two calls the mock is ready for the next one.                    *)
MockReady ==
  pc[AppTask] = "idle" /\ at = "script" /\ step = 2 => next_op = "ses_open"

(* What the mock has answered, and what it goes on to.                      *)
Answered ==
  LET m == cmd_buf.method IN
  /\ m = "discovery" => resp_buf = DiscoveryAnswer(StubComId) /\ next_op = "ses_open"
  /\ m = "start_session" => resp_buf.kind = "sync" /\ next_op = "success"
  /\ m \notin {"start_session", "discovery", "end_session"} =>
       resp_buf = StatusAnswer(OPAL_STATUS_SUCCESS) /\ next_op = "success"

MockInv ==
  backend = "mock" =>
    /\ SessionTracked /\ MockReady /\ TestsPass
    /\ pc[AppTask] # "idle" => ret[AppTask] = OPAL_OK
    /\ pc[AppTask] \in {"lock", "build"} =>
         IF Fails THEN WrongState(call[AppTask]) ELSE Admitted(call[AppTask], next_op)
    /\ InExchange(AppTask) =>
         ~Fails /\ (cmd_buf.method = "discovery" => cmd_buf.com = OPAL_DISCOVERY_COMID)
    /\ pc[AppTask] \in {"send", "recv"} => InStep(cmd_buf.method, next_op)
    /\ pc[AppTask] = "recv" /\ cmd_buf.method = "discovery" => next_op = "discovery"
    /\ pc[AppTask] = "finish" => Answered

(* The call a program is about to make is rejected exactly if the test      *)
(* means it to be; otherwise it reaches the mock in step.                   *)
LEMMA CallFits ==
  ASSUME AppTyped, SessionTracked, MockReady, backend = "mock",
         pc[AppTask] = "idle", at \notin Outside, at # "destroy",
         next_op' = IF at = "script" /\ Script(app)[step].next # "keep"
                    THEN Script(app)[step].next ELSE next_op
  PROVE  LET c == CallAt(at) IN
         IF Fails THEN EarlyCode(c) # OPAL_OK \/ WrongState(c)
                  ELSE EarlyCode(c) = OPAL_OK /\ Admitted(c, next_op')
<1> SUFFICES ASSUME NEW c, c = CallAt(at)
             PROVE  IF Fails THEN EarlyCode(c) # OPAL_OK \/ WrongState(c)
                             ELSE EarlyCode(c) = OPAL_OK /\ Admitted(c, next_op')
  OBVIOUS
<1>0. RunInv /\ app \in Tests
      /\ discovered \in BOOLEAN /\ session_open \in BOOLEAN
  BY DEF AppTyped, AppTypeOK, TypeOK, RunInv
<1>1. session_open <=> OpenNow
  BY DEF SessionTracked, InExchange, Outside
<1>2. \A n \in {0, 6, 32} : ~Overflows(StartSessionLen(n))
                            /\ ~Overflows(MethodLen(5 + NamedLen(BytesLen(n))))
  BY CredentialFits, PasswordFits DEF LongestCredential, MaxPinLen
<1>3. CASE at = "script"
  <2> SUFFICES ASSUME NEW s, s = Script(app)[step]
               PROVE  IF Fails THEN EarlyCode(c) # OPAL_OK \/ WrongState(c)
                               ELSE EarlyCode(c) = OPAL_OK /\ Admitted(c, next_op')
    OBVIOUS
  <2>1. /\ app \in Tests /\ step \in 1 .. Len(Script(app)) /\ c = s.call
        /\ Len(Script(app)) \in Nat
    BY <1>0, <1>3, ScriptLength DEF RunInv, CallAt
  <2>2. /\ Fits(s, step, session_open, step + 1 \in OpenAt(app))
        /\ s.call.op = "revert" <=> app = "test_revert" /\ step > 1
        /\ app = "test_revert" /\ step > 2 => BadArgument(s)
    <3>1. session_open = (step \in OpenAt(app))
      BY <1>0, <1>1, <2>1 DEF OpenNow
    <3> QED
      BY <2>1, <3>1, ScriptsFit DEF ScriptFits
  <2>3. /\ step > 1 /\ (app = "test_revert" => step = 2) => discovered
        /\ step = 2 => next_op = "ses_open"
        /\ next_op' = IF s.next # "keep" THEN s.next ELSE next_op
    BY <1>3, <2>1 DEF SessionTracked, MockReady, Known
  <2>4. Fails <=> s.expect = "fails"
    BY <1>3 DEF Fails
  <2> USE DEF EarlyCode, WrongState, TooLong, Admitted, InStep, MethodOf, StartOps, MethodOps
  <2>5. CASE step = 1 /\ Discovers(s)
    BY <2>1, <2>4, <2>5 DEF Discovers
  <2>6. CASE /\ step > 1 /\ Opens(s) /\ (s.call.op = "start_admin" => ~session_open)
             /\ s.next = "ses_open" \/ (step = 2 /\ s.next = "keep")
    <3>1. app # "test_revert" /\ discovered /\ next_op' = "ses_open"
      BY <2>2, <2>3, <2>6 DEF Opens
    <3> QED
      BY <1>2, <2>1, <2>4, <2>6, <3>1 DEF Opens, MaxPinLen
  <2>7. CASE CallsMethod(s) /\ session_open
    <3>1. c.op \in MethodOps /\ ~Fails /\ ~WrongState(c) /\ EarlyCode(c) = OPAL_OK
      BY <2>1, <2>4, <2>7 DEF CallsMethod, MaxPinLen
    <3>2. LenOf(c.pin) \in {0, 6} /\ ~TooLong(c)
      BY <1>2, <2>1, <2>7 DEF CallsMethod
    <3>3. InStep(MethodOf(c.op), next_op')
      BY <2>1, <2>3, <2>7 DEF CallsMethod
    <3> QED
      BY <3>1, <3>2, <3>3
  <2>8. CASE Closes(s)
    BY <2>1, <2>4, <2>8 DEF Closes
  <2>9. CASE step > 1 /\ Reverts(s)
    <3>1. app = "test_revert" /\ step = 2
      BY <2>1, <2>2, <2>9 DEF Reverts, BadArgument
    <3> QED
      BY <1>2, <2>1, <2>3, <2>4, <2>9, <3>1 DEF Reverts
  <2>10. CASE BadArgument(s)
    <3>1. /\ c.op = "start_admin" => LenOf(c.pin) > MaxPinLen
          /\ c.op # "start_admin" => LenOf(c.pin) = 0
          /\ c.op \in {"start_admin", "set_password", "revert"}
      BY <2>1, <2>10 DEF BadArgument
    <3>2. 0 \notin 1 .. MaxPinLen
      OBVIOUS
    <3>3. EarlyCode(c) = OPAL_ERR_PARAM
      BY <3>1, <3>2
    <3> QED
      BY <2>4, <2>10, <3>3 DEF BadArgument, OPAL_OK, OPAL_ERR_PARAM
  <2>11. CASE session_open /\ OutOfTurn(s, {"start_admin"})
    BY <2>1, <2>4, <2>11 DEF OutOfTurn
  <2>12. CASE ~session_open /\ OutOfTurn(s, MethodOps)
    BY <2>1, <2>4, <2>12 DEF OutOfTurn
  <2> QED
    BY <2>2, <2>5, <2>6, <2>7, <2>8, <2>9, <2>10, <2>11, <2>12 DEF Fits
<1>4. at = "script"
  BY <1>0 DEF RunInv, LabelsOf, Outside, Tests
<1> QED
  BY <1>3, <1>4

(* What a call leaves behind when it returns.                               *)
Outcome(o) ==
  IF Fails THEN ret'[AppTask] # OPAL_OK /\ UNCHANGED <<session_open, discovered>>
  ELSE /\ ret'[AppTask] = OPAL_OK
       /\ o \in StartOps => session_open'
       /\ o \in {"end_session", "revert"} => ~session_open'
       /\ o \notin StartOps \cup {"end_session", "revert"} => UNCHANGED session_open
       /\ o = "discover" => discovered' /\ next_op' = "ses_open"
       /\ o # "revert" /\ discovered => discovered'
       /\ o \in StartOps \cup MethodOps => next_op' = "success"

(* And with that the program is where its next call counts on.              *)
LEMMA AfterCall ==
  ASSUME AppTyped, AppTyped', app' = app, backend = "mock",
         at \notin Outside, at # "destroy", pc'[AppTask] = "idle",
         at' = After(at, ret'[AppTask]),
         step' = IF at = "script" THEN step + 1 ELSE step,
         Known => discovered,
         OpAt(at) # "revert" \/ Fails => (session_open <=> OpenNow),
         Outcome(OpAt(at))
  PROVE  SessionTracked' /\ MockReady' /\ TestsPass'
<1> SUFFICES ASSUME NEW s, s = Script(app)[step]
             PROVE  SessionTracked' /\ MockReady' /\ TestsPass'
  OBVIOUS
<1>0. /\ RunInv /\ app \in Apps /\ app \in Tests /\ at = "script"
      /\ discovered \in BOOLEAN /\ session_open \in BOOLEAN
      /\ discovered' \in BOOLEAN /\ session_open' \in BOOLEAN
      /\ step \in Nat
  <2>1. RunInv /\ app \in Tests
    BY DEF AppTyped, RunInv
  <2>2. at = "script"
    BY <2>1 DEF RunInv, LabelsOf, Outside, Tests
  <2> QED
    BY <2>1, <2>2 DEF AppTyped, AppTypeOK, TypeOK
<1>1. /\ app \in Tests /\ app \notin FreeRtosApps /\ step \in 1 .. Len(Script(app))
      /\ OpAt(at) = s.call.op /\ step' = step + 1 /\ at' \in {"script", "destroy"}
      /\ Len(Script(app)) \in Nat
  BY <1>0, ScriptLength
  DEF RunInv, OpAt, CallAt, After, TestAfter, FreeRtosApps, LabelsOf, Labels, Outside
<1>2. /\ Fits(s, step, step \in OpenAt(app), step + 1 \in OpenAt(app))
      /\ s.call.op = "revert" <=> app = "test_revert" /\ step > 1
      /\ app = "test_revert" /\ step > 2 => BadArgument(s)
  BY <1>1, ScriptsFit DEF ScriptFits
<1>3. /\ step > 1 /\ (app = "test_revert" => step = 2) => discovered
      /\ s.call.op # "revert" \/ Fails => (session_open <=> step \in OpenAt(app))
      /\ Fails <=> s.expect = "fails"
  BY <1>0, <1>1 DEF Known, OpenNow, Fails
<1>4. (session_open' <=> step + 1 \in OpenAt(app))
  BY <1>1, <1>2, <1>3
  DEF Outcome, Fits, Discovers, Opens, CallsMethod, Closes, Reverts, BadArgument,
      OutOfTurn, StartOps, MethodOps
<1>5. (app = "test_revert" => step + 1 = 2) => discovered'
  <2>1. CASE step = 1
    BY <1>1, <1>2, <1>3, <2>1 DEF Outcome, Fits, Discovers
  <2>2. CASE step > 1
    BY <1>1, <1>2, <1>3, <2>2 DEF Outcome
  <2> QED
    BY <1>1, <2>1, <2>2
<1>6. step + 1 = 2 => next_op' = "ses_open"
  BY <1>1, <1>2, <1>3 DEF Outcome, Fits, Discovers
<1>7. Holds(s.expect, ret'[AppTask])
  <2>1. s.expect \in {"ok", "any", "fails"}
    <3>1. Script(app) \in Seq(Scripted)
      BY <1>0, <1>1, ScriptType, AppAssumption
    <3>2. s \in Scripted
      BY <1>1, <3>1
    <3> QED
      BY <3>2 DEF Scripted
  <2> QED
    BY <1>3, <2>1 DEF Outcome, Holds
<1>8. SessionTracked' /\ MockReady'
  BY <1>1, <1>4, <1>5, <1>6
  DEF SessionTracked, MockReady, Known, OpenNow
<1>9. TestsPass'
  <2>1. Script(app)'[step' - 1] = s
    BY <1>1
  <2> QED
    BY <1>1, <1>7, <2>1 DEF TestsPass
<1> QED
  BY <1>8, <1>9

(* The calls that return from the mutex have the outcome they should.       *)
LEMMA Returns ==
  ASSUME AppTyped, MockInv, CommandOfCall, backend = "mock",
         Decline(AppTask) \/ Finish(AppTask), UNCHANGED next_op,
         pc'[AppTask] \in {"idle", "free"}
  PROVE  /\ pc[AppTask] \in {"build", "finish"}
         /\ pc'[AppTask] = "idle" => Outcome(call[AppTask].op)
         /\ pc'[AppTask] = "free" => ret'[AppTask] = OPAL_OK /\ UNCHANGED discovered
<1>0. /\ TypeOK /\ AppTask \in Tasks /\ ret[AppTask] = OPAL_OK
      /\ discovered \in BOOLEAN /\ session_open \in BOOLEAN
      /\ pc'[AppTask] = "free" <=> call[AppTask].op = "destroy"
      /\ pc[AppTask] \in {"build", "finish"}
  BY TheTask
  DEF AppTyped, AppTypeOK, MockInv, TypeOK, Decline, Finish, FinishDiscover, FinishStart,
      FinishEnd, FinishMethod, FinishQuery, FinishPsidSession, FinishRevert, Exchanged,
      Return
<1>1. ParseStatus(StatusAnswer(OPAL_STATUS_SUCCESS)) = OPAL_OK
  <2>1. /\ StatusAnswer(OPAL_STATUS_SUCCESS).kind = "method"
        /\ StatusByte(StatusAnswer(OPAL_STATUS_SUCCESS)) = OPAL_STATUS_SUCCESS
    BY DEF StatusAnswer, Answer, StatusByte, OPAL_STATUS_SUCCESS
  <2>2. CodeOfStatus(OPAL_STATUS_SUCCESS) = OPAL_OK
    <3>1. \A s : s = OPAL_STATUS_SUCCESS => CodeOfStatus(s) = OPAL_OK
      BY DEF CodeOfStatus, OPAL_STATUS_SUCCESS, OPAL_STATUS_NOT_AUTHORIZED,
             OPAL_STATUS_AUTHORITY_LOCKED_OUT, OPAL_STATUS_INVALID_PARAM
    <3> QED
      BY <3>1
  <2> QED
    BY <2>1, <2>2 DEF ParseStatus
<1>2. CASE Decline(AppTask)
  <2>1. UNCHANGED <<session_open, discovered>>
    BY <1>2 DEF Decline, discoveryVars, sessionVars
  <2>2. CASE Fails
    <3>1. WrongState(call[AppTask]) /\ call[AppTask].op # "destroy"
      BY <1>2, <2>2 DEF MockInv, Decline, WrongState, MethodOps
    <3>2. ret'[AppTask] # OPAL_OK
      BY <1>0, <1>2, <3>1
      DEF Decline, Return, WrongState, NothingToEnd, MethodOps, TypeOK, OPAL_OK,
          OPAL_ERR_PROTO, APPEND_FAILED
    <3> QED
      BY <1>0, <2>1, <2>2, <3>1, <3>2 DEF Outcome
  <2>3. CASE ~Fails
    <3>1. ~WrongState(call[AppTask]) /\ ~TooLong(call[AppTask])
      BY <1>2, <2>3 DEF MockInv, Decline, Admitted
    <3>2. /\ call[AppTask].op \in {"end_session", "destroy"} /\ ~session_open
          /\ ret'[AppTask] = OPAL_OK
      BY <1>0, <1>2, <3>1 DEF Decline, Return, NothingToEnd, TypeOK
    <3> QED
      BY <1>0, <2>1, <2>3, <3>2 DEF Outcome, StartOps, MethodOps
  <2> QED
    BY <2>2, <2>3
<1>3. CASE Finish(AppTask)
  <2>0. ~Fails /\ Answered /\ pc[AppTask] = "finish"
    BY <1>0, <1>3
    DEF MockInv, InExchange, Finish, FinishDiscover, FinishStart, FinishEnd, FinishMethod,
        FinishQuery, FinishPsidSession, FinishRevert, Exchanged
  <2>1. \/ cmd_buf.method = MethodOf(call[AppTask].op)
        \/ call[AppTask].op = "revert" /\ cmd_buf.method = "revert"
    BY <1>0, <2>0 DEF CommandOfCall
  <2>2. CASE FinishDiscover(AppTask)
    <3>1. call[AppTask].op = "discover" /\ cmd_buf.method = "discovery"
      BY <2>1, <2>2 DEF FinishDiscover, Exchanged, MethodOf, StartOps
    <3>2. resp_buf.com = 1 /\ next_op = "ses_open"
      BY <2>0, <3>1 DEF Answered, DiscoveryAnswer, Answer, StubComId
    <3> QED
      BY <1>0, <2>0, <2>2, <3>1, <3>2
      DEF FinishDiscover, Return, Outcome, StartOps, MethodOps, TypeOK, sessionVars
  <2>3. CASE FinishStart(AppTask)
    <3>1. call[AppTask].op \in StartOps /\ cmd_buf.method = "start_session"
      BY <2>1, <2>3 DEF FinishStart, Exchanged, MethodOf, StartOps
    <3>2. SessionOpens(AppTask) /\ next_op = "success"
      BY <1>0, <2>0, <3>1 DEF Answered, SessionOpens
    <3> QED
      BY <1>0, <2>0, <2>3, <3>1, <3>2
      DEF FinishStart, AdoptSession, Return, Outcome, StartOps, MethodOps, TypeOK,
          discoveryVars
  <2>4. CASE FinishEnd(AppTask)
    BY <1>0, <2>0, <2>4
    DEF FinishEnd, Exchanged, ForgetSession, Return, Outcome, StartOps, MethodOps, TypeOK,
        discoveryVars
  <2>5. CASE FinishMethod(AppTask)
    <3>1. /\ call[AppTask].op \in MethodOps
          /\ cmd_buf.method \notin {"start_session", "discovery", "end_session"}
      BY <2>1, <2>5 DEF FinishMethod, Exchanged, MethodOf, MethodOps, StartOps
    <3>2. ParseStatus(resp_buf) = OPAL_OK /\ next_op = "success"
      BY <1>1, <2>0, <3>1 DEF Answered
    <3> QED
      BY <1>0, <2>0, <2>5, <3>1, <3>2
      DEF FinishMethod, FirstError, Return, Outcome, StartOps, MethodOps, TypeOK,
          discoveryVars, sessionVars
  <2>6. CASE FinishQuery(AppTask)
    BY <1>0, <2>0, <2>6
    DEF FinishQuery, Exchanged, Return, Outcome, StartOps, MethodOps, TypeOK,
        discoveryVars, sessionVars
  <2>7. CASE FinishRevert(AppTask)
    <3>1. call[AppTask].op = "revert" /\ cmd_buf.method = "revert"
      BY <2>7 DEF FinishRevert, Exchanged
    <3>2. ParseStatus(resp_buf) = OPAL_OK
      BY <1>1, <2>0, <3>1 DEF Answered
    <3> QED
      BY <1>0, <2>0, <2>7, <3>1, <3>2
      DEF FinishRevert, ForgetSession, FirstError, Return, Outcome, StartOps, MethodOps,
          TypeOK
  <2>8. ~FinishPsidSession(AppTask)
    <3>1. SUFFICES ASSUME FinishPsidSession(AppTask) PROVE FALSE
      OBVIOUS
    <3>2. cmd_buf.method = "start_session"
      BY <3>1 DEF FinishPsidSession
    <3>3. SessionOpens(AppTask)
      BY <1>0, <2>0, <3>2 DEF Answered, SessionOpens
    <3> QED
      BY <1>0, <3>1, <3>3 DEF FinishPsidSession, TypeOK
  <2> QED
    BY <1>3, <2>2, <2>3, <2>4, <2>5, <2>6, <2>7, <2>8 DEF Finish
<1> QED
  BY <1>2, <1>3

LEMMA NextMock ==
  AppTyped /\ AppTyped' /\ CommandOfCall /\ MockInv /\ [AppNext]_appVars => MockInv'
<1> SUFFICES ASSUME AppTyped, AppTyped', CommandOfCall, MockInv, [AppNext]_appVars,
                    backend' = "mock"
             PROVE  MockInv'
  BY DEF MockInv
<1>0. /\ RunInv /\ TypeOK /\ AppTask \in Tasks /\ app \in Apps /\ app' = app
      /\ backend = "mock" /\ app \in Tests /\ app \notin FreeRtosApps
  <2>1. RunInv /\ TypeOK /\ AppTask \in Tasks /\ app \in Apps /\ app' = app
        /\ backend = "mock"
    BY TheTask
    DEF AppTyped, AppTypeOK, AppNext, AppProgress, AppDone, Creating, AppStep, IdleTaskFrees,
        appVars
  <2> QED
    BY <2>1 DEF RunInv, FreeRtosApps, Tests
<1>1. SessionTracked /\ MockReady /\ TestsPass
  BY <1>0 DEF MockInv
<1>2. CASE UNCHANGED <<vars, next_op, app, at, step>>
  BY <1>0, <1>2
  DEF MockInv, SessionTracked, MockReady, TestsPass, Known, OpenNow, Fails, Answered,
      InExchange, vars, discoveryVars, sessionVars, taskVars, WrongState, Admitted
<1>3. CASE Creating
  <2>1. /\ pc[AppTask] = "idle" /\ at \in {"create_task", "alloc", "mutex"}
        /\ UNCHANGED <<vars, next_op, step>> /\ step = 1
    BY <1>0, <1>3
    DEF Creating, xTaskCreate, AllocDev, CreateMutex, OutOfMemory, RunInv, Outside
  <2>2. UNCHANGED <<session_open, pc, call, ret>>
    BY <2>1 DEF vars, sessionVars, taskVars
  <2>3. ~OpenNow /\ ~OpenNow' /\ ~Known'
    BY <1>0, <2>1 DEF OpenNow, OpenAt, Known
  <2>4. ~session_open
    BY <1>1, <2>1, <2>3 DEF SessionTracked, InExchange
  <2> QED
    BY <1>0, <1>1, <2>1, <2>2, <2>3, <2>4
    DEF MockInv, SessionTracked, MockReady, TestsPass, InExchange
<1>4. CASE AppStep(AppTask)
  <2>0. /\ at' = IF pc'[AppTask] = "idle" THEN After(at, ret'[AppTask]) ELSE at
        /\ step' = IF pc'[AppTask] = "idle" /\ at = "script" THEN step + 1 ELSE step
        /\ at \notin Outside
    BY <1>0, <1>4, InsideShape, CallingShape DEF AppStep, RunInv
  <2>1. CASE pc'[AppTask] = "idle" /\ at # "destroy"
    <3>1. /\ Known => discovered
          /\ OpAt(at) # "revert" \/ Fails => (session_open <=> OpenNow)
          /\ Outcome(OpAt(at))
      <4>1. CASE Calling(AppTask)
        <5>1. pc[AppTask] = "idle" /\ EarlyCode(CallAt(at)) # OPAL_OK
              /\ ret'[AppTask] = EarlyCode(CallAt(at))
          BY <1>0, <2>1, <4>1, CallingShape
        <5>2. UNCHANGED <<session_open, discovered>>
          BY <2>1, <4>1 DEF Calling, CallWith, sessionVars, discoveryVars
        <5>3. Fails
          BY <1>0, <1>1, <2>0, <2>1, <4>1, <5>1, CallFits DEF Calling
        <5> QED
          BY <1>1, <2>0, <5>1, <5>2, <5>3
          DEF Outcome, SessionTracked, InExchange, Outside
      <4>2. CASE Inside(AppTask) \/ Exchange(AppTask)
        <5>1. Decline(AppTask) \/ Finish(AppTask)
          BY <1>0, <2>1, <4>2
          DEF Inside, Exchange, Acquire, Build, Send, Recv, StubSends, StubReceives, Free,
              RunInv, TypeOK
        <5>2. UNCHANGED next_op
          BY <4>2, <5>1
          DEF Inside, Exchange, Send, Recv, StubSends, StubReceives, Decline, Finish,
              FinishDiscover, FinishStart, FinishEnd, FinishMethod, FinishQuery,
              FinishPsidSession, FinishRevert, Exchanged
        <5>3. pc[AppTask] \in {"build", "finish"} /\ Outcome(call[AppTask].op)
          BY <1>0, <2>1, <5>1, <5>2, Returns
        <5>4. call[AppTask].op = OpAt(at)
          BY <1>0, <5>3 DEF RunInv
        <5>5. Fails => pc[AppTask] = "build"
          BY <1>0, <5>3 DEF MockInv, InExchange
        <5> QED
          BY <1>1, <2>0, <5>3, <5>4, <5>5 DEF SessionTracked, InExchange, Outside
      <4> QED
        BY <1>4, <4>1, <4>2 DEF AppStep
    <3>2. SessionTracked' /\ MockReady' /\ TestsPass'
      BY <1>0, <1>1, <2>0, <2>1, <3>1, AfterCall
    <3> QED
      BY <2>1, <3>2 DEF MockInv, InExchange
  <2>2. CASE pc'[AppTask] = "idle" /\ at = "destroy"
    <3>1. Free(AppTask)
      BY <1>0, <1>4, <2>2, CallingShape
      DEF AppStep, Inside, Exchange, Acquire, Build, Send, Recv, StubSends, StubReceives,
          Decline, Finish, FinishDiscover, FinishStart, FinishEnd, FinishMethod, FinishQuery,
          FinishPsidSession, FinishRevert, Exchanged, Return, RunInv, OpAt, TypeOK
    <3>2. ret'[AppTask] = OPAL_OK
      BY <1>0, <3>1 DEF MockInv, Free
    <3>3. at' = "done"
      BY <1>0, <2>0, <2>2, AfterLabel DEF RunInv
    <3>4. Known' => discovered'
      BY <1>0, <1>1, <2>0, <2>2, <3>1, <3>3
      DEF Free, Known, SessionTracked, discoveryVars
    <3> QED
      BY <1>0, <2>2, <3>2, <3>3, <3>4
      DEF MockInv, SessionTracked, MockReady, TestsPass, InExchange
  <2>3. CASE pc'[AppTask] # "idle"
    <3>0. at' = at /\ step' = step /\ (Fails' <=> Fails) /\ (Known' <=> Known)
          /\ (OpenNow' <=> OpenNow)
      BY <1>0, <2>0, <2>3 DEF Fails, Known, OpenNow
    <3>1. MockReady' /\ TestsPass'
      BY <1>0, <1>1, <2>3, <3>0 DEF MockReady, TestsPass
    <3>2. CASE Calling(AppTask)
      <4>1. /\ pc[AppTask] = "idle" /\ pc'[AppTask] \in {"lock", "free"}
            /\ UNCHANGED <<session_open, discovered>> /\ ret'[AppTask] = OPAL_OK
        BY <1>0, <2>3, <3>2, CallingShape
        DEF Calling, CallWith, CallDestroy, sessionVars, discoveryVars, TypeOK
      <4>2. SessionTracked'
        BY <1>1, <2>0, <3>0, <4>1 DEF SessionTracked, InExchange, Outside
      <4>3. IF Fails THEN WrongState(call'[AppTask])
                     ELSE Admitted(call'[AppTask], next_op')
        <5>1. CASE at = "destroy"
          <6>1. call'[AppTask].op = "destroy" /\ ~Fails
            BY <1>0, <3>2, <5>1, CallingShape DEF Fails
          <6> QED
            BY <6>1
            DEF Admitted, WrongState, TooLong, InStep, MethodOf, StartOps, MethodOps
        <5>2. CASE at # "destroy"
          <6>1. call'[AppTask] = CallAt(at) /\ EarlyCode(CallAt(at)) = OPAL_OK
            BY <1>0, <2>3, <3>2, <4>1, <5>2, CallingShape DEF Calling, CallWith, TypeOK
          <6> QED
            BY <1>0, <1>1, <2>0, <3>2, <4>1, <5>2, <6>1, CallFits DEF Calling
        <5> QED
          BY <5>1, <5>2
      <4>4. (WrongState(call[AppTask]))' <=> WrongState(call'[AppTask])
        BY <4>1 DEF WrongState
      <4> QED
        BY <3>0, <3>1, <4>1, <4>2, <4>3, <4>4 DEF MockInv, InExchange, Admitted
    <3>3. CASE UNCHANGED next_op /\ Acquire(AppTask)
      <4>1. /\ pc[AppTask] = "lock" /\ pc'[AppTask] = "build"
            /\ UNCHANGED <<session_open, discovered, call, ret>>
        BY <1>0, <3>3 DEF Acquire, sessionVars, discoveryVars, TypeOK
      <4> QED
        BY <1>0, <1>1, <3>0, <3>1, <3>3, <4>1
        DEF MockInv, SessionTracked, InExchange, Admitted, WrongState
    <3>4. CASE UNCHANGED next_op /\ Build(AppTask)
      <4>1. /\ pc[AppTask] = "build" /\ pc'[AppTask] = "send"
            /\ UNCHANGED <<session_open, discovered, call, ret>>
            /\ ~WrongState(call[AppTask])
            /\ cmd_buf'.method = MethodOf(call[AppTask].op)
            /\ cmd_buf'.method = "discovery" => cmd_buf'.com = OPAL_DISCOVERY_COMID
        BY <1>0, <3>4 DEF Build, Packet, sessionVars, discoveryVars, TypeOK
      <4>2. ~Fails /\ InStep(cmd_buf'.method, next_op')
        BY <1>0, <3>4, <4>1 DEF MockInv, Admitted
      <4>3. SessionTracked'
        BY <1>1, <2>0, <3>0, <4>1 DEF SessionTracked, InExchange, Outside
      <4> QED
        BY <1>0, <3>0, <3>1, <3>4, <4>1, <4>2, <4>3 DEF MockInv, InExchange
    <3>5. CASE StubSends(AppTask)
      <4>1. /\ pc[AppTask] = "send" /\ pc'[AppTask] = "recv" /\ MockSend(cmd_buf)
            /\ UNCHANGED <<session_open, discovered, call, ret, cmd_buf>>
        BY <1>0, <3>5 DEF StubSends, sessionVars, discoveryVars, TypeOK
      <4>2. /\ cmd_buf.method = "discovery" => next_op' = "discovery"
            /\ cmd_buf.method \notin {"discovery", "end_session"} => next_op' = next_op
        <5>1. /\ cmd_buf.method = "discovery" => cmd_buf.com = OPAL_DISCOVERY_COMID
                                               /\ PacketLen(cmd_buf.method) <= 56
              /\ cmd_buf.method \notin {"discovery", "end_session"} =>
                   ~(PacketLen(cmd_buf.method) <= 56)
          BY <1>0, <4>1
          DEF MockInv, InExchange, PacketLen, MethodLen, TotalHdrLen, CallHeaderLen, UidLen,
              BytesLen, EodLen
        <5> QED
          BY <4>1, <5>1 DEF MockSend
      <4>3. ~Fails /\ InStep(cmd_buf.method, next_op)
            /\ (cmd_buf.method = "discovery" => cmd_buf.com = OPAL_DISCOVERY_COMID)
        BY <1>0, <4>1 DEF MockInv, InExchange
      <4>4. SessionTracked'
        BY <1>1, <2>0, <3>0, <4>1 DEF SessionTracked, InExchange, Outside
      <4> QED
        BY <1>0, <3>0, <3>1, <4>1, <4>2, <4>3, <4>4 DEF MockInv, InExchange, InStep
    <3>6. CASE StubReceives(AppTask)
      <4>1. /\ pc[AppTask] = "recv" /\ pc'[AppTask] = "finish"
            /\ UNCHANGED <<session_open, discovered, call, ret, cmd_buf>>
            /\ resp_buf' = StubAnswer /\ StubRecv
        BY <1>0, <3>6 DEF StubReceives, sessionVars, discoveryVars, TypeOK
      <4>2. /\ ~Fails /\ InStep(cmd_buf.method, next_op)
            /\ cmd_buf.method = "discovery" =>
                 cmd_buf.com = OPAL_DISCOVERY_COMID /\ next_op = "discovery"
        BY <1>0, <4>1 DEF MockInv, InExchange
      <4>3. Answered'
        BY <4>1, <4>2 DEF Answered, InStep, StubAnswer, StubRecv, SyncAnswer, Answer
      <4>4. SessionTracked'
        BY <1>1, <2>0, <3>0, <4>1 DEF SessionTracked, InExchange, Outside
      <4> QED
        BY <1>0, <3>0, <3>1, <4>1, <4>2, <4>3, <4>4 DEF MockInv, InExchange
    <3>7. CASE /\ UNCHANGED next_op /\ pc'[AppTask] = "free"
               /\ Decline(AppTask) \/ Finish(AppTask)
      <4>1. ret'[AppTask] = OPAL_OK /\ UNCHANGED discovered
        BY <1>0, <3>7, Returns
      <4> QED
        BY <1>0, <1>1, <3>0, <3>1, <3>7, <4>1 DEF MockInv, SessionTracked, InExchange
    <3>8. CASE UNCHANGED next_op /\ FinishPsidSession(AppTask) /\ pc'[AppTask] = "send"
      <4>1. /\ pc[AppTask] = "finish" /\ cmd_buf.method = "start_session"
            /\ call[AppTask].op = "revert" /\ cmd_buf'.method = "revert"
            /\ UNCHANGED <<call, ret, discovered>>
        BY <1>0, <3>8
        DEF FinishPsidSession, Exchanged, Return, Packet, discoveryVars, TypeOK
      <4>2. ~Fails /\ next_op = "success"
        BY <1>0, <4>1 DEF MockInv, InExchange, Answered
      <4>3. SessionTracked'
        BY <1>1, <3>0, <3>8, <4>1 DEF SessionTracked, InExchange
      <4> QED
        BY <1>0, <3>0, <3>1, <3>8, <4>1, <4>2, <4>3 DEF MockInv, InExchange, InStep
    <3>9. CASE Inside(AppTask)
      <4>1. CASE Decline(AppTask) \/ Finish(AppTask)
        BY <1>0, <2>3, <3>7, <3>8, <3>9, <4>1
        DEF Inside, Decline, Finish, FinishDiscover, FinishStart, FinishEnd, FinishMethod,
            FinishQuery, FinishPsidSession, FinishRevert, Return, TypeOK
      <4>2. ~Free(AppTask)
        BY <1>0, <2>3 DEF Free, TypeOK
      <4> QED
        BY <3>3, <3>4, <3>9, <4>1, <4>2 DEF Inside
    <3> QED
      BY <1>0, <1>4, <3>2, <3>5, <3>6, <3>9 DEF AppStep, Exchange
  <2> QED
    BY <2>1, <2>2, <2>3
<1> QED
  BY <1>2, <1>3, <1>4 DEF AppNext, AppProgress, AppDone, IdleTaskFrees, appVars

LEMMA InitMock == AppInit => CommandOfCall /\ MockInv
<1> SUFFICES ASSUME AppInit PROVE CommandOfCall /\ MockInv
  OBVIOUS
<1>1. /\ pc[AppTask] = "idle" /\ ret[AppTask] = OPAL_OK /\ ~session_open /\ step = 1
      /\ at \in {"create_task", "alloc"}
  BY TheTask DEF AppInit, Init
<1>2. ~OpenNow /\ ~Known
  BY <1>1 DEF OpenNow, Known, OpenAt
<1> QED
  BY <1>1, <1>2, TheTask
  DEF AppInit, Init, CommandOfCall, MockInv, SessionTracked, MockReady, TestsPass,
      InExchange

LEMMA MockInvariant == AppSpec => [](AppTyped /\ MockInv)
BY InitTyped, NextTyped, InitMock, NextAppCommand, NextMock, PTL DEF AppSpec

(* Whatever sequence of calls a program makes, the mock gives a discovery,  *)
(* a StartSession and a method each the answer it asks for.                 *)
THEOREM MockInStep == AppSpec => []MockAnswersInStep
<1>1. AppTyped /\ MockInv => MockAnswersInStep
  BY DEF MockInv, MockAnswersInStep, Answered, DiscoveryAnswer, StatusAnswer, Answer
<1> QED
  BY <1>1, MockInvariant, PTL

(* Every assertion of every test holds, whichever allocation fails.         *)
THEOREM TestsAlwaysPass == AppSpec => []TestsPass
<1>1. AppTyped /\ MockInv => TestsPass
  BY DEF AppTyped, RunInv, MockInv, TestsPass
<1> QED
  BY <1>1, MockInvariant, PTL
=============================================================================
