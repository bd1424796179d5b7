------------------------------ MODULE OpalApp -------------------------------
(***************************************************************************)
(* The programs on top of OpalCore, one task each: opal_main_task of        *)
(* app/opal_app_freertos.c and opal_task of ral/opal_app_freertos.c under   *)
(* FreeRTOS, and the test groups of tests/test_opal_core.c under POSIX.     *)
(* The tests run on the mock; the FreeRTOS programs call                    *)
(* opal_transport_hw_init, behind which is the hardware stub or the driver  *)
(* that replaces it, in front of a drive.  Which one is fixed at link time  *)
(* and chosen in AppInit.  The program starts where main does: with no task *)
(* created and nothing allocated, which is where it ends, too.              *)
(***************************************************************************)
EXTENDS OpalTests, OpalStubs

CONSTANTS
  Apps,        \* the programs considered
  Backends,    \* the transports considered
  AppTask      \* the program's task

FreeRtosApps == {"main_task", "opal_task"}

ASSUME AppAssumption ==
  /\ Apps \subseteq FreeRtosApps \cup Tests
  /\ Apps \cap Tests # {} => {0, 1} \subseteq UserIds \cap RangeIds
  /\ Backends \subseteq {"drive", "hw", "mock"}
  /\ Tasks = {AppTask} /\ Operations = AllOperations
  /\ LenOf(InitialPin) = 6    \* ADMIN_PIN, LOCKING_PIN

VARIABLES
  app,         \* the program
  backend,     \* its transport
  at,          \* the API call the task makes next, or is inside
  step,        \* of a test's script
  heap         \* what is allocated of: the task, the context, its mutex

appVars == <<vars, next_op, app, backend, at, step, heap>>

Labels == {"create_task", "alloc", "mutex", "discover", "start_admin", "activate",
           "end_activated", "end_failed", "start_locking", "lock", "unlock", "end",
           "script", "destroy", "done", "halted"}

(* Every variable of the program, its transport and the core has its type.  *)
AppTypeOK ==
  /\ TypeOK /\ StubTypeOK
  /\ app \in Apps /\ backend \in Backends /\ at \in Labels
  /\ step \in 1 .. MaxCalls + 1 /\ heap \subseteq {"task", "dev", "mutex"}

AppInit ==
  /\ Init /\ StubInit
  /\ app \in Apps /\ backend \in Backends
  /\ app \in Tests <=> backend = "mock"
  /\ at = IF app \in Tests THEN "alloc" ELSE "create_task"
  /\ step = 1 /\ heap = {}

-----------------------------------------------------------------------------
(* Creation.  An allocation that fails under FreeRTOS ends in the           *)
(* malloc-failed hook, which halts, before anybody sees the NULL; under     *)
(* POSIX opal_dev_init frees what it has and returns NULL, and every call   *)
(* of the test then returns from its NULL check.                            *)
OutOfMemory ==
  IF app \in FreeRtosApps THEN at' = "halted" /\ UNCHANGED heap
                          ELSE at' = "done" /\ heap' = {}

xTaskCreate ==
  /\ at = "create_task"
  /\ \/ heap' = {"task"} /\ at' = "alloc"
     \/ OutOfMemory

AllocDev ==
  /\ at = "alloc"
  /\ \/ heap' = heap \cup {"dev"} /\ at' = "mutex"
     \/ OutOfMemory

FirstLabel == IF app \in FreeRtosApps THEN "discover"
              ELSE IF Script(app) = <<>> THEN "destroy" ELSE "script"

(* MUTANT: opal_dev_init does not look at what opal_mutex_create returned.  *)
CreateMutex_Unchecked ==
  /\ at = "mutex"
  /\ \/ heap' = heap \cup {"mutex"} /\ at' = FirstLabel
     \/ IF app \in FreeRtosApps THEN OutOfMemory
        ELSE at' = FirstLabel /\ UNCHANGED heap

CreateMutex ==
  /\ at = "mutex"
  /\ \/ heap' = heap \cup {"mutex"} /\ at' = FirstLabel
     \/ OutOfMemory

Creating ==
  /\ xTaskCreate \/ AllocDev \/ CreateMutex
  /\ UNCHANGED <<vars, next_op, app, backend, step>>

-----------------------------------------------------------------------------
(* disc.locking_enabled as opal_discover has just reported it; the hardware *)
(* stub reports it set.                                                     *)
LockingEnabled == backend = "hw" \/ active

(* opal_main_task: activation only, whatever the state of the drive.        *)
MainTaskAfter(l, r) ==
  CASE l = "discover"    -> IF r = OPAL_OK THEN "start_admin" ELSE "destroy"
    [] l = "start_admin" -> IF r = OPAL_OK THEN "activate" ELSE "destroy"
    [] l = "activate"    -> "end"
    [] l = "end"         -> "destroy"
    [] OTHER             -> "done"

(* MUTANT: opal_task leaves for the cleanup before it ends the AdminSP      *)
(* session.                                                                 *)
OpalTaskAfter_NoEnd(l, r) ==
  CASE l = "discover" ->
         IF r # OPAL_OK THEN "destroy"
         ELSE IF LockingEnabled THEN "start_locking" ELSE "start_admin"
    [] l = "start_admin"   -> IF r = OPAL_OK THEN "activate" ELSE "destroy"
    [] l = "activate"      -> IF r = OPAL_OK THEN "start_locking" ELSE "destroy"
    [] l = "start_locking" -> IF r = OPAL_OK THEN "lock" ELSE "destroy"
    [] l = "lock"          -> IF r = OPAL_OK THEN "unlock" ELSE "end"
    [] l = "unlock"        -> "end"
    [] l = "end"           -> "destroy"
    [] OTHER               -> "done"

(* MUTANT: opal_task goes on to lock in the AdminSP session it has just     *)
(* activated the LockingSP in.                                              *)
OpalTaskAfter_StaysInAdmin(l, r) ==
  CASE l = "discover" ->
         IF r # OPAL_OK THEN "destroy"
         ELSE IF LockingEnabled THEN "start_locking" ELSE "start_admin"
    [] l = "start_admin"   -> IF r = OPAL_OK THEN "activate" ELSE "destroy"
    [] l = "activate"      -> IF r = OPAL_OK THEN "lock" ELSE "end_failed"
    [] l = "start_locking" -> IF r = OPAL_OK THEN "lock" ELSE "destroy"
    [] l = "lock"          -> IF r = OPAL_OK THEN "unlock" ELSE "end"
    [] l = "unlock"        -> "end"
    [] l \in {"end", "end_failed"} -> "destroy"
    [] OTHER               -> "done"

(* opal_task: opal_end_session's own result after the activation is not     *)
(* looked at; opal_activate_locking_sp's is, afterwards.                    *)
OpalTaskAfter(l, r) ==
  CASE l = "discover" ->
         IF r # OPAL_OK THEN "destroy"
         ELSE IF LockingEnabled THEN "start_locking" ELSE "start_admin"
    [] l = "start_admin"   -> IF r = OPAL_OK THEN "activate" ELSE "destroy"
    [] l = "activate"      -> IF r = OPAL_OK THEN "end_activated" ELSE "end_failed"
    [] l = "end_activated" -> "start_locking"
    [] l = "end_failed"    -> "destroy"
    [] l = "start_locking" -> IF r = OPAL_OK THEN "lock" ELSE "destroy"
    [] l = "lock"          -> IF r = OPAL_OK THEN "unlock" ELSE "end"
    [] l = "unlock"        -> "end"
    [] l = "end"           -> "destroy"
    [] OTHER               -> "done"

TestAfter(l) == IF l = "destroy" THEN "done"
                ELSE IF step = Len(Script(app)) THEN "destroy" ELSE "script"

After(l, r) == CASE app = "main_task" -> MainTaskAfter(l, r)
                 [] app = "opal_task" -> OpalTaskAfter(l, r)
                 [] OTHER             -> TestAfter(l)

(* The call each label stands for; opal_task passes its PIN, opal_main_task *)
(* none.                                                                    *)
CallAt(l) ==
  CASE l = "script"        -> Script(app)[step].call
    [] l = "discover"      -> [NoCall EXCEPT !.op = "discover"]
    [] l = "start_admin"   -> [NoCall EXCEPT !.op = "start_admin",
                                 !.pin = IF app = "main_task" THEN NoPin ELSE InitialPin]
    [] l = "activate"      -> [NoCall EXCEPT !.op = "activate"]
    [] l = "start_locking" -> [NoCall EXCEPT !.op = "start_locking", !.pin = InitialPin]
    [] l = "lock"          -> [NoCall EXCEPT !.op = "set_lock", !.val = TRUE]
    [] l = "unlock"        -> [NoCall EXCEPT !.op = "set_lock"]
    [] OTHER               -> [NoCall EXCEPT !.op = "end_session"]

-----------------------------------------------------------------------------
(* The exchange with one of the stubs. *)
StubSends(t) ==
  /\ pc[t] = "send"
  /\ \/ backend = "hw" /\ HwSend(cmd_buf)
     \/ backend = "mock" /\ MockSend(cmd_buf)
  /\ pc' = [pc EXCEPT ![t] = "recv"]
  /\ UNCHANGED <<lock, discoveryVars, sessionVars, cmd_buf, resp_buf, handle, call,
                 ret, out, calls, driveVars>>

StubReceives(t) ==
  /\ pc[t] = "recv" /\ backend # "drive"
  /\ resp_buf' = StubAnswer /\ StubRecv
  /\ pc' = [pc EXCEPT ![t] = "finish"]
  /\ UNCHANGED <<lock, discoveryVars, sessionVars, cmd_buf, handle, call, ret, out,
                 calls, driveVars>>

Exchange(t) ==
  \/ backend = "drive" /\ (Send(t) \/ Recv(t)) /\ UNCHANGED next_op
  \/ StubSends(t) \/ StubReceives(t)

Calling(t) ==
  /\ at \notin {"create_task", "alloc", "mutex", "done", "halted"}
  /\ IF at = "destroy" THEN CallDestroy(t) ELSE CallWith(t, CallAt(at))
  /\ next_op' = IF at = "script" /\ Script(app)[step].next # "keep"
                THEN Script(app)[step].next ELSE next_op

Inside(t) ==
  /\ UNCHANGED next_op
  /\ Acquire(t) \/ Decline(t) \/ Build(t) \/ Finish(t) \/ Free(t)

(* A step of the task; when the call returns, the task goes on from r.      *)
(* opal_mutex_destroy and opal_free give back what opal_dev_init took.      *)
AppStep(t) ==
  /\ Calling(t) \/ Inside(t) \/ Exchange(t)
  /\ at' = IF pc'[t] = "idle" THEN After(at, ret'[t]) ELSE at
  /\ step' = IF pc'[t] = "idle" /\ at = "script" THEN step + 1 ELSE step
  /\ heap' = IF handle' = "freed" THEN heap \ {"dev", "mutex"} ELSE heap
  /\ UNCHANGED <<app, backend>>

(* vTaskDelete(NULL): the idle task frees the stack of the deleted task.    *)
IdleTaskFrees ==
  /\ at = "done" /\ "task" \in heap
  /\ heap' = heap \ {"task"}
  /\ UNCHANGED <<vars, next_op, app, backend, at, step>>

AppDone ==
  /\ at = "halted" \/ (at = "done" /\ "task" \notin heap)
  /\ UNCHANGED appVars

AppProgress == Creating \/ AppStep(AppTask) \/ IdleTaskFrees
AppNext == AppProgress \/ AppDone

AppSpec == AppInit /\ [][AppNext]_appVars
AppFairSpec == AppSpec /\ WF_appVars(AppProgress)

-----------------------------------------------------------------------------
(* A FreeRTOS task never opens a session on top of an open one and never    *)
(* leaves one for opal_dev_destroy to end, whichever call failed on its way.*)
AppNeverDropsSession ==
  app \in FreeRtosApps /\ pc[AppTask] = "idle" /\ at \in {"start_admin", "start_locking", "destroy"}
    => ~session_open

(* Activate is only ever sent in an AdminSP session and Set only in a       *)
(* LockingSP session, even after an exchange failed on the way.             *)
AppMethodsRightSp ==
  backend = "drive" /\ pc[AppTask] = "send" =>
    /\ cmd_buf.method = "activate" => InSession(cmd_buf, "admin")
    /\ cmd_buf.method = "set_lock" => InSession(cmd_buf, "locking")

(* No call runs without the context and the mutex opal_dev_init allocated,  *)
(* and the program ends with neither, whichever allocation failed.          *)
HeapMatchesContext ==
  /\ pc[AppTask] # "idle" => {"dev", "mutex"} \subseteq heap
  /\ at = "done" => heap \subseteq {"task"}

(* What the tests assert of each result is what the core returns, through   *)
(* all the answers of the mock that the calls before have left behind.  A   *)
(* test that runs out of memory ends without its calls.                     *)
TestsPass ==
  app \in Tests /\ pc[AppTask] = "idle" /\ at \in {"script", "destroy"} /\ step > 1
    => Holds(Script(app)[step - 1].expect, ret[AppTask])

(* The mock never answers out of step: a discovery, a StartSession and a    *)
(* method each get the answer they ask for, although the mock goes by the   *)
(* length of the packet and by the answer it gave before.                   *)
MockAnswersInStep ==
  backend = "mock" /\ pc[AppTask] = "finish" =>
    CASE cmd_buf.method = "discovery"     -> resp_buf.kind = "disc"
      [] cmd_buf.method = "start_session" -> resp_buf.kind = "sync"
      [] cmd_buf.method = "end_session"   -> TRUE
      [] OTHER                            -> resp_buf.kind = "method"

(* The program comes to its end, whatever the drive and the transport do,   *)
(* and then nothing of it is left on the heap.                              *)
AppTerminates == <>(at = "halted" \/ (at = "done" /\ heap = {}))

(* opal_task opens a LockingSP session and locks the GlobalRange, unless it *)
(* runs out of memory.                                                      *)
DemoLocksRange == <>(at \in {"lock", "halted"})
=============================================================================
