------------------------------ MODULE OpalCore ------------------------------
(***************************************************************************)
(* core/opal_core.c: one device context, shared by the tasks that call its  *)
(* API, in front of the drive of OpalDrive.  Every operation is a sequence  *)
(* of steps: the checks made before the mutex is taken, the wait for the    *)
(* mutex, the checks made and the command built under it, IF-SEND, the      *)
(* 10 ms sleep and the single IF-RECV, and the parse and unlock.  Init is   *)
(* the context opal_dev_init returns.  After opal_free a task still inside  *)
(* a call runs on freed memory: NoUseAfterFree says when that happens, and  *)
(* what such a task does next is not to be read into the model.             *)
(***************************************************************************)
EXTENDS OpalDrive

CONSTANTS
  Tasks,            \* the tasks that share the device context
  NoTask,           \* the owner of the free mutex
  Operations,       \* the API functions these tasks call
  PinLen,           \* the length each PIN is passed with
  MaxCalls,         \* bound: calls each task makes
  Faults,           \* transport faults: "send", "recv", "late"
  Quiesce,          \* TRUE: opal_dev_destroy is called when no call is running
  StatusBeforeEod   \* TRUE: the drive puts the status list where
                    \* parse_status's comment says it is; FALSE: after
                    \* ENDOFDATA, where append_eod and both stubs put it

StartOps == {"start_admin", "start_locking"}
MethodOps == {"set_lock", "activate", "set_password"}
AllOperations == StartOps \cup MethodOps
                   \cup {"discover", "end_session", "revert", "query", "destroy"}

ASSUME CoreAssumption ==
  /\ NoTask \notin Tasks
  /\ Operations \subseteq AllOperations
  /\ PinLen \in [Pins -> Nat]
  /\ MaxCalls \in Nat
  /\ Faults \subseteq {"send", "recv", "late"}
  /\ Quiesce \in BOOLEAN /\ StatusBeforeEod \in BOOLEAN

VARIABLES
  (* struct opal_dev *)
  lock,             \* who holds dev->lock
  discovered,
  base_com_id,      \* dev->discovery.base_com_id, 0 when zeroed
  session_open,
  tper_session_id,
  com_id,
  cmd_buf,          \* the command in cmd_buf
  resp_buf,         \* the answer in resp_buf
  handle,           \* what became of the pointer opal_dev_init returned
  (* the tasks *)
  pc, call,
  ret,              \* r of the running call; the last return value after it
  out,              \* *read_locked as the last query left it
  calls             \* calls made so far

sessionVars == <<session_open, tper_session_id>>
discoveryVars == <<discovered, base_com_id, com_id>>
taskVars == <<pc, call, ret, out, calls>>
vars == <<lock, discoveryVars, sessionVars, cmd_buf, resp_buf, handle, taskVars,
          driveVars>>

-----------------------------------------------------------------------------
(* Calls and their arguments. *)

NoCall == [op |-> "none", user |-> 0, range |-> 0, val |-> FALSE, pin |-> NoPin]

PinArgs == Pins \cup {NoPin}
LenOf(p) == IF p = NoPin THEN 0 ELSE PinLen[p]

Calls == [op : AllOperations \cup {"none"}, user : UserIds, range : RangeIds,
          val : BOOLEAN, pin : PinArgs]

(* The calls with the arguments each operation takes; the rest are fixed. *)
CallsOf(ops, us, rs, vs, ps) ==
  [op : ops, user : us, range : rs, val : vs, pin : ps]

Requests ==
  {c \in CallsOf({"discover", "end_session", "activate"}, {0}, {0}, {FALSE}, {NoPin})
     \cup CallsOf({"start_admin", "revert"}, {0}, {0}, {FALSE}, PinArgs)
     \cup CallsOf({"start_locking", "set_password"}, UserIds, {0}, {FALSE}, PinArgs)
     \cup CallsOf({"set_lock"}, {0}, RangeIds, BOOLEAN, {NoPin})
     \cup CallsOf({"query"}, {0}, RangeIds, {FALSE}, {NoPin}) :
     c.op \in Operations}

DestroyCall == [NoCall EXCEPT !.op = "destroy"]

-----------------------------------------------------------------------------
PcStates == {"idle", "lock", "build", "send", "recv", "finish", "free"}

(* Every variable of the device context and the tasks has its type; the    *)
(* return value of a call is one of opal_core.h's codes or the 1 of a failed *)
(* append_.                                                                  *)
TypeOK ==
  /\ lock \in Tasks \cup {NoTask}
  /\ discovered \in BOOLEAN /\ base_com_id \in Nat /\ com_id \in Nat
  /\ session_open \in BOOLEAN /\ tper_session_id \in Nat
  /\ cmd_buf \in Commands /\ resp_buf \in Answers
  /\ handle \in {"live", "closing", "freed"}
  /\ pc \in [Tasks -> PcStates]
  /\ call \in [Tasks -> Calls]
  /\ ret \in [Tasks -> ReturnCodes]
  /\ out \in [Tasks -> BOOLEAN]
  /\ calls \in [Tasks -> Nat]
  /\ DriveTypeOK

NoCommand == [method |-> "none", tsn |-> 0, com |-> 0, sp |-> "admin", user |-> 0,
              range |-> 0, val |-> FALSE, pin |-> NoPin]

Init ==
  /\ lock = NoTask
  /\ discovered = FALSE /\ base_com_id = 0 /\ com_id = 0
  /\ session_open = FALSE /\ tper_session_id = 0
  /\ cmd_buf = NoCommand /\ resp_buf = EmptyAnswer
  /\ handle = "live"
  /\ pc = [t \in Tasks |-> "idle"]
  /\ call = [t \in Tasks |-> NoCall]
  /\ ret = [t \in Tasks |-> OPAL_OK]
  /\ out = [t \in Tasks |-> FALSE]
  /\ calls = [t \in Tasks |-> 0]
  /\ DriveInit

-----------------------------------------------------------------------------
(* MUTANT: the calls that open a session do not look at discovered. *)
EarlyCode_NoDiscoveryCheck(c) ==
  IF \/ c.op = "start_admin" /\ LenOf(c.pin) > MaxPinLen
     \/ c.op = "set_password" /\ LenOf(c.pin) \notin 1 .. MaxPinLen
     \/ c.op = "revert" /\ LenOf(c.pin) = 0
  THEN OPAL_ERR_PARAM ELSE OPAL_OK

(* What each function checks before it takes the mutex. *)
EarlyCode(c) ==
  IF \/ c.op = "start_admin" /\ LenOf(c.pin) > MaxPinLen
     \/ c.op = "set_password" /\ LenOf(c.pin) \notin 1 .. MaxPinLen
     \/ c.op = "revert" /\ LenOf(c.pin) = 0
  THEN OPAL_ERR_PARAM
  ELSE IF c.op \in StartOps /\ ~discovered THEN OPAL_ERR_PROTO
  ELSE OPAL_OK

(* Whether the command of call c is too long for cmd_buf. *)
TooLong(c) ==
  \/ c.op \in StartOps \cup {"revert"} /\ Overflows(StartSessionLen(LenOf(c.pin)))
  \/ /\ c.op = "set_password"
     /\ Overflows(MethodLen(5 + NamedLen(BytesLen(LenOf(c.pin)))))

(* MUTANTS: one of the checks under the mutex is missing. *)
WrongState_AdminUnchecked(c) ==
  \/ c.op \in MethodOps \cup {"query"} /\ ~session_open
  \/ c.op = "revert" /\ ~discovered
WrongState_MethodsUnchecked(c) ==
  \/ c.op = "start_admin" /\ session_open
  \/ c.op = "revert" /\ ~discovered

(* What each function checks once it holds the mutex. *)
WrongState(c) ==
  \/ c.op = "start_admin" /\ session_open
  \/ c.op \in MethodOps \cup {"query"} /\ ~session_open
  \/ c.op = "revert" /\ ~discovered

NothingToEnd(c) == c.op \in {"end_session", "destroy"} /\ ~session_open

MethodOf(o) ==
  CASE o = "discover"                     -> "discovery"
    [] o \in StartOps \cup {"revert"}     -> "start_session"
    [] o \in {"end_session", "destroy"}   -> "end_session"
    [] o = "set_password"                 -> "set_pin"
    [] o = "query"                        -> "get"
    [] OTHER                              -> o

(* MUTANT: the user's number is not written into cpin_uid either. *)
PinRows_UserUnset(c) ==
  IF c.op # "set_password" THEN {c.user} ELSE UserIds \cup {NoRow}

(* The C_PIN row opal_set_password addresses.  cpin_uid is uninitialised:   *)
(* for user 0 all its bytes are, for user N all but two.                    *)
PinRows(c) ==
  IF c.op # "set_password" THEN {c.user}
  ELSE IF c.user = 0 THEN UserIds \cup {NoRow}
  ELSE {c.user, NoRow}

(* The packet as buf_finalise stamps it; discovery has its own ComID. *)
Packet(m, c, row, tsn) ==
  [method |-> m, tsn |-> tsn,
   com    |-> IF m = "discovery" THEN OPAL_DISCOVERY_COMID ELSE com_id,
   sp     |-> IF c.op = "start_locking" THEN "locking" ELSE "admin",
   user   |-> row, range |-> c.range, val |-> c.val,
   pin    |-> IF m = "revert" \/ LenOf(c.pin) = 0 THEN NoPin ELSE c.pin]

(* parse_status reads the byte four before ENDOFDATA: the status if the     *)
(* list precedes ENDOFDATA, a zero length byte of the SubPacket header if   *)
(* it follows it.  Packets without ENDOFDATA are a protocol error.          *)
StatusByte(a) == IF StatusBeforeEod THEN a.status ELSE 0

(* MUTANTS: the status byte returned as it is; a response without           *)
(* ENDOFDATA taken for a success.                                           *)
ParseStatus_Raw(a) == IF a.kind \in {"empty", "disc"} THEN OPAL_ERR_PROTO
                      ELSE a.status
ParseStatus_EmptyIsOk(a) == CodeOfStatus(StatusByte(a))

ParseStatus(a) == IF a.kind \in {"empty", "disc"} THEN OPAL_ERR_PROTO
                  ELSE CodeOfStatus(StatusByte(a))

-----------------------------------------------------------------------------
(* A task calls the API; it goes on to wait for the mutex or returns. *)
CallWith(t, c) ==
  LET code == EarlyCode(c) IN
  /\ pc[t] = "idle" /\ handle = "live" /\ calls[t] < MaxCalls
  /\ ret' = [ret EXCEPT ![t] = code]
  /\ IF code = OPAL_OK
     THEN /\ pc' = [pc EXCEPT ![t] = "lock"]
          /\ call' = [call EXCEPT ![t] = c]
     ELSE UNCHANGED <<pc, call>>
  /\ calls' = [calls EXCEPT ![t] = @ + 1]
  /\ out' = [out EXCEPT ![t] = FALSE]
  /\ UNCHANGED <<lock, discoveryVars, sessionVars, cmd_buf, resp_buf, handle,
                 driveVars>>

CallApi(t) == \E c \in Requests : CallWith(t, c)

(* opal_dev_destroy looks at session_open without the mutex and, if it is   *)
(* set, calls opal_end_session.                                             *)
CallDestroy(t) ==
  /\ "destroy" \in Operations
  /\ pc[t] = "idle" /\ handle = "live"
  /\ Quiesce => \A u \in Tasks : pc[u] = "idle"
  /\ handle' = "closing"
  /\ pc' = [pc EXCEPT ![t] = IF session_open THEN "lock" ELSE "free"]
  /\ call' = [call EXCEPT ![t] = DestroyCall]
  /\ ret' = [ret EXCEPT ![t] = OPAL_OK]
  /\ UNCHANGED <<lock, discoveryVars, sessionVars, cmd_buf, resp_buf, out, calls,
                 driveVars>>

(* opal_mutex_destroy and opal_free. *)
Free(t) ==
  /\ pc[t] = "free" /\ handle' = "freed"
  /\ pc' = [pc EXCEPT ![t] = "idle"]
  /\ call' = [call EXCEPT ![t] = NoCall]
  /\ UNCHANGED <<lock, discoveryVars, sessionVars, cmd_buf, resp_buf, ret, out,
                 calls, driveVars>>

(* MUTANT: no mutual exclusion. *)
Acquire_Unguarded(t) ==
  /\ pc[t] = "lock"
  /\ lock' = t
  /\ pc' = [pc EXCEPT ![t] = "build"]
  /\ UNCHANGED <<discoveryVars, sessionVars, cmd_buf, resp_buf, handle, call, ret,
                 out, calls, driveVars>>

Acquire(t) ==
  /\ pc[t] = "lock" /\ lock = NoTask
  /\ lock' = t
  /\ pc' = [pc EXCEPT ![t] = "build"]
  /\ UNCHANGED <<discoveryVars, sessionVars, cmd_buf, resp_buf, handle, call, ret,
                 out, calls, driveVars>>

(* Unlock and return; from inside opal_dev_destroy, go on to free. *)
Return(t, code) ==
  /\ lock' = NoTask
  /\ ret' = [ret EXCEPT ![t] = code]
  /\ IF call[t].op = "destroy"
     THEN pc' = [pc EXCEPT ![t] = "free"] /\ UNCHANGED call
     ELSE pc' = [pc EXCEPT ![t] = "idle"] /\ call' = [call EXCEPT ![t] = NoCall]

(* MUTANT: the early returns forget to unlock. *)
Decline_KeepsLock(t) ==
  LET c == call[t] IN
  /\ pc[t] = "build" /\ WrongState(c)
  /\ ret' = [ret EXCEPT ![t] = OPAL_ERR_PROTO]
  /\ pc' = [pc EXCEPT ![t] = "idle"] /\ call' = [call EXCEPT ![t] = NoCall]
  /\ UNCHANGED <<lock, discoveryVars, sessionVars, cmd_buf, resp_buf, handle, out,
                 calls, driveVars>>

(* The checks under the mutex fail: unlock and return without an exchange. *)
Decline(t) ==
  LET c == call[t] IN
  /\ pc[t] = "build"
  /\ \/ WrongState(c) /\ Return(t, OPAL_ERR_PROTO)
     \/ NothingToEnd(c) /\ Return(t, OPAL_OK)
     \/ ~WrongState(c) /\ TooLong(c) /\ Return(t, APPEND_FAILED)
  /\ UNCHANGED <<discoveryVars, sessionVars, cmd_buf, resp_buf, handle, out, calls,
                 driveVars>>

(* buf_reset, the append_ calls and buf_finalise. *)
Build(t) ==
  LET c == call[t] IN
  /\ pc[t] = "build"
  /\ ~WrongState(c) /\ ~NothingToEnd(c) /\ ~TooLong(c)
  /\ \E row \in PinRows(c) :
       cmd_buf' = Packet(MethodOf(c.op), c, row, tper_session_id)
  /\ pc' = [pc EXCEPT ![t] = "send"]
  /\ UNCHANGED <<lock, discoveryVars, sessionVars, resp_buf, handle, call, ret, out,
                 calls, driveVars>>

(* IF-SEND delivers the command, or fails before or after the drive got it. *)
Send(t) ==
  /\ pc[t] = "send"
  /\ \/ /\ DriveExecutes(cmd_buf)
        /\ pc' = [pc EXCEPT ![t] = "recv"]
        /\ UNCHANGED ret
     \/ /\ "send" \in Faults
        /\ DriveExecutes(cmd_buf) \/ UNCHANGED driveVars
        /\ pc' = [pc EXCEPT ![t] = "finish"]
        /\ ret' = [ret EXCEPT ![t] = OPAL_ERR_TRANSPORT]
  /\ UNCHANGED <<lock, discoveryVars, sessionVars, cmd_buf, resp_buf, handle, call,
                 out, calls>>

(* MUTANT: an IF-RECV that finds nothing sends the command once more. *)
Recv_Resend(t) ==
  /\ pc[t] = "recv"
  /\ resp_buf' = answer /\ answer' = EmptyAnswer
  /\ pc' = [pc EXCEPT ![t] = IF answer = EmptyAnswer THEN "send" ELSE "finish"]
  /\ UNCHANGED <<lock, discoveryVars, sessionVars, cmd_buf, handle, call, ret, out,
                 calls, sessions, next_tsn, active, locked, pin>>

(* IF-RECV, once, 10 ms later: the answer; nothing yet, the answer being    *)
(* late; or an error.                                                       *)
Recv(t) ==
  /\ pc[t] = "recv"
  /\ \/ resp_buf' = answer /\ answer' = EmptyAnswer /\ UNCHANGED ret
     \/ /\ "late" \in Faults
        /\ resp_buf' = EmptyAnswer /\ UNCHANGED <<answer, ret>>
     \/ /\ "recv" \in Faults
        /\ resp_buf' = EmptyAnswer /\ UNCHANGED answer
        /\ ret' = [ret EXCEPT ![t] = OPAL_ERR_TRANSPORT]
  /\ pc' = [pc EXCEPT ![t] = "finish"]
  /\ UNCHANGED <<lock, discoveryVars, sessionVars, cmd_buf, handle, call, out, calls,
                 sessions, next_tsn, active, locked, pin>>

-----------------------------------------------------------------------------
(* The end of each operation: parse the response, unlock, return. *)

Exchanged(t, ops) == pc[t] = "finish" /\ call[t].op \in ops
FirstError(r, code) == IF r # OPAL_OK THEN r ELSE code

(* parse_discovery clears the results before it walks the features, and     *)
(* sets com_id and discovered only if it met an OPAL feature.               *)
FinishDiscover(t) ==
  /\ Exchanged(t, {"discover"})
  /\ IF ret[t] # OPAL_OK THEN UNCHANGED discoveryVars /\ Return(t, ret[t])
     ELSE /\ base_com_id' = resp_buf.com
          /\ IF resp_buf.com = 0
             THEN UNCHANGED <<discovered, com_id>> /\ Return(t, OPAL_ERR_PROTO)
             ELSE /\ discovered' = TRUE /\ com_id' = resp_buf.com
                  /\ Return(t, OPAL_OK)
  /\ UNCHANGED <<sessionVars, cmd_buf, resp_buf, handle, out, calls, driveVars>>

(* parse_start_session_resp takes the TSN of any SyncSession it finds. *)
SessionOpens(t) == ret[t] = OPAL_OK /\ resp_buf.kind = "sync"
AdoptSession == session_open' = TRUE /\ tper_session_id' = resp_buf.tsn

(* MUTANT: the session is marked open before the response is parsed. *)
FinishStart_OpenFirst(t) ==
  /\ Exchanged(t, StartOps)
  /\ IF SessionOpens(t)
     THEN AdoptSession /\ Return(t, OPAL_OK)
     ELSE /\ session_open' = (ret[t] = OPAL_OK) /\ UNCHANGED tper_session_id
          /\ Return(t, FirstError(ret[t], OPAL_ERR_PROTO))
  /\ UNCHANGED <<discoveryVars, cmd_buf, resp_buf, handle, out, calls, driveVars>>

FinishStart(t) ==
  /\ Exchanged(t, StartOps)
  /\ IF SessionOpens(t)
     THEN AdoptSession /\ Return(t, OPAL_OK)
     ELSE UNCHANGED sessionVars /\ Return(t, FirstError(ret[t], OPAL_ERR_PROTO))
  /\ UNCHANGED <<discoveryVars, cmd_buf, resp_buf, handle, out, calls, driveVars>>

(* The session state is reset whatever the exchange returned. *)
ForgetSession == session_open' = FALSE /\ tper_session_id' = 0

(* MUTANT: the session state is reset only after a successful exchange. *)
FinishEnd_OnlyOnSuccess(t) ==
  /\ Exchanged(t, {"end_session", "destroy"})
  /\ IF ret[t] = OPAL_OK THEN ForgetSession ELSE UNCHANGED sessionVars
  /\ Return(t, ret[t])
  /\ UNCHANGED <<discoveryVars, cmd_buf, resp_buf, handle, out, calls, driveVars>>

FinishEnd(t) ==
  /\ Exchanged(t, {"end_session", "destroy"})
  /\ ForgetSession
  /\ Return(t, ret[t])
  /\ UNCHANGED <<discoveryVars, cmd_buf, resp_buf, handle, out, calls, driveVars>>

FinishMethod(t) ==
  /\ Exchanged(t, MethodOps)
  /\ Return(t, FirstError(ret[t], ParseStatus(resp_buf)))
  /\ UNCHANGED <<discoveryVars, sessionVars, cmd_buf, resp_buf, handle, out, calls,
                 driveVars>>

(* MUTANT: the column number in front of each value is taken for it. *)
FinishQuery_ColumnAsValue(t) ==
  /\ Exchanged(t, {"query"})
  /\ Return(t, ret[t])
  /\ out' = [out EXCEPT ![t] = IF ret[t] = OPAL_OK THEN resp_buf.kind = "row" ELSE @]
  /\ UNCHANGED <<discoveryVars, sessionVars, cmd_buf, resp_buf, handle, calls,
                 driveVars>>

(* The lock bit comes from whatever columns the response names; a response  *)
(* that names none reads as unlocked.                                       *)
FinishQuery(t) ==
  /\ Exchanged(t, {"query"})
  /\ Return(t, ret[t])
  /\ out' = [out EXCEPT ![t] = IF ret[t] = OPAL_OK THEN resp_buf.locked ELSE @]
  /\ UNCHANGED <<discoveryVars, sessionVars, cmd_buf, resp_buf, handle, calls,
                 driveVars>>

(* opal_revert_tper, step 1: the PSID session; it goes on to send Revert. *)
FinishPsidSession(t) ==
  /\ Exchanged(t, {"revert"}) /\ cmd_buf.method = "start_session"
  /\ IF SessionOpens(t)
     THEN /\ AdoptSession
          /\ cmd_buf' = Packet("revert", call[t], 0, tper_session_id')
          /\ pc' = [pc EXCEPT ![t] = "send"]
          /\ UNCHANGED <<lock, ret, call>>
     ELSE /\ UNCHANGED <<sessionVars, cmd_buf>>
          /\ Return(t, FirstError(ret[t], OPAL_ERR_PROTO))
  /\ UNCHANGED <<discoveryVars, resp_buf, handle, out, calls, driveVars>>

(* MUTANT: opal_revert_tper resets discovered but leaves the session open. *)
FinishRevert_KeepsSession(t) ==
  /\ Exchanged(t, {"revert"}) /\ cmd_buf.method = "revert"
  /\ discovered' = FALSE /\ UNCHANGED <<base_com_id, com_id>>
  /\ Return(t, FirstError(ret[t], ParseStatus(resp_buf)))
  /\ UNCHANGED <<sessionVars, cmd_buf, resp_buf, handle, out, calls, driveVars>>

(* Step 2: the host forgets session and discovery whatever came back. *)
FinishRevert(t) ==
  /\ Exchanged(t, {"revert"}) /\ cmd_buf.method = "revert"
  /\ ForgetSession
  /\ discovered' = FALSE /\ UNCHANGED <<base_com_id, com_id>>
  /\ Return(t, FirstError(ret[t], ParseStatus(resp_buf)))
  /\ UNCHANGED <<cmd_buf, resp_buf, handle, out, calls, driveVars>>

-----------------------------------------------------------------------------
Finish(t) ==
  \/ FinishDiscover(t) \/ FinishStart(t) \/ FinishEnd(t) \/ FinishMethod(t)
  \/ FinishQuery(t) \/ FinishPsidSession(t) \/ FinishRevert(t)

(* A step of a call that has begun. *)
Step(t) ==
  \/ Acquire(t) \/ Decline(t) \/ Build(t) \/ Send(t) \/ Recv(t) \/ Finish(t)
  \/ Free(t)

(* Every task has returned from its last call. *)
Done ==
  /\ \A t \in Tasks : pc[t] = "idle"
  /\ handle = "freed" \/ \A t \in Tasks : calls[t] = MaxCalls
  /\ UNCHANGED vars

Next == (\E t \in Tasks : CallApi(t) \/ CallDestroy(t) \/ Step(t)) \/ Done

Spec == Init /\ [][Next]_vars

(* The scheduler runs every ready task and the callbacks return: a call     *)
(* that has begun keeps moving.  Nobody has to call.                        *)
FairSpec == Spec /\ \A t \in Tasks : WF_vars(Step(t))

-----------------------------------------------------------------------------
(* What the device context must guarantee. *)

Critical == {"build", "send", "recv", "finish"}
SessionMethods == {"end_session", "set_lock", "activate", "set_pin", "revert", "get"}

(* A task holds the mutex exactly while it is between opal_mutex_lock and   *)
(* opal_mutex_unlock, on every path, the early returns included.            *)
LockDiscipline == \A t \in Tasks : lock = t <=> pc[t] \in Critical

AnswersTo(m) ==
  CASE m = "discovery"     -> {"empty", "disc"}
    [] m = "start_session" -> {"empty", "sync", "method"}
    [] m = "end_session"   -> {"empty"}
    [] m = "get"           -> {"empty", "row", "method"}
    [] OTHER               -> {"empty", "method"}

(* The response a task is about to parse answers the command that this very *)
(* call put into the shared cmd_buf, and no other task's.                   *)
ResponseMatchesCommand ==
  \A t \in Tasks : pc[t] = "finish" /\ ret[t] = OPAL_OK =>
    /\ cmd_buf.method \in {MethodOf(call[t].op), call[t].op}
    /\ resp_buf.kind \in AnswersTo(cmd_buf.method)

(* Whenever no call is in progress, the session the host believes open is   *)
(* one the drive really holds, whichever exchanges failed or answered late. *)
HostSessionLive ==
  /\ session_open <=> tper_session_id # 0
  /\ lock = NoTask /\ session_open => tper_session_id \in LiveTsns

(* The inductive strengthening of LockDiscipline and HostSessionLive: what  *)
(* the packets in flight and the answers not yet parsed say of sessions.    *)
CommandOfCall ==
  \A t \in Tasks : pc[t] \in {"send", "recv", "finish"} =>
    \/ cmd_buf.method = MethodOf(call[t].op)
    \/ call[t].op = "revert" /\ cmd_buf.method = "revert"

EndingSession(t) ==
  pc[t] \in {"recv", "finish"} /\ cmd_buf.method \in {"end_session", "revert"}

SessionHeld == session_open => \/ tper_session_id \in LiveTsns
                               \/ \E t \in Tasks : EndingSession(t)

AnswerLive == answer.kind = "sync" => answer.tsn \in LiveTsns

ResponseLive ==
  \A t \in Tasks :
    pc[t] = "finish" /\ SessionOpens(t) => resp_buf.tsn \in LiveTsns

SessionInv ==
  /\ LockDiscipline /\ CommandOfCall
  /\ session_open <=> tper_session_id # 0
  /\ SessionHeld /\ AnswerLive /\ ResponseLive

(* A method goes to the drive only inside a session the drive holds: the    *)
(* session check made under the mutex is still true when IF-SEND runs.      *)
MethodsInLiveSession ==
  \A t \in Tasks : pc[t] = "send" /\ cmd_buf.method \in SessionMethods =>
    session_open /\ cmd_buf.tsn = tper_session_id /\ cmd_buf.tsn \in LiveTsns

(* Session commands go out with a ComID some discovery reported, although   *)
(* discovered is read before the mutex is taken and may be stale by then.   *)
ComIdNegotiated ==
  \A t \in Tasks : pc[t] = "send" /\ cmd_buf.method # "discovery" =>
    cmd_buf.com \in ComIds

(* The strengthening of AdminNeverReplaces and of ComIdNegotiated.          *)
InExchange(t) == pc[t] \in {"send", "recv", "finish"}

AdminExclusive ==
  \A t \in Tasks : InExchange(t) /\ call[t].op = "start_admin" => ~session_open

ComIdInv ==
  /\ discovered \/ session_open => com_id \in ComIds
  /\ {answer.com, resp_buf.com} \subseteq ComIds \cup {0}
  /\ \A t \in Tasks : pc[t] # "idle" =>
       call[t].op # "none" /\ (call[t].op \in StartOps => com_id \in ComIds)
  /\ \A t \in Tasks : InExchange(t) /\ cmd_buf.method # "discovery" =>
       com_id \in ComIds /\ cmd_buf.com = com_id

(* opal_discover comes before any session.                                  *)
SessionNeedsDiscovery == session_open => discovered

(* opal_dev_destroy leaves the drive without a session. *)
DestroyClosesSessions == handle = "freed" => sessions = {}

(* The mutex is deleted and the context freed when nobody is inside a call. *)
NoUseAfterFree == handle = "freed" => \A t \in Tasks : pc[t] = "idle"

(* Every value a call returns is one opal_core.h documents. *)
ReturnsDocumented == \A t \in Tasks : ret[t] \in DocumentedCodes

(* The step in which a call gives up the mutex and returns. *)
Ends(t) == pc[t] \in Critical /\ pc'[t] \in {"idle", "free"}

(* opal_start_admin_session never opens a session on top of another one.    *)
AdminNeverReplaces ==
  [][\A t \in Tasks : Ends(t) /\ call[t].op = "start_admin" /\ ret'[t] = OPAL_OK
       => ~session_open]_vars

(* A call that fails leaves the host's session as it found it, except those *)
(* whose purpose is to end it.                                              *)
FailureKeepsSession ==
  [][\A t \in Tasks :
       /\ Ends(t) /\ ret'[t] # OPAL_OK
       /\ call[t].op \notin {"end_session", "destroy", "revert"}
       => UNCHANGED sessionVars]_vars

(* A method the drive refused does not return OPAL_OK, nor does a query     *)
(* whose Get was refused.                                                   *)
RefusalReported ==
  [][\A t \in Tasks :
       /\ Ends(t) /\ call[t].op \in MethodOps \cup {"query"}
       /\ pc[t] = "finish" /\ resp_buf.kind = "method"
       /\ resp_buf.status # OPAL_STATUS_SUCCESS
       => ret'[t] # OPAL_OK]_vars

(* opal_query_lock_state reports a lock state only if the drive answered.   *)
QueryHasAnswer ==
  [][\A t \in Tasks :
       Ends(t) /\ pc[t] = "finish" /\ call[t].op = "query" /\ ret'[t] = OPAL_OK
       => resp_buf # EmptyAnswer]_vars

(* opal_set_password changes no PIN but that of the user it is given. *)
SetPasswordOwnRow ==
  [][\A t \in Tasks, u \in UserIds :
       pc[t] = "send" /\ call[t].op = "set_password" /\ u # call[t].user
       => pin'[u] = pin[u]]_vars

(* Session n is the host's, or its SyncSession is on the way to the host.   *)
InSight(n) ==
  \/ session_open /\ n = tper_session_id
  \/ \E t \in Tasks : \/ pc[t] = "recv" /\ answer.kind = "sync" /\ n = answer.tsn
                      \/ pc[t] = "finish" /\ SessionOpens(t) /\ n = resp_buf.tsn

(* The sessions the drive holds and nobody can end any more. *)
Orphans == {n \in LiveTsns : ~InSight(n)}

(* The steps in which the code gives a session up: the exchange that opens  *)
(* one does not bring its answer; opal_start_locking_session or the PSID    *)
(* session of opal_revert_tper replaces an open one; the exchange that ends *)
(* one fails; the drive does not carry out Revert.                          *)
LosesTrack(t) ==
  \/ /\ pc[t] \in {"send", "recv"} /\ pc'[t] = "finish"
     /\ cmd_buf.method = "start_session"
     /\ ret'[t] # OPAL_OK \/ resp_buf' # answer
  \/ /\ pc[t] = "finish" /\ call[t].op # "start_admin"
     /\ SessionOpens(t) /\ session_open
  \/ pc[t] = "finish" /\ cmd_buf.method = "end_session" /\ ret[t] # OPAL_OK
  \/ /\ pc[t] = "finish" /\ cmd_buf.method = "revert"
     /\ ret[t] # OPAL_OK \/ resp_buf # StatusAnswer(OPAL_STATUS_SUCCESS)

(* A session becomes an orphan in these steps and in no other, whatever the *)
(* tasks do meanwhile: not by opal_start_admin_session, not by a method     *)
(* that failed, not by a discovery.                                         *)
OrphansExplained ==
  [][Orphans' \subseteq Orphans \/ \E t \in Tasks : LosesTrack(t)]_vars

(* How many steps a call has before it at most: opal_revert_tper goes       *)
(* through the exchange twice, the others once.                             *)
StepsLeft(t) ==
  LET later == IF cmd_buf.method = "revert" THEN 0 ELSE 3 IN
  CASE pc[t] = "idle" -> 9 [] pc[t] = "lock" -> 8 [] pc[t] = "build" -> 7
    [] pc[t] = "send" -> 3 + later [] pc[t] = "recv" -> 2 + later
    [] pc[t] = "finish" -> 1 + later [] OTHER -> 1

(* No call waits, retries or starts over: each of its steps brings it       *)
(* nearer to its return, and no step of another task sets it back.          *)
CallAdvances ==
  [][\A t \in Tasks : pc[t] # "idle" =>
       IF pc'[t] = pc[t] THEN StepsLeft(t)' = StepsLeft(t)
       ELSE pc'[t] = "idle" \/ StepsLeft(t)' < StepsLeft(t)]_vars

(* Every call returns, whatever the drive and the transport do. *)
CallReturns == \A t \in Tasks : pc[t] # "idle" ~> pc[t] = "idle"
=============================================================================
