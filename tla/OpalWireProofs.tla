--------------------------- MODULE OpalWireProofs ---------------------------
(***************************************************************************)
(* Theorems about OpalWire, for credentials of any length, any rows of the  *)
(* drive's tables and any number of tasks: the packet builder never writes  *)
(* past cmd_buf and fails for just the commands OpalCore takes to be too    *)
(* long, what IF-SEND gets is well-formed and says what the core means, and *)
(* the parsers read from what IF-RECV wrote what the drive answered.        *)
(***************************************************************************)
EXTENDS OpalWire, OpalPacketProofs, OpalResponseProofs, OpalCoreProofs

-----------------------------------------------------------------------------
(* The commands. *)

(* The bytes of the first command of a call. *)
CommandLen(c) ==
  CASE c.op = "discover"                      -> 0
    [] c.op \in StartOps \cup {"revert"}      -> StartSessionLen(LenOf(c.pin))
    [] c.op \in {"end_session", "destroy"}    -> 1
    [] c.op = "set_lock"                      -> MethodLen(5 + 2 * NamedLen(1))
    [] c.op = "set_password"                  ->
         MethodLen(5 + NamedLen(BytesLen(LenOf(c.pin))))
    [] c.op = "query"                         -> MethodLen(2 + 2 * NamedLen(1))
    [] OTHER                                  -> MethodLen(0)

LEMMA TooLongIsOverflow ==
  ASSUME NEW c \in Calls, c.op # "none"
  PROVE  TooLong(c) <=> Overflows(CommandLen(c))
<1>1. c.op \in AllOperations /\ LenOf(c.pin) \in Nat
  BY CoreAssumption DEF Calls, PinArgs, LenOf
<1>2. CASE c.op \in StartOps \cup {"revert"}
  BY <1>2 DEF TooLong, CommandLen, StartOps
<1>3. CASE c.op = "set_password"
  BY <1>3 DEF TooLong, CommandLen, StartOps
<1>4. CASE c.op \notin StartOps \cup {"revert", "set_password"}
  <2>1. ~TooLong(c)
    BY <1>4 DEF TooLong
  <2>2. CommandLen(c) \in 0 .. 100
    BY <1>1, <1>4
    DEF CommandLen, AllOperations, StartOps, MethodOps, MethodLen, NamedLen, CallHeaderLen,
        UidLen, BytesLen, EodLen
  <2> QED
    BY <2>1, <2>2 DEF Overflows, TotalHdrLen, MaxCmdLen
<1> QED
  BY <1>2, <1>3, <1>4

LEMMA RowUids ==
  /\ \A r \in RangeIds : build_locking_range_uid(r) \in Uids
  /\ \A u \in UserIds : auth_uid(u) \in Uids
  /\ \A u \in UserIds, row \in UserIds \cup {NoRow} : cpin_uid(u, StackBytes(row)) \in Uids
<1>1. \A n \in RangeIds \cup UserIds : n \in Nat
  BY DriveAssumption
<1>2. \A row \in UserIds \cup {NoRow} : StackBytes(row) \in Uids
  BY <1>1 DEF StackBytes, Zeros, CPinRow, Uids, UID_LEN
<1>3. ASSUME NEW u \in UserIds, NEW row \in UserIds \cup {NoRow}
      PROVE  cpin_uid(u, StackBytes(row)) \in Uids
  BY <1>1, <1>2, UidOfRow DEF cpin_uid
<1>4. ASSUME NEW r \in RangeIds PROVE build_locking_range_uid(r) \in Uids
  BY <1>1, UidOfRow, UidConstants DEF build_locking_range_uid
<1>5. ASSUME NEW u \in UserIds PROVE auth_uid(u) \in Uids
  BY <1>1, UidOfRow, UidConstants DEF auth_uid
<1> QED
  BY <1>3, <1>4, <1>5

(* Every command is as long as OpalProtocol says. *)
LEMMA ProgramWeighs ==
  ASSUME NEW c \in Calls, c.op # "none", NEW row \in UserIds \cup {NoRow}
  PROVE  Weighs(Program(MethodOf(c.op), c, row), CommandLen(c))
<1>1. /\ c.op \in AllOperations /\ LenOf(c.pin) \in Nat
      /\ c.user \in UserIds /\ c.range \in RangeIds
  BY CoreAssumption DEF Calls, PinArgs, LenOf
<1>2. CASE c.op = "discover"
  <2>1. Program(MethodOf(c.op), c, row) = <<>> /\ CommandLen(c) = 0
    <3>1. MethodOf(c.op) = "discovery"
      BY <1>2 DEF MethodOf, StartOps
    <3> QED
      BY <1>2, <3>1 DEF Program, Discovery, CommandLen, StartOps
  <2> QED
    BY <2>1, WeighsNothing
<1>3. CASE c.op \in StartOps \cup {"revert"}
  <2> DEFINE sp   == IF c.op = "start_locking" THEN UID_LOCKINGSP ELSE UID_ADMINSP
             auth == IF c.op = "revert" THEN UID_AUTH_PSID ELSE auth_uid(c.user)
  <2>1. sp \in Uids /\ auth \in Uids
    BY <1>1, UidConstants, RowUids
  <2>2. Program(MethodOf(c.op), c, row) = StartSession(sp, auth, LenOf(c.pin))
    BY <1>3 DEF MethodOf, Program, StartOps
  <2>3. CommandLen(c) = StartSessionLen(LenOf(c.pin))
    BY <1>3 DEF CommandLen, StartOps
  <2> HIDE DEF sp, auth
  <2> QED
    BY <1>1, <2>1, <2>2, <2>3, WeighsStartSession
<1>4. CASE c.op \in {"end_session", "destroy"}
  <2>1. Program(MethodOf(c.op), c, row) = EndOfSession /\ CommandLen(c) = 1
    BY <1>4 DEF MethodOf, Program, CommandLen, StartOps
  <2> QED
    BY <2>1, WeighsBracket DEF EndOfSession, TheTokens
<1>5. CASE c.op = "set_lock"
  <2> DEFINE v == IF c.val THEN 1 ELSE 0
             cols == Named(COL_READ_LOCKED, <<append_u8(v)>>)
                       \o Named(COL_WRITE_LOCKED, <<append_u8(v)>>)
             uid == build_locking_range_uid(c.range)
  <2>1. /\ Program(MethodOf(c.op), c, row) = SetRow(uid, cols)
        /\ CommandLen(c) = MethodLen(5 + 2 * NamedLen(1)) /\ v \in 0 .. 63
    <3>1. MethodOf(c.op) = "set_lock" /\ v \in 0 .. 63
      BY <1>5 DEF MethodOf, StartOps
    <3>2. Program(MethodOf(c.op), c, row) = SetLock(c.range, v)
      BY <3>1 DEF Program
    <3>3. SetLock(c.range, v) = SetRow(uid, cols)
      BY Zenon DEF SetLock
    <3> QED
      BY <1>5, <3>1, <3>2, <3>3 DEF CommandLen, StartOps
  <2>2. /\ Weighs(Named(COL_READ_LOCKED, <<append_u8(v)>>), NamedLen(1))
        /\ Weighs(Named(COL_WRITE_LOCKED, <<append_u8(v)>>), NamedLen(1))
    BY <2>1, WeighsTokens, WeighsNamed DEF COL_READ_LOCKED, COL_WRITE_LOCKED
  <2>3. Weighs(cols, NamedLen(1) + NamedLen(1)) /\ uid \in Uids
    BY <1>1, <2>2, WeighsConcat, RowUids
  <2>4. NamedLen(1) + NamedLen(1) = 2 * NamedLen(1)
    BY DEF NamedLen
  <2> HIDE DEF cols, uid
  <2> QED
    BY <2>1, <2>3, <2>4, WeighsSetRow
<1>6. CASE c.op = "set_password"
  <2> DEFINE n == LenOf(c.pin)
             uid == cpin_uid(c.user, StackBytes(row))
             cols == Named(3, <<append_pin(n)>>)
  <2>1. /\ Program(MethodOf(c.op), c, row) = SetRow(uid, cols)
        /\ CommandLen(c) = MethodLen(5 + NamedLen(BytesLen(n)))
    BY <1>6 DEF MethodOf, Program, CommandLen, StartOps, SetPin
  <2>2. Weighs(cols, NamedLen(BytesLen(n))) /\ uid \in Uids
    BY <1>1, WeighsTokens, WeighsNamed, RowUids
  <2> HIDE DEF n, cols, uid
  <2> QED
    BY <2>1, <2>2, WeighsSetRow
<1>7. CASE c.op = "query"
  <2> DEFINE from == Named(3, <<append_u8(COL_READ_LOCKED)>>)
             to   == Named(4, <<append_u8(COL_WRITE_LOCKED)>>)
             uid  == build_locking_range_uid(c.range)
  <2>1. /\ Program(MethodOf(c.op), c, row) = MethodCall(uid, UID_GET, Listed(from \o to))
        /\ CommandLen(c) = MethodLen(2 + 2 * NamedLen(1))
    BY <1>7 DEF MethodOf, Program, CommandLen, StartOps, GetLock
  <2>2. Weighs(from, NamedLen(1)) /\ Weighs(to, NamedLen(1)) /\ uid \in Uids
    BY <1>1, WeighsTokens, WeighsNamed, RowUids DEF COL_READ_LOCKED, COL_WRITE_LOCKED
  <2> HIDE DEF from, to, uid
  <2>3. Weighs(Listed(from \o to), (1 + (NamedLen(1) + NamedLen(1))) + 1)
    BY <2>2, WeighsConcat, WeighsListed
  <2>4. (1 + (NamedLen(1) + NamedLen(1))) + 1 = 2 + 2 * NamedLen(1)
    BY DEF NamedLen
  <2> QED
    BY <2>1, <2>2, <2>3, <2>4, WeighsCall, UidConstants
<1>8. CASE c.op = "activate"
  <2>1. Program(MethodOf(c.op), c, row) = Activate /\ CommandLen(c) = MethodLen(0)
    BY <1>8 DEF MethodOf, Program, CommandLen, StartOps
  <2> QED
    BY <2>1, WeighsNothing, WeighsCall, UidConstants DEF Activate
<1> QED
  BY <1>1, <1>2, <1>3, <1>4, <1>5, <1>6, <1>7, <1>8
  DEF AllOperations, StartOps, MethodOps

-----------------------------------------------------------------------------
(* A step on the wire is a step of the core: what OpalCoreProofs shows of   *)
(* the core's variables holds here too.                                     *)
LEMMA WireInitIsInit == WireInit => Init
BY DEF WireInit

LEMMA WireNextIsNext == [WireNext]_wireVars => [Next]_vars
<1> SUFFICES ASSUME [WireNext]_wireVars PROVE [Next]_vars
  OBVIOUS
<1>1. ASSUME NEW t \in Tasks, WireBuild(t) \/ WireRecv(t) \/ WirePsidSession(t) \/ WireOther(t)
      PROVE  CallApi(t) \/ CallDestroy(t) \/ Step(t)
  BY <1>1 DEF WireBuild, WireRecv, WirePsidSession, WireOther, Step, Finish
<1>2. CASE UNCHANGED wireVars
  BY <1>2 DEF wireVars
<1> QED
  BY <1>1, <1>2 DEF WireNext, Next

WireCoreInv == TypeOK /\ LockDiscipline /\ ComIdInv

LEMMA WireCore == WireSpec => []WireCoreInv
<1>1. WireInit => WireCoreInv
  <2>1. Init => ComIdInv
    BY DEF Init, DriveInit, ComIdInv, EmptyAnswer, Answer, InExchange
  <2> QED
    BY <2>1, WireInitIsInit, InitType, InitLock DEF WireCoreInv
<1>2. WireCoreInv /\ [WireNext]_wireVars => WireCoreInv'
  BY WireNextIsNext, NextType, NextLock, NextComId DEF WireCoreInv
<1> QED
  BY <1>1, <1>2, PTL DEF WireSpec

(* The builder fails for just the commands whose bytes do not fit, and      *)
(* leaves the cursor inside cmd_buf.                                        *)
BuiltAs(b, toks, long) ==
  /\ b.r # OPAL_OK <=> long
  /\ b.cmd_pos \in TotalHdrLen .. MaxCmdLen
  /\ ~long => b.toks = toks

LEMMA MeasuredBuilds ==
  ASSUME NEW toks, NEW n \in Nat, Measured(toks, n)
  PROVE  BuiltAs(Built(toks), toks, Overflows(n))
<1> DEFINE b == Built(toks)
<1>1. CASE Overflows(n)
  <2>1. b.r = APPEND_FAILED /\ b.cmd_pos = MaxCmdLen
    BY <1>1 DEF Measured
  <2> HIDE DEF b
  <2>2. BuiltAs(b, toks, TRUE)
    BY <2>1 DEF BuiltAs, OPAL_OK, APPEND_FAILED, TotalHdrLen, MaxCmdLen
  <2> QED
    BY <1>1, <2>2 DEF b
<1>2. CASE ~Overflows(n)
  <2>1. b.r = OPAL_OK /\ b.cmd_pos = TotalHdrLen + n /\ b.toks = toks
    BY <1>2 DEF Measured
  <2> HIDE DEF b
  <2>2. BuiltAs(b, toks, Overflows(n))
    BY <1>2, <2>1 DEF BuiltAs, Overflows, TotalHdrLen, MaxCmdLen
  <2> QED
    BY <2>2 DEF b
<1> QED
  BY <1>1, <1>2

LEMMA CommandBuilt ==
  ASSUME NEW c \in Calls, c.op # "none", NEW row \in UserIds \cup {NoRow}
  PROVE  BuiltAs(Built(Program(MethodOf(c.op), c, row)), Program(MethodOf(c.op), c, row),
                 TooLong(c))
<1> DEFINE prog == Program(MethodOf(c.op), c, row)
           n    == CommandLen(c)
<1>1. Measured(prog, n) /\ n \in Nat
  BY ProgramWeighs, WeighsWhole DEF Weighs
<1>2. TooLong(c) <=> Overflows(n)
  BY TooLongIsOverflow
<1> HIDE DEF prog, n
<1>3. BuiltAs(Built(prog), prog, Overflows(n))
  BY <1>1, MeasuredBuilds
<1>4. BuiltAs(Built(prog), prog, TooLong(c))
  BY <1>2, <1>3 DEF BuiltAs
<1> QED
  BY <1>4 DEF prog

(* The append_ calls fail for exactly the credentials OpalCore takes to be  *)
(* too long, and the builder never writes past the 512th byte.              *)
THEOREM BuilderNeverOverruns == WireSpec => []BuilderAgrees
<1>1. WireCoreInv => BuilderAgrees
  <2>1. ASSUME WireCoreInv, NEW t \in Tasks, pc[t] = "build",
               NEW row \in PinRows(call[t])
        PROVE  LET b == Built(Program(MethodOf(call[t].op), call[t], row))
               IN  /\ b.r # OPAL_OK <=> TooLong(call[t])
                   /\ b.cmd_pos <= MaxCmdLen
    <3>1. call[t] \in Calls /\ call[t].op # "none"
      BY <2>1 DEF WireCoreInv, TypeOK, ComIdInv
    <3>2. row \in UserIds \cup {NoRow}
      BY <2>1, <3>1 DEF PinRows, Calls
    <3> DEFINE prog == Program(MethodOf(call[t].op), call[t], row)
    <3>3. BuiltAs(Built(prog), prog, TooLong(call[t]))
      BY <3>1, <3>2, CommandBuilt
    <3> HIDE DEF prog
    <3>4. (Built(prog).r # OPAL_OK <=> TooLong(call[t])) /\ Built(prog).cmd_pos <= MaxCmdLen
      BY <3>3 DEF BuiltAs, TotalHdrLen, MaxCmdLen
    <3> QED
      BY <3>4, Zenon DEF prog
  <2> QED
    BY <2>1, Zenon DEF BuilderAgrees
<1> QED
  BY <1>1, WireCore, PTL

-----------------------------------------------------------------------------
(* The packet at IF-SEND. *)

PacketMethods == {"discovery", "start_session", "end_session", "set_lock", "activate",
                  "set_pin", "get", "revert"}

(* What is in cmd_buf when a task is about to send, in both views: the      *)
(* first command of its call, which fits, or the Revert that follows.       *)
FirstCommand(t) ==
  /\ cmd_buf.method = MethodOf(call[t].op)
  /\ cmd_buf.user \in PinRows(call[t]) /\ ~TooLong(call[t])

RevertCommand(t) ==
  cmd_buf.method = "revert" /\ call[t].op = "revert" /\ cmd_buf.user = 0

PacketInv ==
  \A t \in Tasks : pc[t] = "send" =>
    /\ cmd_buf = Packet(cmd_buf.method, call[t], cmd_buf.user, cmd_buf.tsn)
    /\ packet = PacketOf(call[t], cmd_buf, cmd_buf.tsn)
    /\ FirstCommand(t) \/ RevertCommand(t)

(* Nothing touches the packet of a task that is about to send it. *)
LEMMA SenderAlone ==
  ASSUME WireCoreInv, [WireNext]_wireVars, NEW u \in Tasks, pc'[u] = "send"
  PROVE  \/ pc[u] = "send" /\ Undisturbed(u) /\ packet' = packet
         \/ WireBuild(u)
         \/ WirePsidSession(u) /\ SessionOpens(u)
<1>1. TypeOK /\ LockDiscipline /\ [Next]_vars
  BY WireNextIsNext DEF WireCoreInv
<1>2. \A t \in Tasks : pc[t] \in Critical /\ pc[u] \in Critical => t = u
  BY <1>1, CoreAssumption DEF LockDiscipline, TypeOK
<1>3. pc[u] = "send" => Undisturbed(u)
  <2>1. Step(u) /\ pc[u] = "send" => pc'[u] # "send"
    BY <1>1 DEF Step, Free, Acquire, Decline, Build, Send, Recv, Finish,
       FinishDiscover, FinishStart, FinishEnd, FinishMethod, FinishQuery,
       FinishPsidSession, FinishRevert, Exchanged, TypeOK
  <2>2. pc'[u] \in Critical
    BY DEF Critical
  <2> QED
    BY <1>1, <2>1, <2>2, Holder
<1>4. ASSUME NEW t \in Tasks, WireBuild(t), t # u
      PROVE  FALSE
  <2>1. pc[t] \in Critical /\ pc[u] = "send"
    BY <1>1, <1>4 DEF WireBuild, Build, Critical, TypeOK
  <2> QED
    BY <1>2, <1>4, <2>1 DEF Critical
<1>5. ASSUME NEW t \in Tasks, WirePsidSession(t), t # u
      PROVE  FALSE
  <2>1. pc[t] \in Critical /\ pc[u] = "send"
    BY <1>1, <1>5 DEF WirePsidSession, FinishPsidSession, Exchanged, Return, Critical, TypeOK
  <2> QED
    BY <1>2, <1>5, <2>1 DEF Critical
<1>6. WirePsidSession(u) => SessionOpens(u)
  BY <1>1 DEF WirePsidSession, FinishPsidSession, Return, TypeOK
<1>7. ASSUME NEW t \in Tasks, WireRecv(t) \/ WireOther(t)
      PROVE  pc[u] = "send" /\ packet' = packet
  <2>1. CASE WireRecv(t)
    BY <1>1, <2>1 DEF WireRecv, Recv, TypeOK
  <2>2. CASE WireOther(t)
    BY <1>1, <2>2 DEF WireOther, CallApi, CallWith, CallDestroy, Acquire, Decline, Send,
       Free, FinishDiscover, FinishStart, FinishEnd, FinishMethod, FinishQuery,
       FinishRevert, Return, TypeOK
  <2> QED
    BY <1>7, <2>1, <2>2
<1>8. CASE UNCHANGED wireVars \/ (Done /\ UNCHANGED <<packet, raw>>)
  BY <1>8, <1>3 DEF wireVars, vars, taskVars, Done
<1> QED
  BY <1>3, <1>4, <1>5, <1>6, <1>7, <1>8 DEF WireNext

LEMMA NextPacket ==
  ASSUME WireCoreInv, PacketInv, [WireNext]_wireVars PROVE PacketInv'
<1> SUFFICES ASSUME NEW u \in Tasks, pc'[u] = "send"
             PROVE  /\ cmd_buf' = Packet(cmd_buf.method, call[u], cmd_buf.user, cmd_buf.tsn)'
                    /\ packet' = PacketOf(call[u], cmd_buf, cmd_buf.tsn)'
                    /\ (FirstCommand(u) \/ RevertCommand(u))'
  BY DEF PacketInv
<1>1. CASE pc[u] = "send" /\ Undisturbed(u) /\ packet' = packet
  <2>1. /\ cmd_buf = Packet(cmd_buf.method, call[u], cmd_buf.user, cmd_buf.tsn)
        /\ packet = PacketOf(call[u], cmd_buf, cmd_buf.tsn)
        /\ FirstCommand(u) \/ RevertCommand(u)
    BY <1>1 DEF PacketInv
  <2>2. cmd_buf' = cmd_buf /\ call'[u] = call[u] /\ com_id' = com_id
    BY <1>1 DEF Undisturbed, discoveryVars
  <2> QED
    BY <1>1, <2>1, <2>2 DEF Packet, PacketOf, FirstCommand, RevertCommand
<1>2. CASE WireBuild(u)
  <2>1. PICK row \in PinRows(call[u]) :
          cmd_buf' = Packet(MethodOf(call[u].op), call[u], row, tper_session_id)
    BY <1>2 DEF WireBuild, Build
  <2>2. /\ cmd_buf'.method = MethodOf(call[u].op) /\ cmd_buf'.user = row
        /\ cmd_buf'.tsn = tper_session_id
    BY <2>1 DEF Packet
  <2>3. call' = call /\ com_id' = com_id /\ ~TooLong(call[u])
        /\ packet' = PacketOf(call[u], cmd_buf', tper_session_id)
    BY <1>2 DEF WireBuild, Build, discoveryVars
  <2> QED
    BY <2>1, <2>2, <2>3 DEF Packet, PacketOf, FirstCommand
<1>3. CASE WirePsidSession(u) /\ SessionOpens(u)
  <2>1. /\ cmd_buf' = Packet("revert", call[u], 0, tper_session_id')
        /\ call' = call /\ com_id' = com_id /\ call[u].op = "revert"
    BY <1>3 DEF WirePsidSession, FinishPsidSession, Exchanged, discoveryVars
  <2>2. packet' = PacketOf(call[u], cmd_buf', tper_session_id')
    BY <1>3 DEF WirePsidSession
  <2>3. cmd_buf'.method = "revert" /\ cmd_buf'.user = 0 /\ cmd_buf'.tsn = tper_session_id'
    BY <2>1 DEF Packet
  <2> QED
    BY <2>1, <2>2, <2>3 DEF Packet, PacketOf, RevertCommand
<1> QED
  BY <1>1, <1>2, <1>3, SenderAlone

LEMMA WirePacket == WireSpec => []PacketInv
<1>1. WireInit => PacketInv
  BY DEF WireInit, Init, PacketInv
<1> QED
  BY <1>1, WireCore, NextPacket, PTL DEF WireSpec

LEMMA ProgramNeutral ==
  ASSUME NEW c \in Calls, NEW m \in PacketMethods, NEW row \in UserIds \cup {NoRow}
  PROVE  Neutral(Program(m, c, row))
<1> DEFINE prog == Program(m, c, row)
<1>1. LenOf(c.pin) \in Nat /\ c.user \in UserIds /\ c.range \in RangeIds
  BY CoreAssumption DEF Calls, PinArgs, LenOf
<1>2. CASE m = "discovery"
  BY <1>2, NeutralNothing DEF Program, Discovery
<1>3. CASE m = "start_session"
  <2> DEFINE sp   == IF c.op = "start_locking" THEN UID_LOCKINGSP ELSE UID_ADMINSP
             auth == IF c.op = "revert" THEN UID_AUTH_PSID ELSE auth_uid(c.user)
  <2>1. sp \in Uids /\ auth \in Uids
    BY <1>1, UidConstants, RowUids
  <2>2. prog = StartSession(sp, auth, LenOf(c.pin))
    BY <1>3 DEF Program
  <2> HIDE DEF sp, auth
  <2> QED
    BY <1>1, <2>1, <2>2, NeutralStartSession
<1>4. CASE m = "end_session"
  BY <1>4, NeutralArgs DEF Program, EndOfSession
<1>5. CASE m = "set_lock"
  <2> DEFINE v == IF c.val THEN 1 ELSE 0
             read  == Named(COL_READ_LOCKED, <<append_u8(v)>>)
             write == Named(COL_WRITE_LOCKED, <<append_u8(v)>>)
             uid   == build_locking_range_uid(c.range)
  <2>1. prog = SetRow(uid, read \o write)
    <3>1. prog = SetLock(c.range, v)
      BY <1>5 DEF Program
    <3>2. SetLock(c.range, v) = SetRow(uid, read \o write)
      BY Zenon DEF SetLock
    <3> QED
      BY <3>1, <3>2
  <2>2. v \in 0 .. 63
    OBVIOUS
  <2>3. Neutral(read) /\ Neutral(write) /\ uid \in Uids
    BY <1>1, <2>2, NeutralArgs, NeutralNamed, RowUids DEF COL_READ_LOCKED, COL_WRITE_LOCKED
  <2> HIDE DEF read, write, uid
  <2>4. Neutral(read \o write)
    BY <2>3, LeavesMore DEF Neutral
  <2> QED
    BY <2>1, <2>3, <2>4, NeutralSetRow
<1>6. CASE m = "activate"
  BY <1>6, NeutralNothing, NeutralCall, UidConstants DEF Program, Activate
<1>7. CASE m = "set_pin"
  <2> DEFINE uid  == cpin_uid(c.user, StackBytes(row))
             cols == Named(3, <<append_pin(LenOf(c.pin))>>)
  <2>1. prog = SetRow(uid, cols)
    BY <1>7 DEF Program, SetPin
  <2>2. Neutral(cols) /\ uid \in Uids
    BY <1>1, NeutralArgs, NeutralNamed, RowUids
  <2> HIDE DEF uid, cols
  <2> QED
    BY <2>1, <2>2, NeutralSetRow
<1>8. CASE m = "get"
  <2> DEFINE from == Named(3, <<append_u8(COL_READ_LOCKED)>>)
             to   == Named(4, <<append_u8(COL_WRITE_LOCKED)>>)
             uid  == build_locking_range_uid(c.range)
  <2>1. prog = MethodCall(uid, UID_GET, Listed(from \o to))
    BY <1>8 DEF Program, GetLock
  <2>2. Neutral(from) /\ Neutral(to) /\ uid \in Uids
    BY <1>1, NeutralArgs, NeutralNamed, RowUids DEF COL_READ_LOCKED, COL_WRITE_LOCKED
  <2> HIDE DEF from, to, uid
  <2>3. Neutral(Listed(from \o to))
    BY <2>2, LeavesMore, NeutralListed DEF Neutral
  <2> QED
    BY <2>1, <2>2, <2>3, NeutralCall, UidConstants
<1>9. CASE m = "revert"
  BY <1>9, NeutralNothing, NeutralCall, UidConstants DEF Program, Revert
<1> QED
  BY <1>2, <1>3, <1>4, <1>5, <1>6, <1>7, <1>8, <1>9 DEF PacketMethods

(* A packet whose tokens all fitted: what it holds and its three lengths. *)
Stamped(p, toks, tsn) ==
  /\ p.toks = toks /\ p.tsn = tsn /\ p.com = com_id
  /\ p.len \in TotalHdrLen .. MaxCmdLen
  /\ p.sp_len = p.len - TotalHdrLen
  /\ p.pkt_len = p.len - ComPacketHdrLen - PacketHdrLen
  /\ p.cp_len - (p.len - ComPacketHdrLen) \in 0 .. 3 /\ p.cp_len % 4 = 0

LEMMA FinalisedStamps ==
  ASSUME NEW toks, BuiltAs(Built(toks), toks, FALSE), NEW tsn
  PROVE  Stamped(buf_finalise(Built(toks), com_id, tsn), toks, tsn)
<1> DEFINE b == Built(toks)
           payload == b.cmd_pos - TotalHdrLen
           pad == (4 - (payload % 4)) % 4
           p == buf_finalise(b, com_id, tsn)
<1>1. b.toks = toks /\ b.cmd_pos \in TotalHdrLen .. MaxCmdLen
  BY DEF BuiltAs
<1>2. p = [toks |-> b.toks, com |-> com_id, tsn |-> tsn, len |-> b.cmd_pos,
           sp_len |-> payload, pkt_len |-> SubPacketHdrLen + payload,
           cp_len |-> PacketHdrLen + (SubPacketHdrLen + payload) + pad]
  BY Zenon DEF buf_finalise
<1> HIDE DEF p, b
<1>3. payload \in Nat /\ b.cmd_pos = payload + 52
  BY <1>1 DEF TotalHdrLen, MaxCmdLen
<1> HIDE DEF payload
<1>4. pad \in 0 .. 3 /\ (payload + pad) % 4 = 0
  <2> DEFINE q == payload \div 4
             r == payload % 4
  <2>1. q \in Nat /\ r \in 0 .. 3 /\ payload = 4 * q + r
    BY <1>3
  <2> HIDE DEF q, r
  <2>2. pad = IF r = 0 THEN 0 ELSE 4 - r
    BY <2>1 DEF r
  <2> QED
    BY <2>1, <2>2
<1> HIDE DEF pad
<1>5. (PacketHdrLen + (SubPacketHdrLen + payload) + pad) % 4 = 0
  BY <1>3, <1>4 DEF PacketHdrLen, SubPacketHdrLen
<1>6. Stamped(p, toks, tsn)
  BY <1>1, <1>2, <1>3, <1>4, <1>5
  DEF Stamped, TotalHdrLen, ComPacketHdrLen, PacketHdrLen, SubPacketHdrLen
<1> QED
  BY <1>6 DEF p, b

LEMMA PacketStamped ==
  ASSUME WireCoreInv, PacketInv, NEW t \in Tasks, pc[t] = "send"
  PROVE  /\ cmd_buf.method \in PacketMethods /\ call[t] \in Calls /\ call[t].op # "none"
         /\ cmd_buf.user \in UserIds \cup {NoRow}
         /\ Stamped(packet, Program(cmd_buf.method, call[t], cmd_buf.user), cmd_buf.tsn)
<1> DEFINE c    == call[t]
           row  == cmd_buf.user
           prog == Program(cmd_buf.method, c, row)
<1>1. c \in Calls /\ c.op # "none" /\ c.op \in AllOperations /\ row \in UserIds \cup {NoRow}
  BY DEF WireCoreInv, TypeOK, ComIdInv, Calls, Commands
<1>2. /\ packet = PacketOf(c, cmd_buf, cmd_buf.tsn)
      /\ FirstCommand(t) \/ RevertCommand(t)
  BY DEF PacketInv
<1>3. CASE FirstCommand(t)
  <2>1. cmd_buf.method = MethodOf(c.op) /\ ~TooLong(c)
    BY <1>3 DEF FirstCommand
  <2>2. cmd_buf.method \in PacketMethods
    BY <1>1, <2>1 DEF MethodOf, PacketMethods, AllOperations, StartOps, MethodOps
  <2>3. BuiltAs(Built(prog), prog, TooLong(c))
    BY <1>1, <2>1, CommandBuilt
  <2> HIDE DEF c, row, prog
  <2>4. BuiltAs(Built(prog), prog, FALSE)
    BY <2>1, <2>3 DEF BuiltAs
  <2>5. packet = buf_finalise(Built(prog), com_id, cmd_buf.tsn)
    BY <1>2 DEF PacketOf, prog, row
  <2> QED
    BY <1>1, <2>2, <2>4, <2>5, FinalisedStamps DEF c, row, prog
<1>4. CASE RevertCommand(t)
  <2>1. cmd_buf.method = "revert" /\ prog = Revert
    BY <1>4 DEF RevertCommand, Program
  <2>2. Measured(Revert, MethodLen(0)) /\ MethodLen(0) \in Nat /\ ~Overflows(MethodLen(0))
    <3>1. Weighs(Revert, MethodLen(0))
      BY WeighsNothing, WeighsCall, UidConstants DEF Revert
    <3>2. ~Overflows(MethodLen(0))
      BY DEF Overflows, MethodLen, CallHeaderLen, UidLen, BytesLen, EodLen, TotalHdrLen,
             MaxCmdLen
    <3> QED
      BY <3>1, <3>2, WeighsWhole DEF Weighs
  <2>3. BuiltAs(Built(Revert), Revert, FALSE)
    <3>1. BuiltAs(Built(Revert), Revert, Overflows(MethodLen(0)))
      BY <2>2, MeasuredBuilds
    <3> QED
      BY <2>2, <3>1 DEF BuiltAs
  <2>4. packet = buf_finalise(Built(prog), com_id, cmd_buf.tsn)
    BY <1>2 DEF PacketOf
  <2> HIDE DEF c, row, prog
  <2>5. Stamped(packet, Revert, cmd_buf.tsn)
    BY <2>1, <2>3, <2>4, FinalisedStamps
  <2> QED
    BY <1>1, <2>1, <2>5 DEF PacketMethods, c, row, prog
<1> QED
  BY <1>2, <1>3, <1>4

(* Whatever the arguments, the packet IF-SEND is given closes every list    *)
(* and every name it opens, in order, and its three nested lengths enclose  *)
(* just the bytes sent, but for the pad of the ComPacket.                   *)
THEOREM PacketsWellFormed == WireSpec => []PacketWellFormed
<1>1. WireCoreInv /\ PacketInv => PacketWellFormed
  <2> SUFFICES ASSUME WireCoreInv, PacketInv, NEW t \in Tasks, pc[t] = "send"
               PROVE  /\ Balanced(packet.toks)
                      /\ packet.sp_len = packet.len - TotalHdrLen
                      /\ packet.pkt_len = packet.len - ComPacketHdrLen - PacketHdrLen
                      /\ packet.cp_len - (packet.len - ComPacketHdrLen) \in 0 .. 3
                      /\ packet.cp_len % 4 = 0
    BY DEF PacketWellFormed
  <2>1. Neutral(packet.toks)
    BY PacketStamped, ProgramNeutral DEF Stamped
  <2> QED
    BY <2>1, PacketStamped, NeutralBalanced DEF Stamped
<1> QED
  BY <1>1, WireCore, WirePacket, PTL

-----------------------------------------------------------------------------
(* Reading the packet back. *)

(* A C_PIN UID tells its row; left partly uninitialised it names none. *)
LEMMA CPinRead ==
  ASSUME NEW user \in UserIds, NEW row \in UserIds \cup {NoRow},
         user = 0 \/ row \in {user, NoRow}
  PROVE  RowCPin(cpin_uid(user, StackBytes(row))) = row
<1> DEFINE uid == cpin_uid(user, StackBytes(row))
           rows == {u \in UserIds : CPinRow(u) = uid}
<1>1. UserIds \subseteq Nat /\ NoRow \notin UserIds
  BY DriveAssumption DEF NoRow
<1>2. ASSUME NEW u \in UserIds
      PROVE  /\ CPinRow(u) \in Uids /\ CPinRow(u)[4] = 11
             /\ CPinRow(u)[6] = (IF u = 0 THEN 1 ELSE 3) /\ (u # 0 => CPinRow(u)[8] = u)
  BY <1>1 DEF CPinRow, Uids, UID_LEN
<1>3. \A u, v \in UserIds : CPinRow(u) = CPinRow(v) => u = v
  BY <1>2
<1>4. CASE row = NoRow
  <2>1. StackBytes(row) = Zeros(8)
    BY <1>4 DEF StackBytes, UID_LEN
  <2>2. Zeros(8) = [i \in 1 .. 8 |-> 0]
    BY DEF Zeros
  <2>3. uid[4] = 0
    BY <2>1, <2>2 DEF cpin_uid
  <2>4. rows = {}
    BY <1>2, <2>3
  <2> HIDE DEF uid
  <2>5. RowCPin(uid) = NoRow
    BY <2>4 DEF RowCPin
  <2> QED
    BY <1>4, <2>5 DEF uid
<1>5. CASE row \in UserIds
  <2>1. StackBytes(row) = CPinRow(row)
    BY <1>1, <1>5 DEF StackBytes
  <2>2. uid = CPinRow(row)
    <3>1. CASE user = 0
      BY <2>1, <3>1 DEF cpin_uid
    <3>2. CASE user # 0
      <4> DEFINE pin8 == CPinRow(row)
      <4>1. row = user
        BY <1>1, <1>5, <3>2
      <4>2. pin8 \in [1 .. 8 -> Nat] /\ pin8[6] = 3 /\ pin8[8] = user
        BY <1>2, <1>5, <3>2, <4>1 DEF Uids, UID_LEN
      <4> HIDE DEF pin8
      <4>3. [pin8 EXCEPT ![6] = 3, ![8] = user] = pin8
        BY <4>2
      <4>4. uid = [pin8 EXCEPT ![6] = 3, ![8] = user]
        BY <2>1, <3>2, Zenon DEF cpin_uid, pin8
      <4> QED
        BY <4>3, <4>4 DEF pin8
    <3> QED
      BY <3>1, <3>2
  <2> HIDE DEF uid
  <2>3. {u \in UserIds : CPinRow(u) = uid} = {row}
    BY <1>3, <1>5, <2>2
  <2>4. RowCPin(uid) = CHOOSE u \in {row} : TRUE
    BY <2>3 DEF RowCPin
  <2> QED
    BY <2>4 DEF uid
<1> QED
  BY <1>4, <1>5

(* A LockingRange UID tells its row. *)
LEMMA RangeRead ==
  ASSUME NEW r \in RangeIds
  PROVE  /\ TableOf(build_locking_range_uid(r)) = LockingTable
         /\ RowNamed(build_locking_range_uid(r)) = r
<1>1. r \in Nat
  BY DriveAssumption
<1> QED
  BY <1>1 DEF build_locking_range_uid, UID_GLOBALRANGE, TableOf, RowNamed, LockingTable

(* The tables and the methods are told apart. *)
LEMMA TablesRead ==
  /\ \A u \in UserIds, row \in UserIds \cup {NoRow} :
       TableOf(cpin_uid(u, StackBytes(row))) # LockingTable
  /\ \A u \in UserIds : TableOf(auth_uid(u)) = AuthorityTable
  /\ TableOf(UID_AUTH_PSID) = AuthorityTable
  /\ \A sp \in {UID_ADMINSP, UID_LOCKINGSP} : TableOf(sp) = SpTable
  /\ \A u \in {UID_SMUID, UID_STARTSESSION} : TableOf(u) \notin {SpTable, AuthorityTable}
  /\ SpTable # AuthorityTable
<1>1. UserIds \subseteq Nat
  BY DriveAssumption
<1>2. ASSUME NEW u \in UserIds, NEW row \in UserIds \cup {NoRow}
      PROVE  TableOf(cpin_uid(u, StackBytes(row))) # LockingTable
  <2> DEFINE stack == StackBytes(row)
  <2>1. stack[3] = 0 /\ stack \in Uids
    BY <1>1 DEF StackBytes, CPinRow, Zeros, Uids, UID_LEN
  <2> HIDE DEF stack
  <2>2. cpin_uid(u, stack)[3] = 0
    BY <2>1 DEF cpin_uid, Uids, UID_LEN
  <2>3. TableOf(cpin_uid(u, stack)) # LockingTable
    BY <2>2 DEF TableOf, LockingTable
  <2> QED
    BY <2>3 DEF stack
<1>3. ASSUME NEW u \in UserIds PROVE TableOf(auth_uid(u)) = AuthorityTable
  BY DEF auth_uid, UID_AUTH_ADMIN1, UID_AUTH_USER1, TableOf, AuthorityTable
<1>4. TableOf(UID_AUTH_PSID) = AuthorityTable
  BY DEF UID_AUTH_PSID, TableOf, AuthorityTable
<1>5. \A sp \in {UID_ADMINSP, UID_LOCKINGSP} : TableOf(sp) = SpTable
  BY DEF UID_ADMINSP, UID_LOCKINGSP, TableOf, SpTable
<1>6. \A u \in {UID_SMUID, UID_STARTSESSION} : TableOf(u) \notin {SpTable, AuthorityTable}
  BY DEF UID_SMUID, UID_STARTSESSION, TableOf, SpTable, AuthorityTable
<1>7. SpTable # AuthorityTable
  BY DEF SpTable, AuthorityTable
<1> QED
  BY <1>2, <1>3, <1>4, <1>5, <1>6, <1>7

LEMMA MethodsDiffer ==
  /\ UID_ACTIVATE # UID_STARTSESSION
  /\ UID_REVERT \notin {UID_STARTSESSION, UID_ACTIVATE}
  /\ UID_GET \notin {UID_STARTSESSION, UID_ACTIVATE, UID_REVERT}
  /\ UID_SET \notin {UID_STARTSESSION, UID_ACTIVATE, UID_REVERT, UID_GET}
BY DEF UID_STARTSESSION, UID_ACTIVATE, UID_REVERT, UID_GET, UID_SET

(* What a reader finds in the packet of each command. *)
LEMMA MethodReadBack ==
  ASSUME NEW c \in Calls, NEW m \in PacketMethods, NEW row \in UserIds \cup {NoRow},
         NEW p, p.toks = Program(m, c, row)
  PROVE  /\ MethodRead(p) = m
         /\ m \in {"set_lock", "get"} => InvokingUid(p) = build_locking_range_uid(c.range)
         /\ m = "set_pin" => InvokingUid(p) = cpin_uid(c.user, StackBytes(row))
<1>1. LenOf(c.pin) \in Nat /\ c.user \in UserIds /\ c.range \in RangeIds
  BY CoreAssumption DEF Calls, PinArgs, LenOf
<1> DEFINE Says(u, mth, who) ==
             /\ InvokingUid(p) = u /\ MethodUid(p) = mth
             /\ p.toks # <<>> /\ p.toks # EndOfSession
<1>2. CASE m = "discovery"
  <2>1. p.toks = <<>>
    BY <1>2 DEF Program, Discovery
  <2> QED
    BY <1>2, <2>1 DEF MethodRead
<1>3. CASE m = "end_session"
  <2>1. p.toks = EndOfSession /\ EndOfSession # <<>>
    BY <1>3 DEF Program, EndOfSession
  <2> QED
    BY <1>3, <2>1 DEF MethodRead
<1>4. CASE m = "start_session"
  <2> DEFINE sp   == IF c.op = "start_locking" THEN UID_LOCKINGSP ELSE UID_ADMINSP
             auth == IF c.op = "revert" THEN UID_AUTH_PSID ELSE auth_uid(c.user)
             n    == LenOf(c.pin)
             args == <<append_u32(HostSessionId), append_uid(sp), append_u8(1)>>
                       \o HostCredential(auth, n)
  <2>1. p.toks = MethodCall(UID_SMUID, UID_STARTSESSION, args)
    <3>1. p.toks = StartSession(sp, auth, n)
      BY <1>4 DEF Program
    <3> QED
      BY <3>1, Zenon DEF StartSession
  <2>2. args \in Seq(Tokens)
    <3>1. sp \in Uids /\ auth \in Uids
      BY <1>1, UidConstants, RowUids
    <3> HIDE DEF sp, auth, n
    <3>2. Weighs(HostCredential(auth, n), CredentialLen(n))
      BY <1>1, <3>1, WeighsCredential DEF n
    <3>3. {append_u32(HostSessionId), append_uid(sp), append_u8(1)} \subseteq Tokens
      BY <3>1, TokenTypes DEF HostSessionId
    <3>4. <<append_u32(HostSessionId), append_uid(sp), append_u8(1)>> \in Seq(Tokens)
      BY <3>3
    <3> QED
      BY <3>2, <3>4 DEF Weighs
  <2> HIDE DEF args
  <2>3. /\ MethodUid(p) = UID_STARTSESSION
        /\ p.toks # <<>> /\ p.toks # EndOfSession
    BY <2>1, <2>2, UidConstants, CallRead
  <2>4. MethodRead(p) = "start_session"
    BY <2>3, MethodsDiffer DEF MethodRead
  <2> QED
    BY <1>4, <2>4
<1>5. CASE m = "set_lock"
  <2> DEFINE v == IF c.val THEN 1 ELSE 0
             uid  == build_locking_range_uid(c.range)
             cols == Named(COL_READ_LOCKED, <<append_u8(v)>>)
                       \o Named(COL_WRITE_LOCKED, <<append_u8(v)>>)
             args == Named(1, Listed(cols))
  <2>1. p.toks = MethodCall(uid, UID_SET, args)
    <3>1. p.toks = SetLock(c.range, v)
      BY <1>5 DEF Program
    <3> QED
      BY <3>1, Zenon DEF SetLock, SetRow
  <2>2. args \in Seq(Tokens)
    <3>1. Neutral(Named(COL_READ_LOCKED, <<append_u8(v)>>))
          /\ Neutral(Named(COL_WRITE_LOCKED, <<append_u8(v)>>))
      BY NeutralArgs, NeutralNamed DEF COL_READ_LOCKED, COL_WRITE_LOCKED
    <3>2. Neutral(cols)
      BY <3>1, LeavesMore DEF Neutral
    <3> HIDE DEF cols
    <3>3. Neutral(args)
      BY <3>2, NeutralListed, NeutralNamed
    <3> QED
      BY <3>3 DEF Neutral, Leaves
  <2> HIDE DEF args
  <2>3. uid \in Uids
    BY <1>1, RowUids
  <2> HIDE DEF uid
  <2>4. /\ InvokingUid(p) = uid /\ MethodUid(p) = UID_SET
        /\ p.toks # <<>> /\ p.toks # EndOfSession
    BY <2>1, <2>2, <2>3, UidConstants, CallRead
  <2>5. TableOf(InvokingUid(p)) = LockingTable
    BY <1>1, <2>4, RangeRead DEF uid
  <2>6. MethodRead(p) = "set_lock"
    BY <2>4, <2>5, MethodsDiffer DEF MethodRead
  <2> QED
    BY <1>5, <2>4, <2>6 DEF uid
<1>6. CASE m = "set_pin"
  <2> DEFINE uid  == cpin_uid(c.user, StackBytes(row))
             args == Named(1, Listed(Named(3, <<append_pin(LenOf(c.pin))>>)))
  <2>1. p.toks = MethodCall(uid, UID_SET, args)
    <3>1. p.toks = SetPin(uid, LenOf(c.pin))
      BY <1>6 DEF Program
    <3> QED
      BY <3>1, Zenon DEF SetPin, SetRow
  <2>2. args \in Seq(Tokens)
    <3>1. Neutral(args)
      BY <1>1, NeutralArgs, NeutralNamed, NeutralListed
    <3> QED
      BY <3>1 DEF Neutral, Leaves
  <2> HIDE DEF args
  <2>3. uid \in Uids /\ TableOf(uid) # LockingTable
    BY <1>1, RowUids, TablesRead
  <2> HIDE DEF uid
  <2>4. /\ InvokingUid(p) = uid /\ MethodUid(p) = UID_SET
        /\ p.toks # <<>> /\ p.toks # EndOfSession
    BY <2>1, <2>2, <2>3, UidConstants, CallRead
  <2>5. MethodRead(p) = "set_pin"
    BY <2>3, <2>4, MethodsDiffer DEF MethodRead
  <2> QED
    BY <1>6, <2>4, <2>5 DEF uid
<1>7. CASE m = "get"
  <2> DEFINE uid  == build_locking_range_uid(c.range)
             from == Named(3, <<append_u8(COL_READ_LOCKED)>>)
             to   == Named(4, <<append_u8(COL_WRITE_LOCKED)>>)
             args == Listed(from \o to)
  <2>1. p.toks = MethodCall(uid, UID_GET, args)
    BY <1>7 DEF Program, GetLock
  <2>2. args \in Seq(Tokens)
    <3>1. Neutral(from) /\ Neutral(to)
      BY NeutralArgs, NeutralNamed DEF COL_READ_LOCKED, COL_WRITE_LOCKED
    <3> HIDE DEF from, to
    <3>2. Neutral(args)
      BY <3>1, LeavesMore, NeutralListed DEF Neutral
    <3> QED
      BY <3>2 DEF Neutral, Leaves
  <2>3. uid \in Uids
    BY <1>1, RowUids
  <2> HIDE DEF args, uid
  <2>4. /\ InvokingUid(p) = uid /\ MethodUid(p) = UID_GET
        /\ p.toks # <<>> /\ p.toks # EndOfSession
    BY <2>1, <2>2, <2>3, UidConstants, CallRead
  <2>5. MethodRead(p) = "get"
    BY <2>4, MethodsDiffer DEF MethodRead
  <2> QED
    BY <1>7, <2>4, <2>5 DEF uid
<1>8. CASE m \in {"activate", "revert"}
  <2> DEFINE u   == IF m = "activate" THEN UID_LOCKINGSP ELSE UID_ADMINSP
             mth == IF m = "activate" THEN UID_ACTIVATE ELSE UID_REVERT
  <2>1. p.toks = MethodCall(u, mth, <<>>)
    BY <1>8 DEF Program, Activate, Revert
  <2>2. u \in Uids /\ mth \in Uids /\ <<>> \in Seq(Tokens)
    BY UidConstants
  <2> HIDE DEF u, mth
  <2>3. MethodUid(p) = mth /\ p.toks # <<>> /\ p.toks # EndOfSession
    <3> DEFINE none == <<>>
    <3>1. none \in Seq(Tokens) /\ p.toks = MethodCall(u, mth, none)
      BY <2>1, <2>2
    <3> HIDE DEF none
    <3> QED
      BY <2>2, <3>1, CallRead
  <2>4. MethodRead(p) = m
    BY <1>8, <2>3, MethodsDiffer DEF MethodRead, mth
  <2> QED
    BY <1>8, <2>4
<1> QED
  BY <1>2, <1>3, <1>4, <1>5, <1>6, <1>7, <1>8 DEF PacketMethods

LEMMA SessionReadBack ==
  ASSUME NEW c \in Calls, NEW row, NEW p, p.toks = Program("start_session", c, row)
  PROVE  /\ UidsOf(p, SpTable)
              = {IF c.op = "start_locking" THEN UID_LOCKINGSP ELSE UID_ADMINSP}
         /\ UidsOf(p, AuthorityTable) = IF LenOf(c.pin) = 0 THEN {} ELSE {AuthNamed(c)}
<1> DEFINE sp   == IF c.op = "start_locking" THEN UID_LOCKINGSP ELSE UID_ADMINSP
           auth == AuthNamed(c)
           n    == LenOf(c.pin)
           uids == {UID_SMUID, UID_STARTSESSION, sp} \cup IF n = 0 THEN {} ELSE {auth}
<1>1. n \in Nat /\ c.user \in UserIds
  BY CoreAssumption DEF Calls, PinArgs, LenOf
<1>2. sp \in Uids /\ auth \in Uids
  BY <1>1, UidConstants, RowUids DEF AuthNamed
<1>3. TableOf(sp) = SpTable /\ TableOf(auth) = AuthorityTable
  BY <1>1, TablesRead DEF AuthNamed
<1>4. p.toks = StartSession(sp, auth, n)
  BY DEF Program, AuthNamed
<1>5. UidSet(p.toks) = uids
  <2> HIDE DEF sp, auth, n
  <2>1. Mentions(StartSession(sp, auth, n), uids)
    BY <1>1, <1>2, MentionsStartSession, Zenon
  <2> HIDE DEF uids
  <2> QED
    BY <1>4, <2>1 DEF Mentions
<1>6. ASSUME NEW table PROVE UidsOf(p, table) = {u \in uids : TableOf(u) = table}
  BY <1>5 DEF UidsOf, UidSet
<1> HIDE DEF sp, auth, n
<1>7. UidsOf(p, SpTable) = {sp}
  BY <1>3, <1>6, TablesRead
<1>8. UidsOf(p, AuthorityTable) = IF n = 0 THEN {} ELSE {auth}
  BY <1>3, <1>6, TablesRead
<1> QED
  BY <1>7, <1>8 DEF sp, auth, n

(* Read back from its tokens and headers, every packet IF-SEND is given is  *)
(* the command the core meant, whatever the row, the range, the credential  *)
(* and the other tasks: method, session, ComID, row, Security Provider and  *)
(* authority.                                                               *)
THEOREM PacketsSayCommands == WireSpec => []PacketSaysCommand
<1>1. ASSUME WireCoreInv, PacketInv, NEW t \in Tasks, pc[t] = "send"
      PROVE  /\ MethodRead(packet) = cmd_buf.method
             /\ packet.tsn = cmd_buf.tsn
             /\ cmd_buf.method # "discovery" => packet.com = cmd_buf.com
             /\ cmd_buf.method \in {"set_lock", "get"} =>
                  /\ TableOf(InvokingUid(packet)) = LockingTable
                  /\ RowNamed(InvokingUid(packet)) = cmd_buf.range
             /\ cmd_buf.method = "set_pin" => RowCPin(InvokingUid(packet)) = cmd_buf.user
             /\ cmd_buf.method = "start_session" =>
                  /\ UidsOf(packet, SpTable) = {SpNamed(cmd_buf.sp)}
                  /\ UidsOf(packet, AuthorityTable) = IF cmd_buf.pin = NoPin THEN {}
                                                      ELSE {AuthNamed(call[t])}
  <2> DEFINE c   == call[t]
             m   == cmd_buf.method
             row == cmd_buf.user
  <2>1. /\ m \in PacketMethods /\ c \in Calls /\ row \in UserIds \cup {NoRow}
        /\ packet.toks = Program(m, c, row) /\ packet.tsn = cmd_buf.tsn
        /\ packet.com = com_id
    BY <1>1, PacketStamped DEF Stamped
  <2>2. c.user \in UserIds /\ c.range \in RangeIds /\ c.pin \in PinArgs
    BY <2>1 DEF Calls
  <2>3. cmd_buf = Packet(m, c, row, cmd_buf.tsn)
    BY <1>1 DEF PacketInv
  <2>4. m # "discovery" => cmd_buf.com = com_id
    BY <1>1 DEF WireCoreInv, ComIdInv, InExchange
  <2>5. /\ cmd_buf.range = c.range
        /\ cmd_buf.sp = (IF c.op = "start_locking" THEN "locking" ELSE "admin")
        /\ m = "start_session" => (cmd_buf.pin = NoPin <=> LenOf(c.pin) = 0)
    <3>1. /\ cmd_buf.range = c.range
          /\ cmd_buf.sp = (IF c.op = "start_locking" THEN "locking" ELSE "admin")
          /\ cmd_buf.pin = (IF m = "revert" \/ LenOf(c.pin) = 0 THEN NoPin ELSE c.pin)
      BY <2>3 DEF Packet
    <3>2. c.pin = NoPin => LenOf(c.pin) = 0
      BY DEF LenOf
    <3> QED
      BY <3>1, <3>2
  <2>6. m = "set_pin" => c.user = 0 \/ row \in {c.user, NoRow}
    <3>1. ASSUME m = "set_pin" PROVE c.op = "set_password" /\ row \in PinRows(c)
      <4>1. FirstCommand(t)
        BY <1>1, <3>1 DEF PacketInv, RevertCommand
      <4> QED
        BY <2>1, <3>1, <4>1
        DEF FirstCommand, MethodOf, Calls, AllOperations, StartOps, MethodOps
    <3> QED
      BY <3>1 DEF PinRows
  <2> HIDE DEF c, m, row
  <2>7. /\ MethodRead(packet) = m
        /\ m \in {"set_lock", "get"} => InvokingUid(packet) = build_locking_range_uid(c.range)
        /\ m = "set_pin" => InvokingUid(packet) = cpin_uid(c.user, StackBytes(row))
    BY <2>1, MethodReadBack
  <2>8. m = "set_pin" => RowCPin(InvokingUid(packet)) = row
    BY <2>1, <2>2, <2>6, <2>7, CPinRead
  <2>9. m \in {"set_lock", "get"} =>
          /\ TableOf(InvokingUid(packet)) = LockingTable
          /\ RowNamed(InvokingUid(packet)) = c.range
    BY <2>2, <2>7, RangeRead
  <2>10. m = "start_session" =>
           /\ UidsOf(packet, SpTable) = {SpNamed(cmd_buf.sp)}
           /\ UidsOf(packet, AuthorityTable) = IF cmd_buf.pin = NoPin THEN {}
                                               ELSE {AuthNamed(c)}
    <3>1. SpNamed(cmd_buf.sp)
            = IF c.op = "start_locking" THEN UID_LOCKINGSP ELSE UID_ADMINSP
      BY <2>5 DEF SpNamed
    <3> QED
      BY <2>1, <2>5, <3>1, SessionReadBack
  <2> QED
    BY <2>1, <2>4, <2>5, <2>7, <2>8, <2>9, <2>10 DEF c, m, row
<1>2. WireCoreInv /\ PacketInv => PacketSaysCommand
  BY <1>1, Zenon DEF PacketSaysCommand
<1> QED
  BY <1>2, WireCore, WirePacket, PTL

-----------------------------------------------------------------------------
(* What the drive answers. *)

(* Only a status may be other than SUCCESS, and only a row be locked. *)
WellSaid(a) ==
  /\ a.status \in Refusals \cup {OPAL_STATUS_SUCCESS}
  /\ a.locked => a.kind = "row"

AnswersWellSaid == WellSaid(answer) /\ WellSaid(resp_buf)

LEMMA DriveWellSaid ==
  ASSUME NEW c \in Commands, DriveExecutes(c)
  PROVE  WellSaid(answer')
<1>1. ASSUME NEW com, NEW n, NEW s \in Refusals \cup {OPAL_STATUS_SUCCESS}, NEW l
      PROVE  /\ WellSaid(DiscoveryAnswer(com)) /\ WellSaid(EmptyAnswer)
             /\ WellSaid(SyncAnswer(n)) /\ WellSaid(StatusAnswer(s)) /\ WellSaid(RowAnswer(l))
  BY DEF WellSaid, Answer, DiscoveryAnswer, EmptyAnswer, SyncAnswer, StatusAnswer, RowAnswer
<1>2. \/ \E com : answer' = DiscoveryAnswer(com)
      \/ \E n : answer' = SyncAnswer(n)
      \/ answer' = EmptyAnswer
      \/ \E s \in Refusals \cup {OPAL_STATUS_SUCCESS} : answer' = StatusAnswer(s)
      \/ \E l : answer' = RowAnswer(l)
  BY Zenon
  DEF DriveExecutes, DriveDiscovers, DriveGrants, DriveEndsSession, DriveSetsLock,
      DriveActivates, DriveSetsPin, DriveReverts, DriveReadsRow, DriveRefuses
<1> QED
  BY <1>1, <1>2, Zenon

LEMMA NextWellSaid ==
  ASSUME TypeOK, AnswersWellSaid, [Next]_vars PROVE AnswersWellSaid'
<1> USE DEF AnswersWellSaid
<1>1. ASSUME NEW t \in Tasks, Send(t) PROVE AnswersWellSaid'
  <2>1. resp_buf' = resp_buf /\ (DriveExecutes(cmd_buf) \/ answer' = answer)
    BY <1>1 DEF Send, driveVars
  <2> QED
    BY <2>1, DriveWellSaid DEF TypeOK, WellSaid
<1>2. ASSUME NEW t \in Tasks, Recv(t) PROVE AnswersWellSaid'
  <2>1. {answer', resp_buf'} \subseteq {answer, EmptyAnswer}
    BY <1>2 DEF Recv
  <2>2. WellSaid(EmptyAnswer)
    BY DEF WellSaid, EmptyAnswer, Answer
  <2> QED
    BY <2>1, <2>2 DEF WellSaid
<1>3. ASSUME UNCHANGED <<resp_buf, driveVars>> PROVE AnswersWellSaid'
  BY <1>3 DEF driveVars, WellSaid
<1>4. ASSUME NEW t \in Tasks, CallApi(t) \/ CallDestroy(t) \/ Free(t) \/ Acquire(t)
             \/ Decline(t) \/ Build(t) \/ Finish(t)
      PROVE  UNCHANGED <<resp_buf, driveVars>>
  BY <1>4 DEF CallApi, CallWith, CallDestroy, Free, Acquire, Decline, Build, Finish,
     FinishDiscover, FinishStart, FinishEnd, FinishMethod, FinishQuery,
     FinishPsidSession, FinishRevert
<1>5. CASE UNCHANGED vars
  BY <1>5, <1>3 DEF vars
<1> QED
  BY <1>1, <1>2, <1>3, <1>4, <1>5 DEF Next, Step, Done

-----------------------------------------------------------------------------
(* What the parsers make of the bytes that carry an answer. *)

ReadRight(r, a, before) ==
  /\ a.kind \in {"empty", "method"} /\ a.status # ENDOFDATA =>
       parse_status(r) = IF a.kind = "empty" THEN OPAL_ERR_PROTO
                         ELSE CodeOfStatus(IF before THEN a.status ELSE 0)
  /\ a.kind \in {"empty", "method", "sync"} =>
       parse_start_session_resp(r) = IF a.kind = "sync" THEN a.tsn ELSE NoTsn
  /\ a.kind \in {"empty", "method", "row"} =>
       \A col \in Columns : column_value(r, col) = IF a.locked THEN 1 ELSE 0
  /\ a.kind = "disc" =>
       parse_discovery(r) = [com     |-> a.com,
                             enabled |-> active,
                             locked  |-> \E n \in RangeIds : locked[n]]
  /\ Fits(r)

LEMMA LockingBitsRead ==
  ASSUME active \in BOOLEAN
  PROVE  /\ LockingBits \in Nat
         /\ BitsOf(LockingBits).enabled = active
         /\ BitsOf(LockingBits).locked = \E n \in RangeIds : locked[n]
<1> DEFINE some == \E n \in RangeIds : locked[n]
           bits == 1 + (IF active THEN 2 ELSE 0) + (IF some THEN 4 ELSE 0)
<1>1. LockingBits = bits
  BY Zenon DEF LockingBits
<1>2. some \in BOOLEAN
  OBVIOUS
<1> HIDE DEF some
<1>3. /\ bits \in Nat
      /\ (bits \div 2) % 2 = 1 <=> active
      /\ (bits \div 4) % 2 = 1 <=> some
  <2>1. CASE active /\ some
    BY <2>1
  <2>2. CASE active /\ ~some
    BY <2>2
  <2>3. CASE ~active /\ some
    BY <2>3
  <2>4. CASE ~active /\ ~some
    BY <2>4
  <2> QED
    BY <2>1, <2>2, <2>3, <2>4
<1> HIDE DEF bits
<1>4. ((bits \div 2) % 2 = 1) = active /\ ((bits \div 4) % 2 = 1) = some
  BY <1>2, <1>3
<1>5. BitsOf(bits).enabled = active /\ BitsOf(bits).locked = some
  BY <1>4, Zenon DEF BitsOf
<1> QED
  BY <1>1, <1>3, <1>5 DEF some

(* Whatever the layout and the length, the parser of each answer reads from *)
(* the bytes what the drive said.                                           *)
LEMMA ResponsesRead ==
  ASSUME active \in BOOLEAN, NEW a \in Answers, WellSaid(a), NEW before \in BOOLEAN,
         NEW r \in Responses(a, before)
  PROVE  ReadRight(r, a, before)
<1>1. PICK b \in Layouts(a, before) : \E len \in {Len(b), MaxRespLen} : r = Response(b, len)
  BY DEF Responses
<1>2. PICK len \in {Len(b), MaxRespLen} : r = Response(b, len)
  BY <1>1
<1>3. /\ a.status \in Nat /\ a.tsn \in Nat /\ a.com \in Nat /\ a.locked \in BOOLEAN
      /\ a.locked => a.kind = "row"
  BY DEF Answers, WellSaid
<1>4. CASE a.kind = "empty"
  <2>1. PICK n \in {0, 20, 52} : b = Zeros(n)
    <3>1. b \in {<<>>, Zeros(20), Zeros(52)}
      BY <1>1, <1>4 DEF Layouts, TotalHdrLen
    <3>2. Zeros(0) = <<>>
      BY DEF Zeros
    <3> QED
      BY <3>1, <3>2
  <2>2. Len(b) = n
    BY <2>1, ZerosRead
  <2>3. /\ parse_status(r) = OPAL_ERR_PROTO /\ parse_start_session_resp(r) = NoTsn
        /\ \A col \in Columns : column_value(r, col) = 0
        /\ Fits(r)
    BY <1>2, <2>1, <2>2, EmptyRead
  <2> QED
    BY <1>3, <1>4, <2>3 DEF ReadRight
<1>5. CASE a.kind = "method"
  <2>1. b \in {RESP_STATUS(a.status, before), FullStatus(a.status, before)}
    BY <1>1, <1>5 DEF Layouts
  <2>2. /\ a.status # ENDOFDATA =>
             parse_status(r) = CodeOfStatus(IF before THEN a.status ELSE 0)
        /\ parse_start_session_resp(r) = NoTsn
        /\ \A col \in Columns : column_value(r, col) = 0
        /\ Fits(r)
    BY <1>2, <1>3, <2>1, MethodsRead
  <2> QED
    BY <1>3, <1>5, <2>2 DEF ReadRight
<1>6. CASE a.kind = "sync"
  <2>1. b \in {RESP_SES(a.tsn, before), FullSyncSession(a.tsn, before)}
    BY <1>1, <1>6 DEF Layouts
  <2>2. parse_start_session_resp(r) = a.tsn /\ Fits(r)
    BY <1>2, <1>3, <2>1, SyncsRead
  <2> QED
    BY <1>6, <2>2 DEF ReadRight
<1>7. CASE a.kind = "row"
  <2> DEFINE l == IF a.locked THEN 1 ELSE 0
  <2>1. b = RowResult(l, before) /\ l \in {0, 1}
    BY <1>1, <1>7 DEF Layouts
  <2> HIDE DEF l
  <2>2. (\A col \in Columns : column_value(r, col) = l) /\ Fits(r)
    BY <1>2, <2>1, RowsRead
  <2> QED
    BY <1>7, <2>2 DEF ReadRight, l
<1>8. CASE a.kind = "disc"
  <2> DEFINE bits == LockingBits
  <2>1. /\ a.com = 0 => b = NoOpalDiscovery(bits)
        /\ a.com # 0 => b \in {RESP_DISC(a.com, bits), FullDiscovery(a.com, bits)}
    BY <1>1, <1>8 DEF Layouts
  <2>2. /\ bits \in Nat /\ BitsOf(bits).enabled = active
        /\ BitsOf(bits).locked = \E n \in RangeIds : locked[n]
    BY LockingBitsRead
  <2> HIDE DEF bits
  <2>3. /\ parse_discovery(r) = [com     |-> a.com,
                                 enabled |-> BitsOf(bits).enabled,
                                 locked  |-> BitsOf(bits).locked]
        /\ Fits(r)
    BY <1>2, <1>3, <2>1, <2>2, DiscoveriesRead
  <2> QED
    BY <1>8, <2>2, <2>3, Zenon DEF ReadRight
<1> QED
  BY <1>4, <1>5, <1>6, <1>7, <1>8 DEF Answers, Kinds

-----------------------------------------------------------------------------
(* What is in resp_buf when a task is about to parse it. *)

RawInv ==
  \A t \in Tasks : pc[t] = "finish" /\ ret[t] = OPAL_OK =>
    raw \in Responses(resp_buf, StatusBeforeEod)

(* Nothing touches resp_buf between the IF-RECV of a task and its parsers.  *)
LEMMA ReceiverAlone ==
  ASSUME WireCoreInv, [WireNext]_wireVars, NEW u \in Tasks,
         pc'[u] = "finish", ret'[u] = OPAL_OK
  PROVE  \/ pc[u] = "finish" /\ Undisturbed(u) /\ raw' = raw
         \/ WireRecv(u)
<1>1. TypeOK /\ LockDiscipline /\ [Next]_vars
  BY WireNextIsNext DEF WireCoreInv
<1>2. \A t \in Tasks : pc[t] \in Critical /\ pc[u] \in Critical => t = u
  BY <1>1, CoreAssumption DEF LockDiscipline, TypeOK
<1>3. pc[u] = "finish" => Undisturbed(u)
  <2>1. Step(u) /\ pc[u] = "finish" => pc'[u] # "finish"
    BY <1>1 DEF Step, Free, Acquire, Decline, Build, Send, Recv, Finish,
       FinishDiscover, FinishStart, FinishEnd, FinishMethod, FinishQuery,
       FinishPsidSession, FinishRevert, Return, TypeOK
  <2>2. pc'[u] \in Critical
    BY DEF Critical
  <2> QED
    BY <1>1, <2>1, <2>2, Holder
<1>4. ASSUME NEW t \in Tasks, WireRecv(t), t # u
      PROVE  FALSE
  <2>1. pc[t] \in Critical /\ pc[u] = "finish"
    BY <1>1, <1>4 DEF WireRecv, Recv, Critical, TypeOK
  <2> QED
    BY <1>2, <1>4, <2>1 DEF Critical
<1>5. ASSUME NEW t \in Tasks, WireBuild(t) \/ WirePsidSession(t) \/ WireOther(t)
      PROVE  pc[u] = "finish" /\ raw' = raw
  <2>1. CASE WireBuild(t)
    BY <1>1, <2>1 DEF WireBuild, Build, TypeOK
  <2>2. CASE WirePsidSession(t)
    BY <1>1, <2>2 DEF WirePsidSession, FinishPsidSession, Return, TypeOK
  <2>3. CASE Send(t) /\ UNCHANGED raw
    BY <1>1, <2>3 DEF Send, TypeOK, OPAL_OK, OPAL_ERR_TRANSPORT
  <2>4. CASE WireOther(t) /\ ~Send(t)
    BY <1>1, <2>4 DEF WireOther, CallApi, CallWith, CallDestroy, Acquire, Decline,
       Free, FinishDiscover, FinishStart, FinishEnd, FinishMethod, FinishQuery,
       FinishRevert, Return, TypeOK
  <2> QED
    BY <1>5, <2>1, <2>2, <2>3, <2>4 DEF WireOther
<1>6. CASE UNCHANGED wireVars \/ (Done /\ UNCHANGED <<packet, raw>>)
  BY <1>3, <1>6 DEF wireVars, vars, taskVars, Done
<1> QED
  BY <1>3, <1>4, <1>5, <1>6 DEF WireNext

LEMMA NextRaw ==
  ASSUME WireCoreInv, RawInv, [WireNext]_wireVars PROVE RawInv'
<1> SUFFICES ASSUME NEW u \in Tasks, pc'[u] = "finish", ret'[u] = OPAL_OK
             PROVE  raw' \in Responses(resp_buf, StatusBeforeEod)'
  BY DEF RawInv
<1>1. CASE pc[u] = "finish" /\ Undisturbed(u) /\ raw' = raw
  <2>1. raw \in Responses(resp_buf, StatusBeforeEod)
    BY <1>1 DEF RawInv, Undisturbed
  <2>2. resp_buf' = resp_buf /\ active' = active /\ locked' = locked
    BY <1>1 DEF Undisturbed, driveVars
  <2> QED
    BY <1>1, <2>1, <2>2 DEF Responses, Layouts, LockingBits
<1>2. CASE WireRecv(u)
  <2>1. raw' \in Responses(resp_buf', StatusBeforeEod) /\ active' = active /\ locked' = locked
    BY <1>2 DEF WireRecv, Recv
  <2> QED
    BY <2>1 DEF Responses, Layouts, LockingBits
<1> QED
  BY <1>1, <1>2, ReceiverAlone

WireReadInv == WireCoreInv /\ SessionInv /\ AnswerMatches /\ AnswersWellSaid /\ RawInv

LEMMA WireRead == WireSpec => []WireReadInv
<1>1. WireInit => SessionInv /\ AnswerMatches /\ AnswersWellSaid /\ RawInv
  <2>1. Init => AnswersWellSaid
    BY DEF Init, DriveInit, AnswersWellSaid, WellSaid, EmptyAnswer, Answer
  <2>2. WireInit => AnswerMatches /\ RawInv
    BY DEF WireInit, Init, AnswerMatches, RawInv
  <2> QED
    BY <2>1, <2>2, WireInitIsInit, InitSession
<1>2. ASSUME WireReadInv, [WireNext]_wireVars
      PROVE  (SessionInv /\ AnswerMatches /\ AnswersWellSaid /\ RawInv)'
  BY <1>2, WireNextIsNext, NextSession, NextAnswer, NextWellSaid, NextRaw
  DEF WireReadInv, WireCoreInv
<1>3. (SessionInv /\ AnswerMatches /\ AnswersWellSaid /\ RawInv)
        /\ WireCoreInv /\ [WireNext]_wireVars
      => (SessionInv /\ AnswerMatches /\ AnswersWellSaid /\ RawInv)'
  BY <1>2 DEF WireReadInv
<1>4. WireSpec => [](SessionInv /\ AnswerMatches /\ AnswersWellSaid /\ RawInv)
  BY <1>1, <1>3, WireCore, PTL DEF WireSpec
<1>5. WireCoreInv /\ (SessionInv /\ AnswerMatches /\ AnswersWellSaid /\ RawInv) => WireReadInv
  BY DEF WireReadInv
<1> QED
  BY <1>4, <1>5, WireCore, PTL

LEMMA RawReadRight ==
  ASSUME WireReadInv, NEW t \in Tasks, pc[t] = "finish", ret[t] = OPAL_OK
  PROVE  ReadRight(raw, resp_buf, StatusBeforeEod)
<1>1. /\ active \in BOOLEAN /\ resp_buf \in Answers /\ WellSaid(resp_buf)
      /\ StatusBeforeEod \in BOOLEAN /\ raw \in Responses(resp_buf, StatusBeforeEod)
  BY CoreAssumption
  DEF WireReadInv, WireCoreInv, TypeOK, DriveTypeOK, AnswersWellSaid, RawInv
<1> QED
  BY <1>1, ResponsesRead

(* A drive may lay out its features as it likes, name one or two ComIDs or  *)
(* none: what opal_discover reports of locking is what the drive is, other  *)
(* tasks and failed exchanges notwithstanding.                              *)
THEOREM DiscoveryReported == WireSpec => []DiscoveryReportsDrive
<1>1. WireReadInv => DiscoveryReportsDrive
  BY RawReadRight DEF DiscoveryReportsDrive, ReadRight
<1> QED
  BY <1>1, WireRead, PTL

(* parse_status looks for ENDOFDATA: it would take a status of that value   *)
(* for the token.                                                           *)
StatusIsNoToken == ENDOFDATA \notin Refusals

(* Over the bytes of resp_buf the parsers come to what OpalCore's decisions *)
(* take the answer to be: status, session number and lock state, in every   *)
(* layout, for every status and session number, whether resp_len is exact   *)
(* or that of the whole buffer.                                             *)
THEOREM ParsersRight == ASSUME StatusIsNoToken PROVE WireSpec => []ParsersAgree
<1>1. ASSUME WireReadInv, NEW t \in Tasks, pc[t] = "finish", ret[t] = OPAL_OK
      PROVE  /\ call[t].op \in MethodOps \/ cmd_buf.method = "revert" =>
                  /\ parse_status(raw) = ParseStatus(resp_buf)
                  /\ resp_buf.kind = "method" =>
                       \A r \in Responses(resp_buf, TRUE) :
                         parse_status(r) = CodeOfStatus(resp_buf.status)
             /\ cmd_buf.method = "start_session" =>
                  parse_start_session_resp(raw)
                    = IF SessionOpens(t) THEN resp_buf.tsn ELSE NoTsn
             /\ call[t].op = "query" =>
                  \A col \in {COL_READ_LOCKED, COL_WRITE_LOCKED} :
                    column_value(raw, col) = IF resp_buf.locked THEN 1 ELSE 0
  <2>1. ReadRight(raw, resp_buf, StatusBeforeEod)
    BY <1>1, RawReadRight
  <2>2. /\ resp_buf.kind \in AnswersTo(cmd_buf.method)
        /\ \/ cmd_buf.method = MethodOf(call[t].op)
           \/ call[t].op = "revert" /\ cmd_buf.method = "revert"
        /\ resp_buf \in Answers /\ active \in BOOLEAN /\ WellSaid(resp_buf)
    <3>1. resp_buf.kind \in AnswersTo(cmd_buf.method)
      BY <1>1 DEF WireReadInv, AnswerMatches
    <3>2. \/ cmd_buf.method = MethodOf(call[t].op)
          \/ call[t].op = "revert" /\ cmd_buf.method = "revert"
      BY <1>1 DEF WireReadInv, SessionInv, CommandOfCall
    <3>3. resp_buf \in Answers /\ active \in BOOLEAN /\ WellSaid(resp_buf)
      BY <1>1 DEF WireReadInv, WireCoreInv, TypeOK, DriveTypeOK, AnswersWellSaid
    <3> QED
      BY <3>1, <3>2, <3>3
  <2>3. resp_buf.status # ENDOFDATA
    BY <2>2 DEF WellSaid, StatusIsNoToken, OPAL_STATUS_SUCCESS, ENDOFDATA
  <2>4. ASSUME call[t].op \in MethodOps \/ cmd_buf.method = "revert"
        PROVE  /\ parse_status(raw) = ParseStatus(resp_buf)
               /\ resp_buf.kind = "method" =>
                    \A r \in Responses(resp_buf, TRUE) :
                      parse_status(r) = CodeOfStatus(resp_buf.status)
    <3>1. resp_buf.kind \in {"empty", "method"}
      BY <2>2, <2>4 DEF MethodOf, StartOps, MethodOps, AnswersTo
    <3>2. parse_status(raw) = ParseStatus(resp_buf)
      BY <2>1, <2>3, <3>1 DEF ReadRight, ParseStatus, StatusByte
    <3>3. ASSUME NEW r \in Responses(resp_buf, TRUE), resp_buf.kind = "method"
          PROVE  parse_status(r) = CodeOfStatus(resp_buf.status)
      <4>1. ReadRight(r, resp_buf, TRUE)
        BY <2>2, <3>3, ResponsesRead
      <4> QED
        BY <2>3, <3>3, <4>1 DEF ReadRight
    <3> QED
      BY <3>2, <3>3
  <2>5. ASSUME cmd_buf.method = "start_session"
        PROVE  parse_start_session_resp(raw)
                 = IF SessionOpens(t) THEN resp_buf.tsn ELSE NoTsn
    <3>1. resp_buf.kind \in {"empty", "method", "sync"}
      BY <2>2, <2>5 DEF AnswersTo
    <3> QED
      BY <1>1, <2>1, <3>1 DEF ReadRight, SessionOpens
  <2>6. ASSUME call[t].op = "query"
        PROVE  \A col \in {COL_READ_LOCKED, COL_WRITE_LOCKED} :
                 column_value(raw, col) = IF resp_buf.locked THEN 1 ELSE 0
    <3>1. resp_buf.kind \in {"empty", "method", "row"}
      BY <2>2, <2>6 DEF MethodOf, StartOps, AnswersTo
    <3> QED
      BY <2>1, <3>1 DEF ReadRight, Columns
  <2> QED
    BY <2>4, <2>5, <2>6
<1>2. WireReadInv => ParsersAgree
  BY <1>1, Zenon DEF ParsersAgree
<1> QED
  BY <1>2, WireRead, PTL

-----------------------------------------------------------------------------
(* The buffers. *)

WireSizes ==
  /\ packet.len \in TotalHdrLen .. MaxCmdLen
  /\ packet.pkt_len \in SubPacketHdrLen .. MaxCmdLen
  /\ Fits(raw)

LEMMA StampedSizes ==
  ASSUME NEW p, NEW toks, NEW tsn, Stamped(p, toks, tsn)
  PROVE  p.len \in TotalHdrLen .. MaxCmdLen /\ p.pkt_len \in SubPacketHdrLen .. MaxCmdLen
<1> DEFINE n == p.len
           k == p.pkt_len
<1>1. n \in TotalHdrLen .. MaxCmdLen /\ k = n - ComPacketHdrLen - PacketHdrLen
  BY DEF Stamped
<1> HIDE DEF n, k
<1>2. k \in SubPacketHdrLen .. MaxCmdLen
  BY <1>1 DEF TotalHdrLen, MaxCmdLen, ComPacketHdrLen, PacketHdrLen, SubPacketHdrLen
<1> QED
  BY <1>1, <1>2 DEF n, k

SentFits ==
  \A t \in Tasks : pc[t] = "send" =>
    packet.len \in TotalHdrLen .. MaxCmdLen /\ packet.pkt_len \in SubPacketHdrLen .. MaxCmdLen

LEMMA WireSent == WireSpec => []SentFits
<1>1. ASSUME WireCoreInv, PacketInv, NEW t \in Tasks, pc[t] = "send"
      PROVE  /\ packet.len \in TotalHdrLen .. MaxCmdLen
             /\ packet.pkt_len \in SubPacketHdrLen .. MaxCmdLen
  BY <1>1, PacketStamped, StampedSizes
<1>2. WireCoreInv /\ PacketInv => SentFits
  BY <1>1 DEF SentFits
<1> QED
  BY <1>2, WireCore, WirePacket, PTL

LEMMA InitSizes == WireInit => WireSizes
<1> SUFFICES ASSUME WireInit PROVE WireSizes
  OBVIOUS
<1>1. Fits(raw)
  <2>1. raw.len = 0 /\ raw.bytes = <<>>
    BY DEF WireInit, NoResponse, Response
  <2> QED
    BY <2>1 DEF Fits, MaxRespLen
<1>2. packet.len = TotalHdrLen /\ packet.pkt_len = SubPacketHdrLen
  <2>1. packet = buf_finalise(buf_reset, 0, 0)
    BY DEF WireInit, NoPacket
  <2>2. /\ packet.len = buf_reset.cmd_pos
        /\ packet.pkt_len = SubPacketHdrLen + (buf_reset.cmd_pos - TotalHdrLen)
    BY <2>1, Zenon DEF buf_finalise
  <2>3. buf_reset.cmd_pos = TotalHdrLen
    BY DEF buf_reset
  <2> QED
    BY <2>2, <2>3 DEF TotalHdrLen, SubPacketHdrLen
<1> QED
  BY <1>1, <1>2 DEF WireSizes, TotalHdrLen, MaxCmdLen, SubPacketHdrLen

(* packet changes only when a task is about to send it, and raw only in     *)
(* IF-RECV.                                                                 *)
LEMMA NextSizes ==
  ASSUME TypeOK, TypeOK', AnswersWellSaid', SentFits', WireSizes, [WireNext]_wireVars
  PROVE  WireSizes'
<1>1. ASSUME NEW t \in Tasks, pc'[t] = "send", raw' = raw PROVE WireSizes'
  BY <1>1 DEF SentFits, WireSizes, Fits
<1>2. ASSUME UNCHANGED <<packet, raw>> PROVE WireSizes'
  BY <1>2 DEF WireSizes, Fits
<1>3. ASSUME NEW t \in Tasks, WireBuild(t) PROVE WireSizes'
  <2>1. pc'[t] = "send" /\ raw' = raw
    BY <1>3 DEF WireBuild, Build, TypeOK
  <2> QED
    BY <1>1, <2>1
<1>4. ASSUME NEW t \in Tasks, WirePsidSession(t) PROVE WireSizes'
  BY <1>1, <1>2, <1>4 DEF WirePsidSession
<1>5. ASSUME NEW t \in Tasks, WireRecv(t) PROVE WireSizes'
  <2>1. /\ active \in BOOLEAN /\ resp_buf' \in Answers /\ WellSaid(resp_buf')
        /\ StatusBeforeEod \in BOOLEAN
    BY CoreAssumption DEF TypeOK, DriveTypeOK, AnswersWellSaid, WellSaid
  <2>2. raw' \in Responses(resp_buf', StatusBeforeEod) /\ packet' = packet
    BY <1>5 DEF WireRecv
  <2>3. ReadRight(raw', resp_buf', StatusBeforeEod)
    BY <2>1, <2>2, ResponsesRead
  <2> QED
    BY <2>2, <2>3 DEF ReadRight, WireSizes, Fits
<1>6. CASE UNCHANGED wireVars
  BY <1>2, <1>6 DEF wireVars
<1> QED
  BY <1>2, <1>3, <1>4, <1>5, <1>6 DEF WireNext, WireOther

(* Every packet and every response fits its buffer, whatever credentials,   *)
(* answers and faults.                                                      *)
THEOREM WireTypeCorrect == WireSpec => []WireTypeOK
<1>1. ASSUME TypeOK, WireSizes PROVE WireTypeOK
  BY <1>1 DEF WireSizes, Fits, WireTypeOK
<1>2. WireReadInv => TypeOK /\ AnswersWellSaid
  BY DEF WireReadInv, WireCoreInv
<1>3. TypeOK /\ TypeOK' /\ AnswersWellSaid' /\ SentFits' /\ WireSizes /\ [WireNext]_wireVars
        => WireSizes'
  BY NextSizes
<1>4. TypeOK /\ WireSizes => WireTypeOK
  BY <1>1
<1> QED
  BY <1>2, <1>3, <1>4, InitSizes, WireRead, WireSent, PTL DEF WireSpec
=============================================================================
