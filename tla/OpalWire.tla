------------------------------ MODULE OpalWire ------------------------------
(***************************************************************************)
(* OpalCore down to the wire: beside the command that cmd_buf says, the     *)
(* packet the builder really leaves in it, and beside the answer, the bytes *)
(* IF-RECV wrote to resp_buf.  OpalCore decides with commands and answers;  *)
(* here the packet builder and the parsers, which see nothing else, run     *)
(* over the packets and must come to the same.                              *)
(***************************************************************************)
EXTENDS OpalCore, OpalResponse

VARIABLES
  packet,    \* cmd_buf as buf_finalise left it
  raw        \* resp_buf and resp_len

wireVars == <<vars, packet, raw>>

-----------------------------------------------------------------------------
(* cpin_uid is what the stack held; bytes 5 and 7 are set for a UserN.      *)
CPinRow(user) == IF user = 0 THEN <<0, 0, 0, 11, 0, 1, 0, 1>>
                 ELSE <<0, 0, 0, 11, 0, 3, 0, user>>
StackBytes(row) == IF row = NoRow THEN Zeros(UID_LEN) ELSE CPinRow(row)
cpin_uid(user, stack) == IF user = 0 THEN stack
                         ELSE [stack EXCEPT ![6] = 3, ![8] = user]

(* The append_ calls of method m within call c. *)
Program(m, c, row) ==
  CASE m = "discovery"     -> Discovery
    [] m = "start_session" ->
         StartSession(IF c.op = "start_locking" THEN UID_LOCKINGSP ELSE UID_ADMINSP,
                      IF c.op = "revert" THEN UID_AUTH_PSID ELSE auth_uid(c.user),
                      LenOf(c.pin))
    [] m = "end_session"   -> EndOfSession
    [] m = "set_lock"      -> SetLock(c.range, IF c.val THEN 1 ELSE 0)
    [] m = "activate"      -> Activate
    [] m = "set_pin"       -> SetPin(cpin_uid(c.user, StackBytes(row)), LenOf(c.pin))
    [] m = "get"           -> GetLock(c.range)
    [] m = "revert"        -> Revert

NoPacket == buf_finalise(buf_reset, 0, 0)

(* The Locking feature says what the drive is at that moment. *)
LockingBits == 1 + (IF active THEN 2 ELSE 0)
                 + (IF \E r \in RangeIds : locked[r] THEN 4 ELSE 0)

(* The bytes that may carry an answer: as the stubs lay it out and as a     *)
(* drive does, resp_len exact or the whole buffer.  A drive with nothing to *)
(* say sends no bytes, a ComPacket header, or all three.                    *)
Layouts(a, before) ==
  CASE a.kind = "empty"  -> {<<>>, Zeros(20), Zeros(TotalHdrLen)}
    [] a.kind = "disc"   -> IF a.com = 0 THEN {NoOpalDiscovery(LockingBits)}
                            ELSE {RESP_DISC(a.com, LockingBits),
                                  FullDiscovery(a.com, LockingBits)}
    [] a.kind = "sync"   -> {RESP_SES(a.tsn, before),
                             FullSyncSession(a.tsn, before)}
    [] a.kind = "method" -> {RESP_STATUS(a.status, before),
                             FullStatus(a.status, before)}
    [] a.kind = "row"    -> {RowResult(IF a.locked THEN 1 ELSE 0, before)}

Responses(a, before) ==
  UNION {{Response(b, Len(b)), Response(b, MaxRespLen)} : b \in Layouts(a, before)}
NoResponse == Response(<<>>, 0)

WireInit == Init /\ packet = NoPacket /\ raw = NoResponse

-----------------------------------------------------------------------------
(* The packet that now says cmd_buf: opal_send_recv stamps the headers from *)
(* the device context.                                                      *)
PacketOf(c, cmd, tsn) ==
  buf_finalise(Built(Program(cmd.method, c, cmd.user)), com_id, tsn)

WireBuild(t) ==
  /\ Build(t)
  /\ packet' = PacketOf(call[t], cmd_buf', tper_session_id)
  /\ UNCHANGED raw

WireRecv(t) ==
  /\ Recv(t)
  /\ raw' \in Responses(resp_buf', StatusBeforeEod)
  /\ UNCHANGED packet

WirePsidSession(t) ==
  /\ FinishPsidSession(t)
  /\ packet' = IF pc'[t] = "send" THEN PacketOf(call[t], cmd_buf', tper_session_id')
               ELSE packet
  /\ UNCHANGED raw

(* The steps that touch neither buffer. *)
WireOther(t) ==
  /\ \/ CallApi(t) \/ CallDestroy(t) \/ Acquire(t) \/ Decline(t) \/ Send(t) \/ Free(t)
     \/ FinishDiscover(t) \/ FinishStart(t) \/ FinishEnd(t) \/ FinishMethod(t)
     \/ FinishQuery(t) \/ FinishRevert(t)
  /\ UNCHANGED <<packet, raw>>

WireNext ==
  \/ \E t \in Tasks : WireBuild(t) \/ WireRecv(t) \/ WirePsidSession(t) \/ WireOther(t)
  \/ Done /\ UNCHANGED <<packet, raw>>

WireSpec == WireInit /\ [][WireNext]_wireVars

-----------------------------------------------------------------------------
WireTypeOK ==
  /\ TypeOK
  /\ packet.len \in TotalHdrLen .. MaxCmdLen
  /\ packet.pkt_len \in SubPacketHdrLen .. MaxCmdLen
  /\ raw.len \in 0 .. MaxRespLen /\ Len(raw.bytes) <= MaxRespLen

(* The append_ calls of a command run out of cmd_buf for exactly the        *)
(* credentials too long for it, and never write past it: the 512th byte may *)
(* be used and the 513th may not, across the three atom headers.            *)
BuilderAgrees ==
  \A t \in Tasks : pc[t] = "build" /\ ~WrongState(call[t]) /\ ~NothingToEnd(call[t]) =>
    \A row \in PinRows(call[t]) :
      LET b == Built(Program(MethodOf(call[t].op), call[t], row))
      IN /\ b.r # OPAL_OK <=> TooLong(call[t])
         /\ b.cmd_pos <= MaxCmdLen

(* Read back from its bytes, the packet IF-SEND gets is the command the     *)
(* core meant: method, session, ComID, Security Provider, authority, range. *)
SpNamed(sp) == IF sp = "locking" THEN UID_LOCKINGSP ELSE UID_ADMINSP
AuthNamed(c) == IF c.op = "revert" THEN UID_AUTH_PSID ELSE auth_uid(c.user)
RowCPin(uid) == LET rows == {u \in UserIds : CPinRow(u) = uid}
                IN IF rows = {} THEN NoRow ELSE CHOOSE u \in rows : TRUE

PacketSaysCommand ==
  \A t \in Tasks : pc[t] = "send" =>
    /\ MethodRead(packet) = cmd_buf.method
    /\ packet.tsn = cmd_buf.tsn
    /\ cmd_buf.method # "discovery" => packet.com = cmd_buf.com
    /\ cmd_buf.method \in {"set_lock", "get"} =>
         /\ TableOf(InvokingUid(packet)) = LockingTable
         /\ RowNamed(InvokingUid(packet)) = cmd_buf.range
    /\ cmd_buf.method = "set_pin" => RowCPin(InvokingUid(packet)) = cmd_buf.user
    /\ cmd_buf.method = "start_session" =>
         /\ UidsOf(packet, SpTable) = {SpNamed(cmd_buf.sp)}
         /\ UidsOf(packet, AuthorityTable) = IF cmd_buf.pin = NoPin THEN {}
                                             ELSE {AuthNamed(call[t])}

(* Every list and every named value the builder opens it closes, in order,  *)
(* and the three nested lengths enclose just the bytes IF-SEND is given,    *)
(* but for the pad, which the ComPacket counts and IF-SEND never gets.      *)
PacketWellFormed ==
  \A t \in Tasks : pc[t] = "send" =>
    /\ Balanced(packet.toks)
    /\ packet.sp_len = packet.len - TotalHdrLen
    /\ packet.pkt_len = packet.len - ComPacketHdrLen - PacketHdrLen
    /\ packet.cp_len - (packet.len - ComPacketHdrLen) \in 0 .. 3
    /\ packet.cp_len % 4 = 0

(* Run over the bytes, the parsers come to what the core's decisions take   *)
(* the answer to be, in every layout and for exact and for padded lengths;  *)
(* with the status where parse_status's comment says it is, to the status.  *)
ParsersAgree ==
  \A t \in Tasks : pc[t] = "finish" /\ ret[t] = OPAL_OK =>
    /\ call[t].op \in MethodOps \/ cmd_buf.method = "revert" =>
         /\ parse_status(raw) = ParseStatus(resp_buf)
         /\ resp_buf.kind = "method" =>
              \A r \in Responses(resp_buf, TRUE) :
                parse_status(r) = CodeOfStatus(resp_buf.status)
    /\ cmd_buf.method = "start_session" =>
         parse_start_session_resp(raw)
           = IF SessionOpens(t) THEN resp_buf.tsn ELSE NoTsn
    /\ call[t].op = "query" =>
         \A col \in {COL_READ_LOCKED, COL_WRITE_LOCKED} :
           column_value(raw, col) = IF resp_buf.locked THEN 1 ELSE 0

(* What opal_discover reports of locking is what the drive is, wherever the *)
(* drive lists the features and whatever stands between them.               *)
DiscoveryReportsDrive ==
  \A t \in Tasks :
    /\ pc[t] = "finish" /\ ret[t] = OPAL_OK
    /\ call[t].op = "discover" /\ resp_buf.kind = "disc"
    => parse_discovery(raw) = [com     |-> resp_buf.com,
                               enabled |-> active,
                               locked  |-> \E r \in RangeIds : locked[r]]
=============================================================================
