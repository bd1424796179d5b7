----------------------------- MODULE OpalPacket -----------------------------
(***************************************************************************)
(* The packet builder of core/opal_core.c: what each append_ call pushes    *)
(* into cmd_buf, the sequence of append_ calls of every command, and the    *)
(* headers buf_finalise stamps.  A token is one append_ call: its value and *)
(* the number of bytes it takes.  The bytes of a PIN are left out, their    *)
(* number is not.                                                           *)
(***************************************************************************)
EXTENDS OpalProtocol, SequencesExt

CALL      == 248
ENDOFDATA == 249
EOSESSION == 250
STARTLIST == 240
ENDLIST   == 241
STARTNAME == 242
ENDNAME   == 243

COL_READ_LOCKED  == 7
COL_WRITE_LOCKED == 8

HostSessionId == 65
UID_LEN == 8
ComPacketHdrLen == 20
PacketHdrLen    == 24
SubPacketHdrLen == 8

UID_SMUID        == <<0, 0, 0, 0, 0, 0, 0, 255>>
UID_ADMINSP      == <<0, 0, 2, 5, 0, 0, 0, 1>>
UID_LOCKINGSP    == <<0, 0, 2, 5, 0, 0, 0, 2>>
UID_GLOBALRANGE  == <<0, 0, 8, 2, 0, 0, 0, 1>>
UID_AUTH_ADMIN1  == <<0, 0, 0, 9, 0, 1, 0, 1>>
UID_AUTH_USER1   == <<0, 0, 0, 9, 0, 3, 0, 1>>
UID_AUTH_PSID    == <<0, 0, 0, 9, 0, 1, 255, 1>>
UID_STARTSESSION == <<0, 0, 0, 0, 0, 0, 255, 2>>
UID_REVERT       == <<0, 0, 0, 6, 0, 0, 2, 2>>
UID_ACTIVATE     == <<0, 0, 0, 6, 0, 0, 2, 3>>
UID_GET          == <<0, 0, 0, 6, 0, 0, 0, 22>>
UID_SET          == <<0, 0, 0, 6, 0, 0, 0, 23>>

-----------------------------------------------------------------------------
(* The append_ calls.  append_bytes puts the length in front of the bytes:  *)
(* in the tag up to 15, in one byte up to 255, in two beyond.               *)
Token(kind, arg, len) == [kind |-> kind, arg |-> arg, len |-> len]

append_token(t) == Token("token", <<t>>, 1)
append_u8(v)    == Token("u8", <<v>>, IF v <= 63 THEN 1 ELSE 2)
append_u32(v)   == Token("u32", <<v>>, 5)

AtomHeader(n) == IF n <= 15 THEN <<160 + n>>
                 ELSE IF n <= 255 THEN <<209, n>>
                 ELSE <<210, n \div 256, n % 256>>

append_uid(u) == Token("uid", u, Len(AtomHeader(UID_LEN)) + UID_LEN)
append_pin(n) == Token("pin", <<>>, Len(AtomHeader(n)) + n)

append_eod ==
  <<append_token(ENDOFDATA), append_token(STARTLIST), append_u8(0), append_u8(0),
    append_u8(0), append_token(ENDLIST)>>

append_call_header(invoking_uid, method) ==
  <<append_token(CALL), append_uid(invoking_uid), append_uid(method),
    append_token(STARTLIST)>>

Named(name, toks) ==
  <<append_token(STARTNAME), append_u8(name)>> \o toks \o <<append_token(ENDNAME)>>
Listed(toks) == <<append_token(STARTLIST)>> \o toks \o <<append_token(ENDLIST)>>
MethodCall(invoking_uid, method, args) ==
  append_call_header(invoking_uid, method) \o args
    \o <<append_token(ENDLIST)>> \o append_eod

-----------------------------------------------------------------------------
(* MUTANT: byte 5 is left as it is in the GlobalRange UID. *)
build_locking_range_uid_NoTable(range_id) ==
  IF range_id = 0 THEN UID_GLOBALRANGE ELSE [UID_GLOBALRANGE EXCEPT ![8] = range_id]

(* TLA+ counts the bytes of a UID from 1, C from 0. *)
build_locking_range_uid(range_id) ==
  IF range_id = 0 THEN UID_GLOBALRANGE
  ELSE [UID_GLOBALRANGE EXCEPT ![6] = 3, ![8] = range_id]

auth_uid(user_id) == IF user_id = 0 THEN UID_AUTH_ADMIN1
                     ELSE [UID_AUTH_USER1 EXCEPT ![8] = user_id]

(* The append_ calls of each command; n is the length of the credential.    *)
HostCredential(auth, n) ==
  IF n = 0 THEN <<>>
  ELSE Named(0, <<append_pin(n)>>) \o Named(3, <<append_uid(auth)>>)

StartSession(sp, auth, n) ==
  MethodCall(UID_SMUID, UID_STARTSESSION,
             <<append_u32(HostSessionId), append_uid(sp), append_u8(1)>>
               \o HostCredential(auth, n))

SetRow(row_uid, columns) ==
  MethodCall(row_uid, UID_SET, Named(1, Listed(columns)))

(* MUTANT: the ENDNAME of the Values group is missing. *)
SetLock_Unclosed(range_id, v) ==
  MethodCall(build_locking_range_uid(range_id), UID_SET,
             <<append_token(STARTNAME), append_u8(1)>>
               \o Listed(Named(COL_READ_LOCKED, <<append_u8(v)>>)
                           \o Named(COL_WRITE_LOCKED, <<append_u8(v)>>)))

SetLock(range_id, v) ==
  SetRow(build_locking_range_uid(range_id),
         Named(COL_READ_LOCKED, <<append_u8(v)>>)
           \o Named(COL_WRITE_LOCKED, <<append_u8(v)>>))

SetPin(cpin_uid, n) == SetRow(cpin_uid, Named(3, <<append_pin(n)>>))

GetLock(range_id) ==
  MethodCall(build_locking_range_uid(range_id), UID_GET,
             Listed(Named(3, <<append_u8(COL_READ_LOCKED)>>)
                      \o Named(4, <<append_u8(COL_WRITE_LOCKED)>>)))

Activate     == MethodCall(UID_LOCKINGSP, UID_ACTIVATE, <<>>)
Revert       == MethodCall(UID_ADMINSP, UID_REVERT, <<>>)
EndOfSession == <<append_token(EOSESSION)>>
Discovery    == <<>>

-----------------------------------------------------------------------------
(* cmd_buf: the tokens in it, the cursor and r. *)
buf_reset == [toks |-> <<>>, cmd_pos |-> TotalHdrLen, r |-> OPAL_OK]

(* MUTANT: the test for a full buffer is off by one. *)
append_OffByOne(buf, tok) ==
  IF buf.r # OPAL_OK THEN buf
  ELSE IF buf.cmd_pos + tok.len <= MaxCmdLen + 1
  THEN [buf EXCEPT !.toks = Append(@, tok), !.cmd_pos = @ + tok.len]
  ELSE [buf EXCEPT !.cmd_pos = MaxCmdLen, !.r = APPEND_FAILED]

(* `r = r || append_x(dev, ...)`: nothing more is pushed after the first    *)
(* failure; a token that does not fit fills the buffer up before it fails.  *)
append(buf, tok) ==
  IF buf.r # OPAL_OK THEN buf
  ELSE IF buf.cmd_pos + tok.len <= MaxCmdLen
  THEN [buf EXCEPT !.toks = Append(@, tok), !.cmd_pos = @ + tok.len]
  ELSE [buf EXCEPT !.cmd_pos = MaxCmdLen, !.r = APPEND_FAILED]

Built(toks) == FoldLeft(append, buf_reset, toks)

(* MUTANT: the Packet length leaves out the SubPacket header. *)
buf_finalise_NoSubPacket(buf, com, tsn) ==
  LET payload == buf.cmd_pos - TotalHdrLen
      pad     == (4 - (payload % 4)) % 4
  IN [toks |-> buf.toks, com |-> com, tsn |-> tsn, len |-> buf.cmd_pos,
      sp_len |-> payload, pkt_len |-> payload, cp_len |-> PacketHdrLen + payload + pad]

(* The headers: ComID, session number, the three nested lengths; len is     *)
(* what IF-SEND is told.                                                    *)
buf_finalise(buf, com, tsn) ==
  LET payload == buf.cmd_pos - TotalHdrLen
      pad     == (4 - (payload % 4)) % 4
      pkt_len == SubPacketHdrLen + payload
  IN [toks |-> buf.toks, com |-> com, tsn |-> tsn, len |-> buf.cmd_pos,
      sp_len |-> payload, pkt_len |-> pkt_len, cp_len |-> PacketHdrLen + pkt_len + pad]

-----------------------------------------------------------------------------
(* What a reader of the packet finds in it. *)
Opening == {STARTLIST, STARTNAME}
Closing(open) == IF open = STARTLIST THEN ENDLIST ELSE ENDNAME

(* The brackets still open after a token; a closing one that does not match *)
(* stays there.                                                             *)
Bracket(open, tok) ==
  IF tok.kind # "token" \/ tok.arg[1] \notin {STARTLIST, ENDLIST, STARTNAME, ENDNAME}
  THEN open
  ELSE IF open # <<>> /\ Last(open) \in Opening /\ tok.arg[1] = Closing(Last(open))
  THEN Front(open)
  ELSE Append(open, tok.arg[1])

Balanced(toks) == FoldLeft(Bracket, <<>>, toks) = <<>>

InvokingUid(p) == p.toks[2].arg
MethodUid(p)   == p.toks[3].arg

(* The table a row UID belongs to, and which row it names: Admin1 and the   *)
(* GlobalRange are row 0, UserN and LockingRangeN row N.                    *)
TableOf(uid)  == <<uid[3], uid[4]>>
RowNamed(uid) == IF uid[6] = 3 THEN uid[8] ELSE 0
LockingTable  == <<8, 2>>
AuthorityTable == <<0, 9>>
SpTable        == <<2, 5>>

UidsOf(p, table) == {p.toks[i].arg : i \in {j \in DOMAIN p.toks :
                       p.toks[j].kind = "uid" /\ TableOf(p.toks[j].arg) = table}}

MethodRead(p) ==
  IF p.toks = <<>> THEN "discovery"
  ELSE IF p.toks = EndOfSession THEN "end_session"
  ELSE CASE MethodUid(p) = UID_STARTSESSION -> "start_session"
         [] MethodUid(p) = UID_ACTIVATE     -> "activate"
         [] MethodUid(p) = UID_REVERT       -> "revert"
         [] MethodUid(p) = UID_GET          -> "get"
         [] OTHER -> IF TableOf(InvokingUid(p)) = LockingTable
                     THEN "set_lock" ELSE "set_pin"
=============================================================================
