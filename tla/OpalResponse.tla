---------------------------- MODULE OpalResponse ----------------------------
(***************************************************************************)
(* The response parsers of core/opal_core.c over the bytes of resp_buf, and *)
(* the packets that answer: those both stubs hold, and the same answers as  *)
(* a drive may lay them out.  A response is the bytes IF-RECV wrote, from   *)
(* byte 0, and resp_len; resp_buf was zeroed before, so the rest reads 0.   *)
(***************************************************************************)
EXTENDS OpalPacket

MaxRespLen == 512

FEAT_TPER    == 1
FEAT_LOCKING == 2
FEAT_GEOMETRY == 3
FEAT_OPALV1  == 512
FEAT_OPALV2  == 515

U32_ATOM == 132    \* the tag of a four-byte number, and of a UID
UID_ATOM == 168

Response(bytes, len) == [bytes |-> bytes, len |-> len]
Byte(resp, i) == IF i < Len(resp.bytes) THEN resp.bytes[i + 1] ELSE 0
U16(resp, i)  == 256 * Byte(resp, i) + Byte(resp, i + 1)
U32(resp, i)  == 65536 * U16(resp, i) + U16(resp, i + 2)
Zeros(n) == [i \in 1 .. n |-> 0]

-----------------------------------------------------------------------------
(* MUTANT: the status is read right behind ENDOFDATA's STARTLIST.           *)
parse_status_After(resp) ==
  LET len  == IF resp.len = 0 THEN MaxRespLen ELSE resp.len
      eods == {i \in 5 .. len - 1 : Byte(resp, i) = ENDOFDATA}
  IN IF eods = {} THEN OPAL_ERR_PROTO ELSE CodeOfStatus(Byte(resp, Max(eods) + 2))

(* The byte four before the last ENDOFDATA. *)
parse_status(resp) ==
  LET len  == IF resp.len = 0 THEN MaxRespLen ELSE resp.len
      eods == {i \in 5 .. len - 1 : Byte(resp, i) = ENDOFDATA}
  IN IF eods = {} THEN OPAL_ERR_PROTO ELSE CodeOfStatus(Byte(resp, Max(eods) - 4))

(* The payload starts behind the headers; a response that is all headers is *)
(* scanned for a fixed length.                                              *)
PayloadLen(resp, otherwise) ==
  IF resp.len > TotalHdrLen THEN resp.len - TotalHdrLen ELSE otherwise
Payload(resp, i) == Byte(resp, TotalHdrLen + i)

NoTsn == -1

(* The first list that begins with two 4-byte atoms: the second is the TSN. *)
parse_start_session_resp(resp) ==
  LET len   == PayloadLen(resp, 32)
      found == {i \in 0 .. len - 13 : /\ Payload(resp, i) = STARTLIST
                                      /\ Payload(resp, i + 1) = U32_ATOM
                                      /\ Payload(resp, i + 6) = U32_ATOM}
  IN IF found = {} THEN NoTsn ELSE U32(resp, TotalHdrLen + Min(found) + 7)

(* opal_query_lock_state: the last named value of column col. *)
column_value(resp, col) ==
  LET len  == PayloadLen(resp, 64)
      hits == {i \in 0 .. len - 5 : /\ Payload(resp, i) = STARTNAME
                                    /\ Payload(resp, i + 1) = col}
  IN IF hits = {} THEN 0 ELSE Payload(resp, Max(hits) + 2)

(* Total length of the parameter data. *)
DiscoveryTotal(resp) == U32(resp, 0)

(* MUTANT: the walk steps over the data of a feature and not its header.    *)
FeatureOffsets_NoHeader(resp) ==
  LET walk[offset \in Nat] ==
        IF offset + 4 > DiscoveryTotal(resp) + 4 THEN {}
        ELSE {offset} \cup walk[offset + (IF Byte(resp, offset + 3) = 0 THEN 4
                                          ELSE Byte(resp, offset + 3))]
  IN walk[8]

(* Where parse_discovery's walk finds a feature descriptor. *)
FeatureOffsets(resp) ==
  LET walk[offset \in Nat] ==
        IF offset + 4 > DiscoveryTotal(resp) + 4 THEN {}
        ELSE {offset} \cup walk[offset + 4 + Byte(resp, offset + 3)]
  IN walk[8]

FeaturesFound(resp, feats) ==
  {o \in FeatureOffsets(resp) : U16(resp, o) \in feats}

(* base_com_id is that of the last OPAL feature; 0 when there is none, which*)
(* is OPAL_ERR_PROTO.                                                       *)
parse_discovery(resp) ==
  LET opal    == FeaturesFound(resp, {FEAT_OPALV1, FEAT_OPALV2})
      locking == FeaturesFound(resp, {FEAT_LOCKING})
  IN [com     |-> IF opal = {} THEN 0 ELSE U16(resp, Max(opal) + 4),
      enabled |-> locking # {} /\ (Byte(resp, Max(locking) + 4) \div 2) % 2 = 1,
      locked  |-> locking # {} /\ (Byte(resp, Max(locking) + 4) \div 4) % 2 = 1]

-----------------------------------------------------------------------------
(* The packets.  Of the headers of a response only their length matters,    *)
(* and the bytes parse_status may reach into: the length of the SubPacket,  *)
(* n bytes, which the stubs leave 0.                                        *)
U16Bytes(n) == <<n \div 256, n % 256>>
U32Bytes(n) == <<0, 0>> \o U16Bytes(n)
Headers(n) == Zeros(TotalHdrLen - 1) \o <<n>>

(* The status list after ENDOFDATA, where append_eod and the stubs put it,  *)
(* or before, where the comment above parse_status puts it.                 *)
StatusTrailer(s, before) ==
  IF before THEN <<STARTLIST, s, 0, 0, ENDLIST, ENDOFDATA>>
  ELSE <<ENDOFDATA, STARTLIST, s, 0, 0, ENDLIST>>

(* RESP_OK and RESP_AUTHFAIL, zeros behind; a drive's, with an empty result. *)
RESP_STATUS(s, before) == Headers(0) \o StatusTrailer(s, before)
FullStatus(s, before) ==
  Headers(8) \o <<STARTLIST, ENDLIST>> \o StatusTrailer(s, before)

SessionNumbers(tsn) ==
  <<STARTLIST, U32_ATOM>> \o U32Bytes(HostSessionId) \o <<U32_ATOM>> \o U32Bytes(tsn)
    \o <<ENDLIST>>

(* RESP_SES: one UID where a drive names both SMUID and SyncSession.        *)
RESP_SES(tsn, before) ==
  Headers(0) \o <<CALL, UID_ATOM>> \o UID_STARTSESSION
    \o SessionNumbers(tsn) \o StatusTrailer(0, before)

FullSyncSession(tsn, before) ==
  Headers(37) \o <<CALL, UID_ATOM>> \o UID_SMUID \o <<UID_ATOM>>
    \o [UID_STARTSESSION EXCEPT ![8] = 3] \o SessionNumbers(tsn)
    \o StatusTrailer(0, before)

(* A feature descriptor: code, version, length, and n bytes of data that    *)
(* begin with first.                                                        *)
Descriptor(code, first, n, fill) ==
  U16Bytes(code) \o <<16, n>> \o first \o [i \in 1 .. n - Len(first) |-> fill]

DiscoveryOf(hdr, features) ==
  U32Bytes(hdr - 4 + Len(features)) \o Zeros(hdr - 4) \o features

(* RESP_DISC: a header of 8 bytes, the Locking and the OPAL v2 feature, and *)
(* 36 zero bytes that the walk steps through.                               *)
RESP_DISC(com, bits) ==
  DiscoveryOf(8, Descriptor(FEAT_LOCKING, <<bits>>, 12, 0)
                   \o Descriptor(FEAT_OPALV2, U16Bytes(com) \o <<0, 1>>, 12, 0)
                   \o Zeros(36))

(* A drive's: a header of 48 bytes, zero but for the length, other features *)
(* before and between, one without data, and OPAL v1 as well as v2.         *)
FullDiscovery(com, bits) ==
  DiscoveryOf(48, Descriptor(FEAT_TPER, <<17>>, 12, 255)
                    \o Descriptor(FEAT_LOCKING, <<bits>>, 12, 255)
                    \o Descriptor(FEAT_GEOMETRY, <<1>>, 28, 255)
                    \o Descriptor(FEAT_OPALV1, U16Bytes(com), 16, 255)
                    \o Descriptor(65535, <<>>, 0, 255)
                    \o Descriptor(FEAT_OPALV2, U16Bytes(com), 16, 255))
NoOpalDiscovery(bits) ==
  DiscoveryOf(48, Descriptor(FEAT_TPER, <<17>>, 12, 255)
                    \o Descriptor(FEAT_LOCKING, <<bits>>, 12, 255))

(* A Get result: the two columns of the row. *)
RowResult(l, before) ==
  LET column(col) == <<STARTNAME, col, l, ENDNAME>>
  IN Headers(18) \o <<STARTLIST, STARTLIST>> \o column(COL_READ_LOCKED)
       \o column(COL_WRITE_LOCKED) \o <<ENDLIST, ENDLIST>> \o StatusTrailer(0, before)
=============================================================================
