------------------------------ MODULE OpalStubs ------------------------------
(***************************************************************************)
(* The two transports of the repository that answer without a drive:        *)
(* transport/opal_transport_hw.c ("simulation mode") and                    *)
(* transport/opal_transport_mock.c.  Each keeps one variable, next_op, that *)
(* picks the canned packet the next IF-RECV returns; they differ in what    *)
(* IF-SEND does to it.  Only the tests set next_op from outside             *)
(* (mock_transport_set_next); no application does.                          *)
(***************************************************************************)
EXTENDS OpalDrive

VARIABLE next_op

NextOps == {"discovery", "ses_open", "success"}

StubComId == 1      \* base_com_id in both discovery packets
StubTsn   == 222    \* the session number in both SyncSession packets; any
                    \* number the drive never hands out (0xDEADBEEF)

StubTypeOK == next_op \in NextOps
StubInit   == next_op = "discovery"

(* The shortest packet that carries the method. *)
PacketLen(m) == TotalHdrLen + (CASE m = "discovery"   -> 0
                                 [] m = "end_session" -> 1
                                 [] OTHER             -> MethodLen(0))

(* MUTANT: the ComID alone tells discovery, as in the hardware stub. *)
MockSend_AnyLength(c) ==
  next_op' = IF c.com = OPAL_DISCOVERY_COMID THEN "discovery" ELSE next_op

MockSend(c) ==
  next_op' = IF c.com = OPAL_DISCOVERY_COMID /\ PacketLen(c.method) <= 56
             THEN "discovery" ELSE next_op

HwSend(c) ==
  next_op' = IF c.com = OPAL_DISCOVERY_COMID THEN "discovery"
             ELSE IF next_op = "discovery" THEN "ses_open" ELSE next_op

StubAnswer == CASE next_op = "discovery" -> DiscoveryAnswer(StubComId)
                [] next_op = "ses_open"  -> SyncAnswer(StubTsn)
                [] OTHER                 -> StatusAnswer(OPAL_STATUS_SUCCESS)

StubRecv == next_op' = IF next_op = "discovery" THEN "ses_open" ELSE "success"
=============================================================================
