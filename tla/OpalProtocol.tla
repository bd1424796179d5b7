---------------------------- MODULE OpalProtocol ----------------------------
(***************************************************************************)
(* What core/opal_core.h, core/opal_tokens.h and transport/opal_transport.h *)
(* fix once for the whole stack: the return codes, the drive's status       *)
(* codes, the buffer sizes and the length of every command the core builds. *)
(* There is no state here.                                                  *)
(***************************************************************************)
EXTENDS Integers

OPAL_OK            == 0
OPAL_ERR_TRANSPORT == -1
OPAL_ERR_NO_MEM    == -2
OPAL_ERR_PROTO     == -3
OPAL_ERR_AUTH      == -4
OPAL_ERR_LOCKED    == -5
OPAL_ERR_PARAM     == -6
OPAL_ERR_TIMEOUT   == -7

DocumentedCodes == -7 .. 0

(* `r = r || append_x(...)` turns every append error into the integer 1. *)
APPEND_FAILED == 1

ReturnCodes == DocumentedCodes \cup {APPEND_FAILED}

-----------------------------------------------------------------------------
OPAL_STATUS_SUCCESS              == 0
OPAL_STATUS_NOT_AUTHORIZED       == 1
OPAL_STATUS_INVALID_PARAM        == 5
OPAL_STATUS_AUTHORITY_LOCKED_OUT == 46

(* parse_status's translation of the drive's status byte. *)
CodeOfStatus(s) ==
  CASE s = OPAL_STATUS_SUCCESS       -> OPAL_OK
    [] s \in {OPAL_STATUS_NOT_AUTHORIZED, OPAL_STATUS_AUTHORITY_LOCKED_OUT}
                                     -> OPAL_ERR_AUTH
    [] s = OPAL_STATUS_INVALID_PARAM -> OPAL_ERR_PARAM
    [] OTHER                         -> OPAL_ERR_PROTO

-----------------------------------------------------------------------------
TotalHdrLen == 20 + 24 + 8    \* ComPacket, Packet and SubPacket headers
MaxCmdLen   == 512            \* sizeof(dev->cmd_buf)
MaxPinLen   == 32             \* OPAL_MAX_PIN_LEN

(* The atom append_bytes emits for n bytes, and the 8-byte UIDs. *)
BytesLen(n) == n + (IF n <= 15 THEN 1 ELSE IF n <= 255 THEN 2 ELSE 3)
UidLen      == BytesLen(8)

(* STARTNAME, a one-byte name, n bytes of value, ENDNAME. *)
NamedLen(n) == 1 + 1 + n + 1

CallHeaderLen == 1 + UidLen + UidLen + 1
EodLen        == 6

(* The two named parameters HostChallenge and HostSigningAuthority. *)
CredentialLen(n) == IF n = 0 THEN 0
                    ELSE NamedLen(BytesLen(n)) + NamedLen(UidLen)

(* Payload of StartSession with a credential of n bytes (0: none). *)
StartSessionLen(n) ==
  CallHeaderLen + 5 + UidLen + 1 + CredentialLen(n) + 1 + EodLen

(* A method call whose argument list holds n bytes. *)
MethodLen(n) == CallHeaderLen + n + 1 + EodLen

OPAL_DISCOVERY_COMID == 1    \* the fixed ComID of Level 0 discovery

(* buf_push refuses the byte that would not fit after the headers. *)
Overflows(payload) == TotalHdrLen + payload > MaxCmdLen
=============================================================================
