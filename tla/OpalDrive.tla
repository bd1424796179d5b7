------------------------------ MODULE OpalDrive ------------------------------
(***************************************************************************)
(* The self-encrypting drive behind the transport callbacks.  No drive is   *)
(* part of the repository: this module is the environment of the core,      *)
(* modelled from the commands core/opal_core.c sends and from the answers   *)
(* its parsers expect.  The drive executes a command when IF-SEND delivers  *)
(* it and keeps the answer until IF-RECV fetches it or the next command     *)
(* replaces it.  It may refuse any command; it accepts a method only inside *)
(* a session with the right Security Provider.                              *)
(***************************************************************************)
EXTENDS OpalProtocol, FiniteSets

CONSTANTS
  UserIds,     \* user_id arguments; 0 is Admin1
  RangeIds,    \* range_id arguments; 0 is the GlobalRange
  Pins,        \* PINs and PSIDs a caller may pass
  NoPin,       \* a NULL pin
  ComIds,      \* base ComIDs the drive may report
  Refusals,    \* statuses other than SUCCESS the drive may answer
  InitialPin   \* the PIN of every authority on a factory drive

ASSUME DriveAssumption ==
  /\ 0 \in UserIds /\ UserIds \subseteq Nat
  /\ 0 \in RangeIds /\ RangeIds \subseteq Nat
  /\ InitialPin \in Pins /\ NoPin \notin Pins
  /\ ComIds \subseteq Nat \ {0}
  /\ Refusals \subseteq Nat \ {OPAL_STATUS_SUCCESS}

VARIABLES
  sessions,    \* the sessions the drive holds open
  next_tsn,    \* the session number it hands out next
  active,      \* whether the LockingSP has been activated
  locked,      \* the lock bit of each range
  pin,         \* the C_PIN rows of the LockingSP
  answer       \* the answer IF-RECV would fetch

driveVars == <<sessions, next_tsn, active, locked, pin, answer>>

Sps == {"admin", "locking"}
NoRow == -1    \* a UID that names no C_PIN row
Methods == {"none", "discovery", "start_session", "end_session", "set_lock",
            "activate", "set_pin", "revert", "get"}
Kinds == {"empty", "disc", "sync", "method", "row"}

(* What a packet in cmd_buf says, addressing included. *)
Commands == [method : Methods, tsn : Nat, com : Nat, sp : Sps,
             user : UserIds \cup {NoRow}, range : RangeIds, val : BOOLEAN,
             pin : Pins \cup {NoPin}]

(* What a packet in resp_buf says: base ComID (0: no OPAL feature), session *)
(* number, method status, lock bit of the row.                              *)
Answers == [kind : Kinds, com : Nat, tsn : Nat, status : Nat, locked : BOOLEAN]

Answer(k, com, tsn, status, l) ==
  [kind |-> k, com |-> com, tsn |-> tsn, status |-> status, locked |-> l]
EmptyAnswer        == Answer("empty", 0, 0, OPAL_STATUS_SUCCESS, FALSE)
DiscoveryAnswer(c) == Answer("disc", c, 0, OPAL_STATUS_SUCCESS, FALSE)
SyncAnswer(n)      == Answer("sync", 0, n, OPAL_STATUS_SUCCESS, FALSE)
StatusAnswer(s)    == Answer("method", 0, 0, s, FALSE)
RowAnswer(l)       == Answer("row", 0, 0, OPAL_STATUS_SUCCESS, l)

DriveTypeOK ==
  /\ sessions \in SUBSET [tsn : Nat \ {0}, sp : Sps]
  /\ next_tsn \in Nat \ {0}
  /\ active \in BOOLEAN
  /\ locked \in [RangeIds -> BOOLEAN]
  /\ pin \in [UserIds -> Pins]
  /\ answer \in Answers

(* A factory drive, or a provisioned one that powered up locked. *)
DriveInit ==
  /\ sessions = {} /\ next_tsn = 1
  /\ active \in BOOLEAN
  /\ locked = [r \in RangeIds |-> active]
  /\ pin = [u \in UserIds |-> InitialPin]
  /\ answer = EmptyAnswer

-----------------------------------------------------------------------------
LiveTsns == {s.tsn : s \in sessions}
InSession(c, sp) == [tsn |-> c.tsn, sp |-> sp] \in sessions

(* Level 0 discovery: the drive names its base ComID, or no OPAL feature. *)
DriveDiscovers(c) ==
  /\ c.method = "discovery"
  /\ \E com \in ComIds \cup {0} : answer' = DiscoveryAnswer(com)
  /\ UNCHANGED <<sessions, next_tsn, active, locked, pin>>

(* AdminSP credentials (SID, PSID) never change and are not told apart; the *)
(* LockingSP grants a session only once active and for the right PIN.       *)
DriveGrants(c) ==
  /\ c.method = "start_session"
  /\ c.sp = "locking" => active /\ (c.pin = NoPin \/ pin[c.user] = c.pin)
  /\ sessions' = sessions \cup {[tsn |-> next_tsn, sp |-> c.sp]}
  /\ next_tsn' = next_tsn + 1
  /\ answer' = SyncAnswer(next_tsn)
  /\ UNCHANGED <<active, locked, pin>>

DriveEndsSession(c) ==
  /\ c.method = "end_session"
  /\ sessions' = {s \in sessions : s.tsn # c.tsn}
  /\ answer' = EmptyAnswer
  /\ UNCHANGED <<next_tsn, active, locked, pin>>

DriveSetsLock(c) ==
  /\ c.method = "set_lock" /\ InSession(c, "locking")
  /\ locked' = [locked EXCEPT ![c.range] = c.val]
  /\ answer' = StatusAnswer(OPAL_STATUS_SUCCESS)
  /\ UNCHANGED <<sessions, next_tsn, active, pin>>

DriveActivates(c) ==
  /\ c.method = "activate" /\ InSession(c, "admin")
  /\ active' = TRUE
  /\ answer' = StatusAnswer(OPAL_STATUS_SUCCESS)
  /\ UNCHANGED <<sessions, next_tsn, locked, pin>>

DriveSetsPin(c) ==
  /\ c.method = "set_pin" /\ InSession(c, "locking")
  /\ c.user # NoRow /\ c.pin # NoPin
  /\ pin' = [pin EXCEPT ![c.user] = c.pin]
  /\ answer' = StatusAnswer(OPAL_STATUS_SUCCESS)
  /\ UNCHANGED <<sessions, next_tsn, active, locked>>

(* Revert: factory state, and every session is gone. *)
DriveReverts(c) ==
  /\ c.method = "revert" /\ InSession(c, "admin")
  /\ sessions' = {} /\ active' = FALSE
  /\ locked' = [r \in RangeIds |-> FALSE]
  /\ pin' = [u \in UserIds |-> InitialPin]
  /\ answer' = StatusAnswer(OPAL_STATUS_SUCCESS)
  /\ UNCHANGED next_tsn

DriveReadsRow(c) ==
  /\ c.method = "get" /\ InSession(c, "locking")
  /\ answer' = RowAnswer(locked[c.range])
  /\ UNCHANGED <<sessions, next_tsn, active, locked, pin>>

DriveRefuses(c) ==
  /\ c.method \notin {"discovery", "end_session"}
  /\ \E s \in Refusals : answer' = StatusAnswer(s)
  /\ UNCHANGED <<sessions, next_tsn, active, locked, pin>>

DriveExecutes(c) ==
  \/ DriveDiscovers(c) \/ DriveGrants(c)    \/ DriveEndsSession(c)
  \/ DriveSetsLock(c)  \/ DriveActivates(c) \/ DriveSetsPin(c)
  \/ DriveReverts(c)   \/ DriveReadsRow(c)  \/ DriveRefuses(c)
=============================================================================
