------------------------------ MODULE OpalTests ------------------------------
(***************************************************************************)
(* tests/test_opal_core.c: the calls each test group makes on the device    *)
(* new_dev() gives it, what it tells the mock to answer next, and what it   *)
(* asserts of the result.  Calls with a NULL device or a NULL argument      *)
(* return before they touch anything and are left out; so are the second    *)
(* context of test_discovery, which repeats the first one's discovery, and  *)
(* what the groups assert of the fields of a discovery.                     *)
(***************************************************************************)
EXTENDS OpalCore, Sequences

TEST_PIN     == "Admin1"
TEST_NEW_PIN == "NewPIN"
TEST_PSID    == "PSID"
long_pin     == "long"

ASSUME TestsAssumption ==
  /\ {TEST_PIN, TEST_NEW_PIN, TEST_PSID, long_pin} \subseteq Pins
  /\ PinLen[TEST_PIN] = 6 /\ PinLen[TEST_NEW_PIN] = 6
  /\ PinLen[TEST_PSID] = 32 /\ PinLen[long_pin] = 64

Tests == {"test_lifecycle", "test_discovery", "test_sessions", "test_locking_session",
          "test_lock_unlock", "test_set_password", "test_activate", "test_revert",
          "test_full_workflow"}

(* One call: what mock_transport_set_next was given before it ("keep": not  *)
(* called), and what is asserted of the result.                             *)
TestCall(next, call_, expect) == [next |-> next, call |-> call_, expect |-> expect]

Plain(op)       == [NoCall EXCEPT !.op = op]
WithPin(op, p)  == [NoCall EXCEPT !.op = op, !.pin = p]
AsUser(op, u, p) == [WithPin(op, p) EXCEPT !.user = u]
LockRange(r, v) == [NoCall EXCEPT !.op = "set_lock", !.range = r, !.val = v]

Discover      == TestCall("keep", Plain("discover"), "any")
DiscoverOk    == TestCall("keep", Plain("discover"), "ok")
EndSession    == TestCall("keep", Plain("end_session"), "any")
OpenAdmin(e)  == TestCall("ses_open", WithPin("start_admin", TEST_PIN), e)
OpenLocking(u) == TestCall("ses_open", AsUser("start_locking", u, TEST_PIN), "ok")
Succeeds(c)   == TestCall("success", c, "ok")
Rejected(c)   == TestCall("keep", c, "fails")
NewPin(u)     == AsUser("set_password", u, TEST_NEW_PIN)

test_lifecycle == <<>>
test_discovery == <<DiscoverOk>>

test_sessions ==
  <<Discover,
    TestCall("keep", WithPin("start_admin", TEST_PIN), "ok"),
    TestCall("keep", Plain("end_session"), "ok"),
    OpenAdmin("any"), Rejected(WithPin("start_admin", TEST_PIN)), EndSession,
    Rejected(WithPin("start_admin", long_pin))>>

test_locking_session ==
  <<Discover, OpenLocking(0), EndSession, OpenLocking(1), EndSession>>

test_lock_unlock ==
  <<Discover, OpenAdmin("any"),
    Succeeds(LockRange(0, TRUE)), Succeeds(LockRange(0, FALSE)),
    Succeeds(LockRange(1, TRUE)),
    EndSession, Rejected(LockRange(0, TRUE))>>

test_set_password ==
  <<Discover, OpenAdmin("any"), Succeeds(NewPin(0)), Succeeds(NewPin(1)),
    Rejected(AsUser("set_password", 0, NoPin)),
    EndSession, Rejected(NewPin(0))>>

test_activate == <<Discover, OpenAdmin("any"), Succeeds(Plain("activate"))>>

test_revert ==
  <<Discover, TestCall("ses_open", WithPin("revert", TEST_PSID), "ok"),
    Rejected(WithPin("revert", NoPin))>>

test_full_workflow ==
  <<DiscoverOk, OpenAdmin("ok"), Succeeds(Plain("activate")),
    Succeeds(Plain("end_session")), OpenLocking(0),
    Succeeds(LockRange(0, TRUE)), Succeeds(LockRange(0, FALSE)),
    Succeeds(NewPin(0)), Succeeds(Plain("end_session"))>>

Script(test) ==
  CASE test = "test_lifecycle"       -> test_lifecycle
    [] test = "test_discovery"       -> test_discovery
    [] test = "test_sessions"        -> test_sessions
    [] test = "test_locking_session" -> test_locking_session
    [] test = "test_lock_unlock"     -> test_lock_unlock
    [] test = "test_set_password"    -> test_set_password
    [] test = "test_activate"        -> test_activate
    [] test = "test_revert"          -> test_revert
    [] test = "test_full_workflow"   -> test_full_workflow

(* TEST_ASSERT_EQ(r, OPAL_OK, ...), TEST_ASSERT_NE(r, OPAL_OK, ...). *)
Holds(expect, r) == CASE expect = "ok"    -> r = OPAL_OK
                      [] expect = "fails" -> r # OPAL_OK
                      [] OTHER            -> TRUE
=============================================================================
