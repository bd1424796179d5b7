# OPAL SED management: TLA+ models, model checking and proofs

The program is a port of the Linux kernel's TCG OPAL code to FreeRTOS: a core
(`core/opal_core.c`) that builds OPAL packets, exchanges them with a
self-encrypting drive through two transport callbacks and keeps one session; an
RTOS abstraction layer (RAL); two stub transports; and two small applications.
This directory models it, checks the models with TLC on small instances and proves
their safety properties with TLAPS for all instances.

## 1. Inventory

| Component | State it keeps | Operations | Talks to |
|---|---|---|---|
| Core, sessions (`core/opal_core.c`) | `struct opal_dev`: mutex, `discovery`/`discovered`, `session_open`, `tper_session_id`, `com_id`, `cmd_buf`, `resp_buf` | discover, start admin/locking session, end session, lock/unlock range, activate, set password, revert, query, destroy | transport callbacks, RAL |
| Core, packet builder | write cursor in `cmd_buf` | `buf_reset`, `append_*`, `buf_finalise` | called by every operation |
| Core, response parsers | none of its own; writes `discovery`, `com_id`, session fields | `parse_status`, `parse_discovery`, `parse_start_session_resp`, the scan in query | called after IF-RECV |
| Core, context lifecycle | the allocation itself | `opal_dev_init`, `opal_dev_destroy` | RAL heap and mutex |
| Hardware transport stub | `next_op` | send, recv, init | called by the core under the mutex |
| Mock transport | `next_op` | send, recv, init, set_next | as above; `set_next` by the tests |
| RAL FreeRTOS / POSIX | mutex, heap, tick count | create/lock/unlock/destroy, alloc/free, sleep, uptime, log | FreeRTOS / pthreads |
| Applications (`app/`, `ral/opal_app_freertos.c`) | one task's position | `main`, `opal_main_task`, `opal_task` | the core's API, FreeRTOS |
| Unit tests (`tests/test_opal_core.c`) | none | nine test groups | the core's API, `mock_transport_set_next` |
| The drive | sessions, LockingSP life cycle, lock bits, PINs, the pending answer | executes commands | outside the repository |

**What is hard here.** Any number of tasks may call the API on one context; one
mutex, released by hand in 26 places, protects the shared
command and response buffers across a 10 ms sleep. Two fields are read outside
the mutex (`discovered`, and `session_open` in destroy). IF-SEND may fail before
or after the drive executed the command; IF-RECV runs once and may come too
early; what it missed may come with the next command's. The drive may lose power
under an open session. Revert is two exchanges and may stop between them. Host and drive each
keep a view of the session and only packets keep them together. Return codes
pass through `r = r || ...`.

**What makes each component correct.**

* Sessions: mutual exclusion over the buffers on every path; a response is
  parsed by the call whose command it answers; between calls the session the host
  believes open exists on the drive; methods go out only in such a session and
  with a ComID the drive reported; a failed start changes nothing; OPAL_OK means
  the drive did what this call asked; a session the drive holds stays in the host's
  sight; no session before discovery; destroy leaves no session.
* Builder: a command fits or the call fails with a documented code; headers agree
  with what is sent.
* Parsers: a refusal is never read as success; no input reads past the buffer.
* Lifecycle: nothing is used after it is freed; a failed init leaks nothing.
* Stubs: the packet returned answers the command sent.
* Tests: what they assert holds through everything earlier calls left in the mock.
* Applications: every way out ends the open session and reaches destroy.
* RAL: the mutex is deleted only when nobody waits for it.

## 2. Modules

```
OpalProtocol        codes, statuses, lengths (no state)
 |-- OpalPacket       the builder: append calls, cursor, headers (no state)
 |    `-- OpalResponse  the parsers, over bytes (no state)
 `-- OpalDrive        the drive, as the core's environment
      |-- OpalStubs     next_op of the two stubs
      `-- OpalCore      device context + tasks
           |-- OpalRefinement                 OpalCore implements OpalSession
           |    `-- OpalUnreliable            drives that reset or answer late
           |-- OpalWire + OpalResponse        packets and bytes beside the core
           `-- OpalTests
                `-- OpalApp + OpalStubs       applications and tests over the core
OpalSession         what the API promises (abstract; instantiated by OpalRefinement)
MCOpalCore, MCOpalWire, MCOpalUnreliable, MCOpalApp    constants for TLC

OpalCoreProofs      theorems about OpalCore
 |-- OpalRefinementProofs   the refinement
 |    `-- OpalUnreliableProofs
 |-- OpalAppProofs
 `-- OpalWireProofs         with the two below
OpalPacketProofs    lemmas: what the builder leaves, how long, which brackets
 `-- OpalFolds        lemmas: what a fold over a sequence computes
OpalResponseProofs  lemmas: what each parser finds in each packet
```

### OpalCore

`lock` is the holder of `dev->lock`; `discovered`, `session_open`,
`tper_session_id`, `com_id` are the fields of the same name, `base_com_id` is the
field of `dev->discovery` that matters. `cmd_buf` and `resp_buf` hold what a
packet says (a record), not its bytes. `handle` is the life of the context.
Per task: `pc`, the `call` it is inside, `ret` (the C variable `r`, then the
return value), `out` (`*read_locked`) and a call counter.

| pc | C code | actions out of it |
|---|---|---|
| idle | not inside the API | `CallApi` (entry and unlocked checks), `CallDestroy` |
| lock | blocked in `opal_mutex_lock` | `Acquire` |
| build | checks under the mutex; append calls | `Decline` (early return), `Build` |
| send | `transport.send` | `Send` |
| recv | after `opal_sleep_ms(10)`; `transport.recv` | `Recv` |
| finish | parse, update the context, unlock, return | one `Finish...` action per operation |
| free | `opal_mutex_destroy`, `opal_free` | `Free` |

`opal_revert_tper` goes through send/recv/finish twice under one hold of the mutex
(`FinishPsidSession`, `FinishRevert`). `opal_lock_range` and `opal_unlock_range`
are one operation, `set_lock`, with a value. A step is one stretch of code that
no other task can see the inside of: the context is written only under the mutex,
and the two fields read without it are single bytes. `set_password` picks its
C_PIN row from everything an uninitialised `cpin_uid` can name.

A session the drive holds is in the host's sight (`InSight`) while the context has its
number or its SyncSession is on the way; the others are `Orphans`, which
nobody can end. `OrphansExplained` says that a session becomes one in four kinds of steps
(`LosesTrack`) and in no other: the answer to the exchange that opens it does not arrive;
`opal_start_locking_session` or the PSID session of `opal_revert_tper` replaces it; the
exchange that ends it fails; the drive does not carry out the Revert.

After `Free` a task still inside a call would run on freed memory. The runs
about destroy either call it when no call is running (`Quiesce = TRUE`) or
stop at the first use after free; no behaviour past that point is claimed.

`StatusBeforeEod` says where the drive puts the status list: after ENDOFDATA
(where `append_eod` puts the core's own, and both stubs put theirs) or before it
(where the comment above `parse_status` says it is). `parse_status` reads four
bytes before the last ENDOFDATA, so under FALSE it sees a zero byte of the
SubPacket length.

### OpalDrive

The environment, modelled from the commands the core sends and the answers its
parsers look for. It may refuse any method and any StartSession with any status in
`Refusals`, it hands out fresh session numbers, and it holds as many sessions as
were opened and not ended. AdminSP credentials are not told apart. It drops an
answer nobody fetched when the next command arrives.

### OpalSession and OpalRefinement

The abstract promise of `core/opal_core.h` to the tasks that share a context:
four variables (the open session's number, discovered, alive, and what each task is
doing) and calls that take effect in the one step in which they return. A call
that fails changes nothing; a session that starts is a new one, an
AdminSP session never replaces another; a method succeeds only in a session;
after end, revert and destroy none is open, whatever they returned.

`OpalRefinement` maps `session` to `tper_session_id`, except while
`opal_revert_tper` is between its two exchanges: the PSID session is in the context
then, but no other call can see it, so it maps to 0 (`VisibleSession`). `discovered`
maps to itself, `alive` to `handle = "live"`, and `doing[t]` to the operation of
`call[t]` while `pc[t]` is not idle, and to the result in `ret[t]` otherwise.
`opal_revert_tper` and `opal_dev_destroy` are the two calls of more than one
abstract step: they give up the session first.

### OpalPacket, OpalResponse and OpalWire

`OpalPacket` is the builder. A packet is the sequence of its `append_` calls, each
with its value and the number of bytes it takes; `append` is `buf_push` under
`r = r || ...` (nothing follows the first failure, and a token that does not fit fills the
buffer first), `buf_finalise` stamps ComID, session and the three lengths. One
operator per command gives the calls in the code's order.

`OpalResponse` is the parsers over bytes: the backward scan of
`parse_status`, the forward scan for the TSN, the last-match scan of
`opal_query_lock_state`, the descriptor walk of `parse_discovery`; and the packets
they read, those in the stubs and those a drive sends.

`OpalWire` runs both beside `OpalCore`. `packet` is what the builder leaves in
`cmd_buf` when the core builds a command, `raw` the bytes `resp_buf` holds when the
core receives an answer, in any of the layouts that may carry it. `OpalCore` decides
with commands and answers, so the run checks that the builder and the
parsers, which have bytes only, come to the same. This is what justifies the
abstraction the other modules use. A failed exchange leaves old bytes in `resp_buf`, which
the core does not parse; the properties speak of successful exchanges only.

### OpalUnreliable

The core before drives that are less obliging; `mode` says which.

* `steady`: the drive of `OpalDrive`.
* `reset`: it loses power at any moment and comes back without sessions, without
  its pending answer, and locked. What survives: the session the host believes open
  is still one the drive had really opened (`SessionLiveUnlessLost`); OPAL_OK of a method
  or a revert still means done (`OkMeansDone`): the drive executed what this very call
  asked, and when the call returns it is in effect (`InEffect`: the range's lock state
  unless power was cut since, the LockingSP active, the user's PIN, the TPer reverted); and the
  lock state a query returns is that of its range (`QueryReportsLock`). One case
  is excepted: `opal_set_password` for user 0 sets the PIN of whichever row its
  uninitialised UID names (`v_set_password_row`), so for it only that row is asked for.
* `queue`: it keeps answers nobody fetched, oldest first, so from one late answer on
  every IF-RECV gets the answer to an earlier command. The core has no sequence
  numbers and ignores the HSN echo. What survives: `SessionLiveUnlessLost`, for an old
  SyncSession names a session that is still open unless the host has ended it, and
  the `EndOfSession` that ended it was sent after that answer was taken; and
  `SuccessWasAnswered`: a discovery, a start, a method or a revert that received
  nothing, or an earlier discovery, does not return OPAL_OK. (With any drive, this is
  not so of `opal_query_lock_state`, which takes an empty response for an unlocked range:
  `v_query_unanswered`; nor of `opal_end_session` and `opal_dev_destroy`, which do not look at the
  answer to EndOfSession.) What does not survive: OPAL_OK may then belong to an earlier
  method, and `OkMeansDone` leaves this drive out. And a Revert ends sessions whose
  SyncSession is still queued: after eight calls (discover; start, discover,
  discover, start, all late; revert; discover; start) the host adopts a session
  that is gone, so with this drive `lost` counts what a Revert ended. The run's four
  calls reach the adoption of a live stale session (discover; start, late; start), but
  not that case, which rests on the proof.

With all three the calls still implement `OpalSession`: it promises which session
the tasks agree on, not that the drive still holds it.

### OpalStubs, OpalTests and OpalApp

`next_op` of the hardware stub and of the mock, under their send and recv.
`OpalTests` has the calls of the nine test groups, what `mock_transport_set_next` is
given before each, and what is asserted of the result. `OpalApp` is the program over
`OpalCore`: one of the two FreeRTOS applications or one test group. `at` is the call the
task makes next or is inside, `step` the position in a test, `heap` what is
allocated. A program starts where `main` does and any allocation may fail: under FreeRTOS
the malloc-failed hook (`configUSE_MALLOC_FAILED_HOOK`) then halts before NULL is
returned, so the NULL checks after `opal_dev_init` and `xTaskCreate` are never
reached; under POSIX `opal_dev_init` frees what it has and returns NULL.
Which program and which transport is chosen in `AppInit` and
never changes: the tests are linked with the mock, and the applications, which call
`opal_transport_hw_init`, with the hardware stub or with the driver that is to
replace it, in front of a drive. The tests use user 1 and range 1, so where tests are among the programs the
drive has these rows; `AppAssumption` says so, and that the PINs written in the programs have
the length they have there. StubTsn stands for 0xDEADBEEF, which does not fit TLC's integers;
it only has to differ from what the drive hands out.

## 3. What TLC checks

Bounds are in the `.cfg` files: `MaxCalls` calls per task, and `MaxResets` power
losses, are the only ones on behaviours. Two tasks are enough to interleave any two
calls, and every shared field is touched by calls of at most three kinds in sequence
(discover, start, use). PINs: "good", and "huge" (450 bytes), which does not fit into
`cmd_buf`; `wire` has PINs of 15, 16, 32, 255, 256, 400 and 401 bytes, on either side
of each atom size, of OPAL_MAX_PIN_LEN and of the last byte of `cmd_buf`.
Refusals 1 and 5: NOT_AUTHORIZED, and INVALID_PARAM, which is no return code; 46 and 63
take the other branches of `parse_status`. `core_two_tasks` has 5 only: under its layout
`parse_status` does not see which status it was. One reset is enough: after it host and drive
disagree, and a second one only takes sessions a second time.
Users 0 and 1, ranges 0 and 1 and a second PIN are in `core_one_task`, whose properties tell
them apart. `core_one_task` has one task, because what a power loss or a late
answer does to a sequence of calls needs no second one; that the results hold for any number
of tasks is proved. No run uses symmetry: tasks are the only symmetric set, and TLC's liveness
checking is not sound with it.

| Run | Question | Distinct states |
|---|---|---|
| `core_two_tasks` | All operations, two tasks, two calls each, every fault, fair scheduling: types, mutex discipline, responses match commands, host session live, methods in a live session, negotiated ComID, admin start never replaces, failures keep the session; a session is lost sight of in four named places only; no call waits or starts over, and each returns; `OpalCore` implements `OpalSession` | 365,822 |
| `core_one_task` | Four calls in a row, two users, ranges and PINs, every fault, drives that are steady, reset or queue answers, status where the parser looks: discovery before session, session live unless a reset took it, a success was answered, OPAL_OK means that what the call asked is done and in effect, a query reports its range's bit, documented codes only; `OpalSession` is implemented before these drives too | 844,611 |
| `wire` | Three calls, every command, PIN size and layout: the builder fits or fails as the core assumes, the packet says the command, its brackets and lengths are right, each parser reads what the answer means, discovery reports the drive's locking state; sends and receives may fail or come late | 177,274 |
| `apps_all_transports` | Both applications over a faulty drive and over the hardware stub, and the tests over the mock: types, no session dropped, methods in the right Security Provider's session, heap, assertions of the tests, mock in step, termination | 5,236 |

`DestroyClosesSessions` is refuted (`v_destroy_closes_sessions`) and holds in no passing run:
besides the LockingSP start over an open session, a Revert the drive refuses and a failed exchange break
it too. What holds of all operations is `OrphansExplained`, and what follows from it for
destroy is the theorem `DestroyLeavesNoSession`.

`TestsPass` says that the assertions hold of the calls a test makes. A test whose
`opal_dev_init` finds no memory makes none, and its assertion that the
device is not NULL is not among those checked.

**Fairness.** `FairSpec` gives each task weak fairness of its steps inside a
call: the scheduler runs every ready task (`configUSE_PREEMPTION`,
`configUSE_TIME_SLICING`), callbacks return, and `opal_mutex_lock` is granted when
free. No task is required to call. Weak fairness suffices for the mutex because each
task makes finitely many calls, so a waiting task is eventually waiting on a
mutex that stays free. `CallReturns` needs no more than that: a refused or
failed exchange, a late answer and the second exchange of `opal_revert_tper` all lead on to a
return. `AppFairSpec` is weak fairness of the one program: its
task runs, and the idle task frees the stack of the task that deleted itself.
No run disables deadlock checking: `Done` and `AppDone` are the only states in
which nothing is left to do.

### Disagreements between code and documentation

Each is a run with one property that TLC refutes; `PROJECT.json` quotes the line.

| Run | What the code does |
|---|---|
| `v_refusal_reported` | a refused method returns OPAL_OK: the status is read before ENDOFDATA, and query reads none at all |
| `v_set_password_row` | `cpin_uid` is uninitialised: another user's PIN may be set |
| `v_returns_documented` | a PIN too long for the buffer returns 1 |
| `v_session_needs_discovery` | the check of `discovered` is stale once the mutex is held |
| `v_destroy_closes_sessions` | without any revert: a LockingSP session started over an open AdminSP session, on an activated drive, orphans it |
| `v_query_unanswered` | a query that received nothing reports an unlocked range and OPAL_OK |
| `v_use_after_free` | destroy does not wait for tasks inside the API |
| `v_demo_hw` | over the hardware stub the demonstration never opens a session |

`core_one_task` checks `SessionNeedsDiscovery` and `ReturnsDocumented` under conditions in which
they hold: a task that has the context to itself, and PINs that fit.

Seen on the way, and not given a run: `opal_revert_tper` forgets its PSID session whatever the Revert
exchange returned (`opal_core.c:1110-1113`), so a drive that refuses the Revert keeps a session that
destroy does not end, as in `v_destroy_closes_sessions` but without any LockingSP session, and
`OrphansExplained` names this step; in the test suite, TC-20 (a second
`opal_start_admin_session` must fail) passes without the check it is meant for,
because the mock answers it with RESP_OK and there is no TSN in that;
`opal_end_session` on the mock is answered with a discovery packet, which nobody
reads; the discovery command carries `dev->com_id` in its ComPacket header while
IF-SEND is told ComID 1; the descriptor walk of `parse_discovery` begins inside a
drive's 48-byte header and finds its step only if the bytes there are zero; a StartSession refused for its PIN returns
OPAL_ERR_PROTO, because `parse_start_session_resp` looks for a SyncSession only;
`opal_dev_get_discovery` never returns NULL for a live context, although
`opal_core.h:222` says so of a context without discovery; the pad bytes after the
payload are counted in the ComPacket length and not sent (`PacketWellFormed` allows for
just these); `opal_sleep_ms` may sleep up to a tick less than it is asked.

## 4. What is proved

Every theorem is about all values of the constants under the modules' own
assumptions (`CoreAssumption`, `DriveAssumption`, `UnreliableAssumption`,
`TestsAssumption`, `AppAssumption`): any set of tasks, any number of calls, any PINs, rows, ComIDs and
refusals, any faults, either status position, destroy at any time. Where a theorem
needs more, the hypothesis has a name, and leaving it out is wrong, not just
unproved.

| Hypothesis | What it says | What happens without it |
|---|---|---|
| `OrderlyDestroy` | destroy is called when no call is running, or never | `v_use_after_free` |
| `RevertsAlone` | a task that reverts the TPer has the context to itself | `v_session_needs_discovery` |
| `ShortCredentials` | no caller passes a credential of more than 400 bytes | `v_returns_documented` |
| `~LosesTrack` at every step | in the behaviour at hand no session is opened over another, no exchange that opens or ends one fails, no Revert is refused | `v_destroy_closes_sessions` |
| `StatusBeforeEod` | the drive puts the status where `parse_status` looks | `v_refusal_reported` |
| `StatusIsNoToken` | the drive refuses with no status equal to the byte of ENDOFDATA | `parse_status` takes the status for the token and reads four bytes before it: TLC refutes `ParsersAgree` in `wire` with `Refusals = {249}`; TCG's statuses end at 63 |

| Property | Theorem | Hypotheses |
|---|---|---|
| **`OpalCoreProofs`** | | |
| `TypeOK` | `TypeCorrect` | |
| `LockDiscipline` | `MutexDiscipline` | |
| `HostSessionLive` | `SessionLive` | |
| `MethodsInLiveSession` | `MethodsOnlyInLiveSession` | |
| `AdminNeverReplaces` | `AdminOnlyFromClosed` | |
| `ComIdNegotiated` | `ComIdAlwaysNegotiated` | |
| `ResponseMatchesCommand` | `ResponsesMatch` | |
| `FailureKeepsSession` | `FailuresKeepSession` | |
| `CallAdvances` | `CallsAdvance` | |
| `ReturnsDocumented` | `ReturnsAreDocumented` | `ShortCredentials` |
| `SessionNeedsDiscovery` | `DiscoveryFirst` | `RevertsAlone` |
| `OrphansExplained` | `OrphansAreExplained` | |
| `DestroyClosesSessions` | `DestroyLeavesNoSession` | `OrderlyDestroy`, `~LosesTrack` |
| **`OpalRefinementProofs`** | | |
| `ImplementsSession` | `CallsAreAtomic` | `OrderlyDestroy` |
| **`OpalUnreliableProofs`** | | |
| `ImplementsSession` | `CallsAreAtomicUnreliable` | `OrderlyDestroy` |
| `SessionLiveUnlessLost` | `SessionsLiveUnlessLost` | |
| `SessionNeedsDiscovery` | `DiscoveryFirstUnreliable` | `RevertsAlone` |
| `SuccessWasAnswered` | `SuccessesAnswered` | |
| `OkMeansDone` | `OkIsDone` | `StatusBeforeEod` |
| `QueryReportsLock` | `QueriesReportLock` | |
| **`OpalAppProofs`** | | |
| `AppTypeOK` | `AppTypeCorrect` | |
| `HeapMatchesContext` | `HeapFollowsContext` | |
| `AppNeverDropsSession` | `AppsEndTheirSessions` | |
| `AppMethodsRightSp` | `AppsUseRightSp` | |
| `Spec` of `OpalCore`, over a drive | `AppsRunCore` | |
| `HostSessionLive`, over a drive | `AppsKeepSession` | |
| `MockAnswersInStep` | `MockInStep` | |
| `TestsPass` | `TestsAlwaysPass` | |
| **`OpalWireProofs`** | | |
| `WireTypeOK` | `WireTypeCorrect` | |
| `BuilderAgrees` | `BuilderNeverOverruns` | |
| `PacketWellFormed` | `PacketsWellFormed` | |
| `PacketSaysCommand` | `PacketsSayCommands` | |
| `ParsersAgree` | `ParsersRight` | `StatusIsNoToken` |
| `DiscoveryReportsDrive` | `DiscoveryReported` | |

### The arguments

**Sessions.** `HostSessionLive` says nothing of the packets in flight, so it is not
inductive. `SessionInv` adds: the command in `cmd_buf` is that of the task inside
the exchange; a SyncSession not yet fetched, and one fetched and not yet parsed,
names a live session; and an open host session is live unless the exchange that ends
it is under way. The step that matters is IF-SEND of EndOfSession or Revert: the
drive's session is gone while `session_open` is still 1, and the disjunct
`EndingSession` covers the window until the host resets its fields, whatever the
exchange returned. `MethodsInLiveSession` follows from it and the check under the
mutex. `AdminExclusive`: once past its check an admin start keeps the
session closed until it returns. `ComIdInv`: `discovered` may be cleared after the
unlocked check, but `com_id` never is. `AnswerMatches` carries the match of answer and
command from IF-SEND, which replaces whatever an earlier command left unfetched,
to the parser.

**Returns, discovery, destroy.** `PasswordsChecked` carries the length check of
`opal_set_password`, made before the mutex is taken, to the append calls; with
`ShortCredentials` no command is too long, and 401 bytes is exactly where one becomes
so (`CredentialFits`). `DiscoveryInv` carries the unlocked check of `discovered`
to the parser. `DestroyAlone` says that, under `OrderlyDestroy`, a destroying task is the only one
inside the API; it serves the refinement and the theorem on the last call. That nobody is inside a
freed context is then the hypothesis over again, and is not claimed as a theorem.

**Sessions lost sight of.** `OrphansExplained` needs to know what an answer says of sessions
before the host acts on it. `EndsAgreed` carries that from IF-SEND to the parser:
EndOfSession, which has no answer, has ended the session the context names, and a Revert
answered with SUCCESS has ended all. Then each step either keeps every session the drive holds in sight or
is one of `LosesTrack` (`NextOrphans`): by `AnswerMatches` a SyncSession is parsed by the call
that asked for it, by `AdminExclusive` an admin start adopts it when no other is
open, and by `OkSoFar` only the transport can spoil the result before. The theorem has
no hypothesis; `DestroyLeavesNoSession` follows for each behaviour without a step of `LosesTrack`,
whatever calls and failures it has otherwise.

**How calls advance.** `StepsLeft` bounds the steps a call still has before it; each
of its steps lowers it. It reads `cmd_buf`, which all tasks share: only the
revert goes through the exchange twice, and a Revert in `cmd_buf` tells its second
exchange from the first. Inside the exchange the task holds the mutex, and no step of
another task changes the command (`Undisturbed`); and a Revert is never the
command of a destroy (`NoRevertByDestroy`). This is the safety half of
`CallReturns`: no call retries, polls or loops, so all that can delay one
is the scheduler, a callback that does not return and, in front of the mutex, the calls
of others, each of which is finite in turn. That the next step is enabled stays with TLC.

**Refinement.** Init maps to the abstract Init, and each step of `OpalCore` to one
abstract step or to a stutter, from `RefinementInv`: `AdminExclusive`
and `DestroyAlone` from above, and four more. `NewSession`, from `TsnsGiven`: a session
that starts has a number the host does not hold, which the abstract start asks for.
`SessionNumbered`: that number is 0 just when no session is open. `RevertSession`: while
`cmd_buf` holds a Revert, the session in the context belongs to the call inside
its exchange, so that the refinement mapping can be read off `cmd_buf` alone (`Seen`).
`MethodHeld`: a method inside its exchange still has its session. Nothing here
speaks of the drive's sessions, and so the same invariant serves drives that lose them:
`CallsAreAtomicUnreliable` adds that a power loss and the oldest answer taken from the queue are
stutters (`QuietFault`), and that a SyncSession from the queue is still new to the host (`QueueOnce`).

**Unreliable drives.** `SessionInv` fails here; what remains is `HeldInv`, with
"live" replaced by "live, or lost to a power cut, or, behind late answers, to a
Revert" (`Held`), and extended to the queue. It needs `QueueOnce`: a session number stands in
at most one answer of the queue, and in none once the host has adopted it. Otherwise the host could
adopt a session again that it has ended itself. `OkMeansDone` rests on `AnswersTrue`: an answer
that says SUCCESS was given to the command in `cmd_buf`, the drive did what that asked,
and but for a power loss the effect still stands. `ArgumentsOfCall` ties the
command's arguments to the call's: range, value, PIN and, but for user 0, the user whose row is
set; where an uninitialised row UID names none, the drive refuses. `AnswersTrue` says of a row that it shows the
lock bit of the range asked for, and so `QueryReportsLock` holds with the same proof, for
the exchange is under the mutex and no other call changes the bit before the
return (behind a queue, where it may show another range's, it is not claimed). It needs no `StatusBeforeEod`: a row is only read if there is one. `SuccessWasAnswered` holds with shifted
answers too, since only a discovery reports a ComID (`ComIdsDiscovered`).

**Applications.** `RunInv` and `HeapInv` tie the program's position to
the call it is inside and to what is allocated. `ClosedOutside` says at which labels a
session may be open, and with it no path through an application reaches a start or
the destroy with one; `RightSp` carries the Security Provider from the command that asks
for a session to the methods that use it. `RightSp` is
about a drive, the others hold over every transport. Over a drive a program
is one of the tasks `OpalCore` speaks of: every step of it is a step of
`OpalCore` (`NextCore`), so that all theorems about `Spec` hold of it (`AppsRunCore`).

**Tests over the mock.** A test passes because each of its calls finds the session and
`next_op` as it needs them. `OpenAt` says before which steps of each script a session is open, and
`ScriptsFit` that every call suits that: one that opens a session follows a discovery, a
method finds it open, a call that is to fail is refused before anything is sent, and
each leaves what the next one counts on. `MockInv` carries it through the exchange:
`SessionTracked` ties `session_open` to `OpenAt`, `MockReady` says what `next_op` is
before a call for which nobody sets it, `InStep` what it is for the command built, and `Answered` what the
mock made of it. It includes the wrong turn of the mock at EndOfSession, which it answers
with a discovery: `next_op` then is what a start needs, and no test counts on the
answer.

**Packets.** `Built` and `Open` are folds over the tokens of a packet, and
`FoldLeft` is defined by a CHOOSE of a function on sets of positions. `OpalFolds` proves that
there is exactly one such function, by induction for a set of numbers (`SetInduction`, from the
library's minimal-element theorem; its rule for predicates takes an operator and cannot be used here),
and so that folding over one element more is one application more (the lemma `FoldAppend`). From
that, for each of the nine programs: its bytes (`Measured`, `Weighs`), that it leaves no
bracket open (`Leaves`, `Neutral`), and which UIDs it names (`Mentions`).
`PacketInv` says of a task about to send that both views of `cmd_buf` are those of its
call's command. What is then read back from the bytes is that command.

**Parsers.** `RawInv`: when a task is about to parse, `raw` is a layout that
may carry the answer in `resp_buf`; nothing else touches it (`ReceiverAlone`).
`ReadRight` is what each scan returns for each layout, exact length or whole buffer,
every status, number and bit; in `OpalResponseProofs`. The last ENDOFDATA is where the
trailer puts it and no later byte equals it; no byte of a header
looks like the pair of four-byte numbers before it does; and in a status
packet there is no named value. The walk of `parse_discovery` is a recursive
function that goes on without bound; `WalkFunction` shows that one exists, as the least set
closed under the walk's step, so that the walk's CHOOSE is well defined, and the
stops are then followed one by one (`Goes`) for each layout. The lengths in `OpalResponse` are
those of both stubs' packets and of a drive's, not of arbitrary bytes.

### What is only model-checked

* `CallReturns` and `AppTerminates`: liveness under fairness,
  out of the prover's reach. What is proved of the first is its safety half, `CallAdvances`.
  With it a call that does not end has stopped in the middle; that a step is then enabled, and
  that fairness takes it, is what TLC adds.
* The `v_` runs: each shows one behaviour.

## 5. What is not modelled, and why

* Responses whose lengths point past `resp_buf`, and the 32-bit wrap of
  `total + 4`: what is read there is outside the program's memory model. Vendor
  bytes in the header of a discovery.
* The values of bytes nobody decides with: PIN contents, MBR bits, `num_com_ids`.
* The write-lock copy of each lock bit in `OpalDrive` (always set together with the
  read-lock bit; `OpalWire` has both columns in the packet).
* NULL arguments (each call returns OPAL_ERR_PARAM before touching state).
* Two devices on one stub, whose context is static.
* Logging, printing, `opal_error_str`; the pointer `opal_dev_get_discovery` hands out.
* Time: `opal_uptime_ms`, which nothing under `src/` calls, and tick lengths. The sleep
  is the point between `Send` and `Recv`.
* Stack overflow, and the hook that halts on it. The build.

## 6. Plan

Done: all modules of section 2; every safety and action property of the passing runs
proved, under the hypotheses of section 4; the refinement, before obliging and unreliable drives, by TLC and by proof.
What could follow:

1. A form of `OkMeansDone` for drives that keep late answers: OPAL_OK belongs to some earlier
   method, and which one is known from the queue.
2. `StatusBeforeEod` is a hypothesis of `OkIsDone` for all methods. State
   what OPAL_OK says under the other layout (the drive executed or refused the command, and it
   is not known which), and for the commands whose effect does not depend on the status.
3. Two devices on one stub, with a transport context shared between two copies of the core.
4. Discovery data whose lengths point past what was received, with a memory model of `resp_buf`.
