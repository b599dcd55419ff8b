# litearm-cpp: verification

TLA+ models of the litearm SDK, TLC configurations that check them, and TLAPS
proofs about them. Source paths below are relative to the directory that holds
`src/` (the repository) and `tla/` (this directory).

Contents: [the system](#1-the-system) · [the modules](#2-the-modules) ·
[the runs](#3-the-runs) · [what disagrees](#4-where-code-and-documents-disagree) ·
[the proofs](#5-the-proofs) · [only checked](#6-what-is-only-checked) ·
[not modelled](#7-not-modelled) · [plan](#8-plan)

## 1. The system

One `Arm` object talks over a USB serial link to the firmware of a seven-joint
arm. Any number of user threads may call it; one reader thread per session takes
frames off the link; one keepalive thread exists while zero gravity is on. The
firmware answers most commands with `ACK{cmd}` or `ERR{cmd,code}`, queries with a
frame kind of their own, streams status frames at 100 Hz, and reports each
accepted Cartesian request with one `0x4E` frame. Frames can be lost, and none
carries a request number. Nearly everything hard in this code follows from that.

| component (files) | state | operations | works with | hard because | module |
|---|---|---|---|---|---|
| Cartesian pairing (`cart.cpp`, `CartPending`, `CartToken`) | FIFO of tokens, list of unclaimed results, absorption budget and its deadline | `request`, `wait`, `drop`, `clear_pending`, `on_reply`, `poll_cart` | write path (clear before write), reader thread (`on_reply`), callers under `cart_serial_` | results are paired by order only; abandoned, cleared and rejected requests may or may not be answered later | `CartPairing` |
| Ack (`ack.cpp`) | queues by (kind, echoed command), status slot and `status_seq`, stored errors, `reader_error` | `start_reader`, `stop_reader`, `reader_loop`, `deliver`, `drain_for`, `wait`, `expect` | every caller, the transport, `CartPending` (outside `Ack::mu`) | one condition variable for all; late answers; the order of drain and write; a thread that may die | `AckQueues` |
| Write path (`arm.cpp`, `raw_write` and above) | none of its own | guards, clear, drain, write | all of the above | four steps that are not atomic together | `CartPairing`, `AckQueues`, `ZeroGravity` |
| Zero gravity (`arm.cpp`) | `zg_active_`, `zg_stop_`, `zg_thread_`, `zg_error_`, `zg_lock_` | `zero_g_start`, `zg_keepalive`, `zero_g_stop`, `ZeroGSession` | write path, `close` | join under a lock, a thread that may die, flags read without the lock | `ZeroGravity` |
| Session (`arm.cpp`) | `tr_`, `a_`, `cart_`, `pid_`, `dfu_entered_`, `firmware_`, `n_` | `connect_impl`, `close`, `reconnect`, `enter_dfu` | builds and destroys the above | a way out at every step, the order of building and destroying, forked children, hand-over of budget | `Session` |
| Motion (`arm.cpp`, `cart.cpp`) | none | `arrive`, `movej*`, `move_p`, `precheck_q_`, `home`, `wait_settled`, `tcp_reached` | status slot | stale frames, wrapping sequence numbers, budgets of time, other processes | `Arrival`, `Services` (checks) |
| FrameReader (`framing.cpp`) | byte buffer, `partial_since_` | `feed`, `tick`, `reset` | transport | resynchronisation after garbage | `SerialLink` |
| Protocol (`protocol.cpp`) | none | `pack_frame`, `unpack_frame`, CRC, `decode_status`, `parse_firmware_version` | all | damaged frames, lengths, text that looks like numbers | `Codec`, `NoisyLine` |
| SerialTransport (`transport.cpp`) | descriptor, port registry, `flock`, read and write locks | constructor, `write_frame`, `read_frame`, `close` | Ack, write path | registry shared by the process; closing against reads and writes; partial writes | `SerialLink`, `Session` |
| ArmLog, JointParams, ModelParams, licence, settings, kinematic bench | `limits_`, `last_target_` | one question, one answer; `capture`, `dump` | Ack | answers paired by order; late answers; chunks without an offset | `Services` |
| Errors, clock, rotations, text, CLI, examples | none that interleaves | – | – | – | – |

Lock order: `cart_serial_` → `CartPending::lock_` → the transport's write lock,
and `zg_lock_` → `CartPending::lock_` → the write lock. `Ack::mu` is a leaf: no
other lock is taken under it. The keepalive thread never takes `zg_lock_`.
`SerialTransport::close` takes the read lock, then the write lock, and lets both go
before it closes the descriptor and releases the port.

What makes each component correct:

- pairing: a caller gets the result of its own request or is told it does not
  know; a rejected request never runs; a result never arrives unaccounted for; the
  pairing recovers after any disturbance; every call returns.
- Ack: nobody sleeps through news; calls on different commands do not disturb each
  other; a dead reader is heard; a normal close is not a lost link.
- zero gravity: the arm is kept limp exactly as long as a session lasts; a lost
  keepalive is told; the guard against action commands is never stuck.
- session: one reader to a device; what a failed connect or a close leaves behind is
  nothing; a forked child sends nothing into its parent's session; what the Arm says
  of the firmware is of the open session.
- motion: success is reported only of a motion of one's own that ended; a motion under
  way is not let go; a fault that aborts is new; every wait ends.
- link: every good frame that follows garbage is found; a partial frame does not
  block; a frame on the downlink is whole or reported; close finds nobody inside.
- protocol: a damaged frame is not taken for a frame; no byte of a state frame is read
  twice or beyond its end; versions compare as numbers.
- services: what a call returns is what it asked for; a target that passed the check is
  inside the limits; a capture is one capture, whole.

`PROJECT.json` lists the hazards behind these at their lines in the source.

## 2. The modules

| module | models | actions correspond to |
|---|---|---|
| `CartPromise` | what a caller of `move_l`, `move_c`, `move_path` may rely on | – (abstract) |
| `CartPairing` | `CartPending`, `request_and_wait`, clearing writes, the reader thread as far as Cartesian frames go | one critical section of `CartPending::lock_`, one wake-up, one frame, one unit of time |
| `AckQueues` | the answer queues, the status slot, sleeping and waking, the reader's life, `close` and `reconnect` | one critical section of `Ack::mu`, one hook of `raw_write`, one frame, one step of `close` |
| `ZeroGravity` | `zero_g_start`, `zg_keepalive`, `zero_g_stop` | one access to a flag, to the stored error or to the link |
| `Session` | `connect_impl`, `close`, `reconnect`, `enter_dfu`, their guards, the port registry, `flock`, the reader thread's life, `fork` | one step of `connect_impl` with all its ways out, one step of `close`, one command, the fork, the device coming and going |
| `SerialLink` | `FrameReader` inside `read_frame`, `write_frame`, `close` | one turn of the read loop, one chunk, one `write`, one critical section of `close` |
| `Codec` | CRC, `pack_frame`, `unpack_frame`, `decode_status`, `parse_firmware_version`, the version gate | – (functions) |
| `NoisyLine` | one frame from `pack_frame` to `unpack_frame` over a line that turns bits over | one frame packed, one bit turned over, one frame read |
| `Arrival` | the call and the wait of every motion: `arrive`, `wait_settled`, `tcp_reached`, the loop of `move_p` | one frame looked at, one frame delivered, one frame period, one change of the arm |
| `Services` | parameters, limits and the checks against them, model, feed-forward, licence, enable, log | one question written, one answer received, taken or given up |
| `MC*` | – | model values, instances and symmetry sets for TLC |
| `*_proofs` | – | proofs (section 5) |

The modules meet at the following points, each named in the header of the module.
`CartPairing` refines `CartPromise`. `MCSerialLink` composes `SerialLink` with `Codec`:
the link's parameter `Intact` is `unpack_frame`, CRC included: it is given by the two frames that the
streams have in them, and two `ASSUME`s say that these are what `pack_frame` makes and all that `unpack_frame`
takes of whatever is cut out of the streams. `NoisyLine` is written over `Codec`. `Services` is written over the
queues whose handling `AckQueues` justifies (oldest answer of the command first, drained
before the write), and `Arrival` over the pairing that `CartPairing` justifies (one answer,
then the frames). `Session` keeps of the pairing only the two numbers that `connect_impl` hands
over, and of `Ack` only its thread.

### CartPairing

- **Tokens.** `Requests` are token objects. A finished request's identity is used
  again by `Fresh`, so a run with two identities covers any number of calls.
- **The call.** `serial` is the holder of `cart_serial_`; `phase` is where
  `request_and_wait` stands: `registered` (token queued, frame not written),
  `ackwait` (inside `expect`, with its rule that an ERR waits for the ACK:
  `RememberErr`, `Rejected`), `planwait` (asleep in `CartPending::wait`), then
  `replied`, `expired` or `linkgone` while the caller has still to take the lock and
  leave. `ok` means that a plan result was delivered, plan errors included.
- **Three opcodes, one queue.** The three Cartesian commands share one ACK/ERR
  queue here. That is the worst case (same opcode twice); different opcodes only
  separate answers that the model lets mix.
- **Clearing.** `ClearPending` is the critical section of `clear_pending`,
  `FailSwept` the loop outside the lock, `WriteClear` the write.
- **on_reply** is `AbsorbReply`, `ExtraReply` or `PairReply`, then `Resolve` outside
  the lock.
- **Time.** `Tick` advances `age`, `left` and `ttl` (deadline minus now; the budget
  has lapsed when it is negative, since the code compares with `>`). A write takes
  less than one unit. `AckDelay` and `PlanDelay` bound how late the firmware and the
  link can be; they are external and are set by each run.
- **External.** The firmware answers with ACK and later one plan result, or ERR and
  nothing; it forgets what it owes when a clearing opcode reaches it. Frames may be
  lost.

### AckQueues

- `mail[c]` holds the entries of the two keys a waiter for `c` looks at, in order of
  `seq`. Only keys of one command are ever compared, so nothing is lost by this.
- A call is a member of `Commands` (`write_cmd`/`write_query` and `expect`), `now`
  (`get_status_now`), `refresh` (`read_status`) or `linklost`
  (`wait_until_link_lost`). `late` says that its window is over; windows end at any
  time (`Expire`). The way a call ends is the action that ends it.
- `StopReader` requires that no other thread is inside a call: `close` frees the
  `Ack`, so its caller has to see to that.
- A frame that `read_frame` returned while `stop_` was being set is still delivered;
  the loop tests `stop_` after it (`Loop`).
- Ghosts: a frame remembers the call it belongs to (`by`); `misled` are threads that
  took another call's answer, `robbed` those whose answer was drained, evicted or
  taken, `muddled` those whose command was used by another exchange meanwhile (a late
  answer still on its way included). The code makes no promise to muddled calls.

### ZeroGravity

- `entry`, `keep` and `off` are the three uses of frame `0x06`. Every one is answered
  by the same `ACK{0x06}` or `ERR{0x06}`, which a ghost field tells apart.
- Every access to an atomic is a step, so that the keepalive's dying
  (`KeepFails`, `KeepYields`, `KeepEnds`) interleaves with starts and stops.
- The check for a Cartesian motion under way is a call that may refuse and changes
  nothing. `close` and the destructor of `ZeroGSession` are `zero_g_stop(false)`.
- `untold` (a ghost): the last session's keepalive was lost and nobody was thrown it. Only a stop
  that took the error *and* was asked to raise clears it (`StopReturns`). `zero_g_stop(false)` takes the error
  and drops it, which tells nobody. `LossIsTold` therefore speaks of the stops asked to raise: one that ends a
  session throws that session's loss, none throws another session's; and no stop, raising or not, leaves an
  error for the next session.
- Assigning to a joinable `std::thread` sets `terminated`; nothing happens after it,
  which is why its run does not check for deadlock.

### Session

- An **object** is an Arm in one of two processes. `Fork` gives the child a copy of every
  Arm, every descriptor and the registry, and none of the threads; a running keepalive becomes
  a `handle` without its thread. One thread drives each Arm, and the program forks between calls.
- A **session** is the open file description of its transport. `file` has its port, the
  process that opened it, the processes that hold it, its reader, whether the device has gone
  from under it, and `alien`: bytes of another process were written into it. `flock` belongs to the
  description, so it is held as long as `holders` is not empty.
- `connect_impl` is `Connect` (guards, the early return on an open session, `close` of a dead
  one), `Claim`, `Open` or `OpenFails`, `Rebuild`, `Hello`, `Status`, `Probe`. Time is left out: every
  wait may succeed or not, so each step lists its ways out as the code has them – through
  `close`, or past it.
- `close` is `Close` (fork guard, zero gravity, the stop flag), then `Shut` once the reader has
  ended (`ReaderStops`, `ReaderDies`): transport, registry, `clear_session_state`.
- `facts` stands for `firmware_`, `fw_version_` and `n_`, by the session they were learned in.
- A device is on the bus or not, of a version that passes or not, and owes plan results.

### SerialLink, Codec and NoisyLine

- The bytes the device sends are a sequence that is never changed, so the reader's buffer is the
  interval `head .. got - 1` of its positions, and a frame is named by its first position.
- `try_assemble` is `SkipNoise`, `Partial`, `Complete`, `TakeFrame`; `tick` drops a header whose age
  exceeds `PartialMax`, where `age` is kept, as in the code, across a header that fails its CRC.
- A write puts any number of bytes on the line at a time, fails or times out; `write_frame` holds
  the write lock over the whole frame. `MarkClosed` is the critical section of `close`,
  `CloseDescriptor` what follows it.
- `Codec` computes the CRC bit by bit, over registers that are functions from places to bits, so that proofs
  can speak of their bits. The code adds a byte before it shifts its first bit out; as no bit of it is looked at
  before its turn, bit by bit is the same (`KnownVector` and `PackedFrames` compare it with the vector of
  `tests/smoke_test.cpp` and two frames). Texts of versions are sequences of characters' codes behind the
  "Litearm" prefix, with at most nine digits to a number (more overflow `std::stoi`).

### Arrival

- One call of one `kind`: `arrive` (`movej`, `movej_sync`, `home`), `settle` (`move_l`, `move_c`,
  `move_path` with `wait_settled`), `pose` (`move_p`). Its answers are one `ack`, in order with the frames.
- The arm is `away`, `between`, at the `goal` or `elsewhere`; its motion is planned, running, over, or
  torn by another process's command; it may fault and be cleared. A moving arm may report a velocity
  under the tolerance. `CART_BUSY` shows only `BusyDelay` frames after the answer.
- `seen` is the status slot: the reader overwrites it, the call looks at it when `news` says so.
- A caller that has something to do does it within a frame period (`Due`).
- The clocks (`elapsed`, `left`, and `slice` for the wait under way) run while a call waits for a frame, for the
  pose (`PoseWindow`) and in `move_p`'s pause (`Nap`). `arrive` and `wait_settled` clip their waits for frames to
  what is left. `move_p` clips none: it looks at its deadline before each round and then runs the round to its
  end (`LookForFault`, `LookForPose`, `Wake`), so it may be at it one whole round longer than `move_timeout`,
  and `EndsInTime` says so (`Longest`).

### Services

- The firmware is what `testing.cpp` (the repository's stub) does: what each request changes,
  what it refuses and with which code. `quirk` is its `err_override` or a log that stands still.
- `air` holds the answers on their way, in order; `box` those received and not taken, one queue to a
  command, as in `Ack`. `Write` drains the command's queue and writes; `Take` takes the oldest;
  `Timeout` gives up on an answer that is lost or late. A request is first looked up in what
  the stub overrides (`Overridden`), then served. `Flushed`: connect waits for the version first, and answers come in order.
- `Invalid` is what a call refuses before it writes: `precheck_q_`, lengths, joints, settings.

## 3. The runs

| run | instance | checks | shows |
|---|---|---|---|
| `CartSafety` | 2 tokens, 1 clearing thread, ACK window 1, move_timeout 2, plan delay 1 | `TypeOK`, `NoFalseSuccess`, `NoDesync`, `KeepsPromise` | under the timing the design relies on, the pairing is right and refines `CartPromise` (a rejected request never runs is part of that promise) |
| `CartLate` | answers and results may be later than every window | `TokenLife`, `DeadStaysDead` | what holds even when pairing has lost sync |
| `CartLiveness` | no symmetry, fairness | `EveryCallReturns`, `Recovers` | every call returns; calls succeed again once disturbances stop |
| `AckSafety` | 2 threads, 1 command beside the status query, queues, links and errors of length 1 | `NoLostWakeup`, `OwnAnswer`, `NothingStolen`, `CleanClose` | calls do not disturb each other, nobody sleeps through news |
| `AckLiveness` | 1 thread, fairness | `CallsReturn`, `CloseReturns` | calls and `close` come back |
| `ZeroG` | 2 threads, 2 frames each way, fairness | `LastWordIsOff`, `ActiveIsKept`, `LossIsTold`, `StopsEnd` | zero gravity ends with its off frame, its guard is right, a stop asked to raise throws the loss of its session and of no other, stop returns |
| `Session` | 1 Arm (and its copy in the child), 2 ports, 3 descriptions, 1 unplugging, 1 result owed | `OneReader`, `ReadersAreOwned`, `NothingLeaks`, `ChildIsSilent`, `FactsAreCurrent` | whatever fails, forks or leaves the bus, sessions, claims and readers agree |
| `SerialLink` | 6 streams, 2 writers, chunks of 3, partial window 1, fairness | `AsIfInOnePass`, `WritesAreWhole`, `NobodyInside`, `NoFrameIsLost`, `NoLockup` | chunks and delays do not change what is read, unless a header is dropped for its age; then no other frame is lost with it |
| `NoisyLine` | 3 frames, bursts of up to 8 bits anywhere in them | `BurstsAreSeen`, `StateFrameIsRead`; as `ASSUME`s the checksum's known vector and `GateHolds` | damage is seen; state frames and versions are read as what they are |
| `Arrival` | one call of each kind, 10 frame periods | `NoFalseArrival`, `WholeMotion`, `FaultIsNews`, `NotCutShort`, `EndsInTime` | success means that one's own motion ended; waits end, `move_p`'s a round late |
| `Services` | 2 joints, 2 bodies, 3 calls, 1 lost and 2 late answers, each in 9 groups of calls | `TargetsAreInside`, `LimitsAreTheArms`, `ActivationIsTrue`, `CaptureIsWhole` | what is accepted, cached, activated or captured is what was asked for, with answers late and lost |
| `ZeroGRestart` | smallest | `NoTerminate`, violated | section 4 |

**Bounds.** *Cart, Ack, ZeroG*: `MaxDown`, `MaxUp` limit frames under way, `MaxErrors`
stored errors, `MaxBacklog` tokens in flight plus budget, `QueueMax` and `UnclaimedMax` stand
for the code's 64-entry caps. Two tokens are enough for every confusion the pairing can
make (a result given to a later request, a cleared one beside a waiting one), and
identities are used again, so chains of abandoned requests arise; a third token in
flight needs `cart_serial_` to be held twice. Length 1 makes eviction and waiting
for room happen at once. Two threads suffice for every hazard listed, which are about
pairs; the proofs drop these bounds for what they cover. `AckLiveness` has one
thread: the others could only wake it more often. Symmetry is used where only
safety is checked.

*Session*: `MaxOpens` 3 leaves room for the session of the parent, the description the child
inherits and keeps, and one more; `MaxOwed` 1 is enough for a debt to cross a reconnect, `MaxPlugs` 1
for a device to be lost in every state of a connect. The fork happens at most once. The Arm in the parent
and the one in the child are what competes for a port; two Arms in one process are left to the
proofs, which hold for any number of either (TLC also went through two Arms and two ports
without debts and unpluggings, 7.4 million states, without finding a violation of `SessionInv`).
Lower bounds can block nothing: `Open` waits for no other connect.

*SerialLink*: the streams are noise before frames, a false header, a torn frame, a frame inside another
and combinations, with real CRCs; `ChunkMax` 3 cuts headers and payloads at every place; `PartialMax` 1
lets a header be young, old or too old; a downlink frame is two bytes. `CHECK_DEADLOCK FALSE`: the reader ends with the link.

*NoisyLine*: the frames have no payload, one byte of it, and one that looks like a header. A burst is a run of
bits in the order in which the checksum takes them, from the first that is turned over to the last. `BurstMax` 8 is
any damage of one byte, the length among them, and what crosses from one into the next. It is not more because the
trailer has its low byte first: the checksum's promise of sixteen bits ends where the payload does, and
the property fails from 13 bits on (TLC, `BurstMax = 13` without `NoiseAssumption`).

*Arrival*: `Budget` in frame periods is 3 for `arrive` (with the cap at twice that), 5 for `settle`, 3
for `pose`: a motion takes at least two periods, is seen still for `ArriveFrames` 3 more, and the cap and
one silent budget fit into `MaxTicks` 10. `FirstSeq` 20 on a wheel of 22 makes every behaviour wrap.
`AirMax` 1 holds one frame back, which is enough for a frame from before the command to arrive after it;
`MaxLead` 1, `MaxPoints` 1 bound what happens before the wait. `BusyDelay` 1 is what the firmware shows. `Slice` 2,
`PoseWindow` 2 and `Nap` 1 keep the order of the code's windows and let a last round of `move_p` begin with time left
and end after its budget: TLC reaches the bound of `EndsInTime` exactly, for `settle` and for `pose`.

*Services*: `MaxCalls` 3 is what it takes for a late answer of a first call to meet a second of the same
command and for a third to see the consequence. `Retries` and `Attempts` are smaller than the code's: they are
loops whose turns are alike. `MaxLate` 2 lets an answer to a start of the log and one to a read of it be on their way at
once, which is the case that `CaptureIsWhole` has to except. A group of calls (`Apis`) has those that share state.

**Fairness.** A thread inside a call runs on and wakes when its window is over
(`cv.wait_for`, and no lock here is held across an unbounded wait); the reader thread
polls every slice; the firmware reads what reaches it; time passes. Nobody is ever
obliged to call, clear, close, start or stop, the status stream may be silent, and
mutexes are not assumed to be fair: `StopsEnd` speaks of threads that have
`zg_lock_`. `Recovers` is conditional: disturbances stop for good and calls go on
being made. `NoLockup` needs that the reader thread runs and that time passes, not that
bytes come. That a wait of `Arrival` ends is an invariant of its clocks (`EndsInTime`), which run through
every wait of the call: the caller acts within a frame period of the end of a wait (`Due`).

**Mutants.** Each property of a passing run has a mutant in `PROJECT.json`: the
definition it names is replaced by a plausible slip of the code (an operator with a
`_` in its name, just before it) and TLC then finds the property violated.

## 4. Where code and documents disagree

One run shows a disagreement: in `ZeroGRestart`, `zero_g_start` after a keepalive that died on a failed write
assigns to a joinable `std::thread`: `std::terminate`.

The following were seen on the way. Their properties are in the modules and are violated when
put into the configuration named (instead of its own properties, without symmetry for an action
property); they are no runs of their own.

| property | configuration | what happens |
|---|---|---|
| `NoFalseSuccess` | `CartLate.cfg` | `drop_and_absorb` withholds the budget when anything was absorbed during the call. When results may come later than `kAbsorbTtlFloor` and `move_timeout` allow for, what was absorbed may be an older request's result, and the next call returns this one's as its own. |
| `RejectedNeverRuns` | `CartLate.cfg` | an ERR of an older exchange, with the ACK late, makes a request "rejected" that the firmware runs. |
| `DeliveredOnce` | `CartSafety.cfg` | `poll_cart` may claim a token between `on_reply`'s resolving it and `wait`'s unclaiming it: both deliver the result. |
| `LoudDeath` | `CartSafety.cfg` | `wait` sleeps on the token's own condition variable; the reader's death notifies `Ack::cv` only, so the caller learns of it at the end of `move_timeout`. |
| `FreshStatus` | `AckSafety.cfg`, as PROPERTY | `get_state(refresh)` returns the cached frame when its window ends without one; the header promises an empty value. `enter_dfu`'s check that the motors are off uses it. |
| `EntryConfirmed` | `ZeroG.cfg` | `zero_g_start` may take the late ACK of an earlier `0x06` (a start that timed out, a keepalive frame, the off that nobody waits for) for the answer to its own. |
| `ConnectedMeansVetted` | `Session.cfg` | `connect_impl` writes `GET_FIRMWARE` (`arm.cpp:235`) and reads the first status (`:276`) outside any `try`. An exception there leaves `tr_`, `a_` and the reader in place; the next `connect()` finds the session open and returns without the version having been checked. The comment at `arm.cpp:283` wants no half-open session. |
| `DebtIsCovered` | `Session.cfg` | the new `CartPending` inherits the length of the old queue (`arm.cpp:228`), taken before `clear_pending`, and not the old budget: results owed for tokens that had already been cleared or timed out meet a pairing without budget. |
| `ChildCloses` | `Session.cfg` | a child forked during zero gravity and closed twice joins a thread that does not exist in it, although the repository's README (432) says that `close` in a child will not hang. |
| `JudgesOwnFrames` | `Arrival.cfg` | `wait_settled` takes its mark when the call is made: a frame generated between that and the firmware's acceptance counts as fresh (`cart.cpp:461` says that only frames generated after the command are trusted). |
| `RefusalIsTrue` | `Services.cfg` | `0x2F` is missing from `kRspOfCmd`, so nothing drops a late answer to it: `activate` may read back an older "locked" on a device that is unlocked. |
| `WholeOrNothing` | `Services.cfg` | a start whose answer is late leaves the next start to take the answer before its own; a late answer to a read of the capture before is then taken for the first read of this one: a capture that is empty, short or of other data, and success, against `log.hpp:65`. `CaptureIsWhole` says that this needs answers to both on their way when the capture begins (`crossed`). |

More remarks, without a property:

- *Session*: `start_reader` runs before `cart_` is replaced (`arm.cpp:219`), a data race when a `0x4E` comes
  at once. `close` in a child leaves the inherited descriptor open and with it the `flock`, so the port stays
  busy until the child exits, also after the parent has closed it. A version number of ten digits makes
  `std::stoi` throw `std::out_of_range`, past `connect_impl`'s handlers. `limits_` is not cleared by `close`, and
  not refreshed by `set_joint_limits` or a reset of the parameters. A second, concurrent `SerialTransport::close`
  may return before the first one has released the port.
- *Motion*: the hard cap of `arrive` may be overshot by one budget when the stream falls silent. A wait longer
  than 32768 frames turns fresh frames stale. `move_p` overshoots `move_timeout` by up to a whole round (0.1 s for a
  frame, 0.6 s for the pose, 20 ms) and looks at whatever frame is there, also one from before the
  command, and a lost answer to its pose query ends the motion's call while the arm moves. An arm that crosses the
  target slower than the tolerance for `arrive_frames` frames has arrived. A link that dies in the last instant
  reads as a timeout. `wait_settled` relies on `CART_BUSY` showing before `arrive_frames` still frames have come
  (`ArriveFrames > BusyDelay + 1`).
- *Services*: `get_joint_param` does not compare the echoed index, while
  `get_body` does. `set_payload` may write the mass and not the rest. The comments at `arm.cpp:1095` and `arm.hpp:726` speak
  of a clamp of `home`'s target by the limits, which the code does not have. `get_status_now` may report success for a
  command that was refused, as its own comment says. A second answer of `kin_bench` that is late is lost or counted
  to the next bench. The streamed set-points (`move_js`, MIT) are not checked for numbers.
- *Data races* left out of the models: `CartToken`'s fields are
  written under its `mu` but `done` is read under `CartPending::lock_` (`cart.cpp:228`) and
  `lost` and `reply` are read without a lock at the end of `wait`; `cart_` is replaced in `connect_impl` while the
  new reader thread runs (`arm.cpp:219-232`); `zero_g_start` resets `zg_error_` without `zg_err_mu_`
  (`arm.cpp:838`) while `zero_g_error` may be reading it.

## 5. The proofs

All for every value of the constants, from the `ASSUME`s of the modules, which only
say that bounds are natural numbers and that the special values are not threads,
requests, commands or ports. Two groups of theorems have a hypothesis more, written in
their statements: `Nominal`, the timing under which the pairing is meant to work;
`WindowOutlastsDelay`, that the window of still frames is longer than the firmware's delay of
`CART_BUSY`. Without them TLC violates the property (`CartLate`; `Arrival` with `ArriveFrames = 2`).

- **`CartPairing_proofs`**: `TypeCorrect`, `TokenLifeHolds`, `DeadStaysDeadHolds`.
  `DeadStaysDead` is not inductive: a dead token stays out of the lists only if
  each token is in at most one list, once, and if what `on_reply` or `clear_pending`
  took out is in neither. `TokenLife` says so, and is inductive with `TypeOK`. The
  lemmas are about sequences without repetition (`Append`, `Tail`, `Without`).
  Under `Nominal`, in the same module: `NoFalseSuccessHolds`, `NoDesyncHolds`,
  `RejectedNeverRunsHolds` and the refinement of `CartPromise` (`Refinement`), all from one
  invariant, `PairingInv`. The argument counts: the budget in force and the tokens ahead of the
  caller that waits are at least as many as the other requests whose results may still come
  (`Covered`), so a rival's result never reaches its token; and as requests, and so their results, come in the
  order of the calls (`InOrder`), its own finds no rival left. The budget may lapse because what no token
  covers is by then too old to come, for which the clocks of what is on its way are tied to the windows that
  are open (`Clocked`). `Decided`, `AnswerOnItsWay` and `AnswerTaken` do the same for ACK and ERR.
- **`AckQueues_proofs`**: `NoWakeupIsLost` (every step that makes news for a thread
  also wakes it: `Undisturbed` for the steps that make none), `CloseIsClean` (while
  the reader has not ended, the port is open unless the device has gone: `PortHeld`),
  `AnswersAreOwn` and `NothingIsStolen`. The last two share one invariant: every frame
  with an owner belongs to a current user of its command (`Owned`), and a call that is
  not muddled is the only user of its command, and all frames that could answer it
  are its own (`Separate`). `QueuesAreBounded` is `TypeOK` with its bound of `kQueueMax` entries for each queue: what
  `deliver` evicts, a caller takes or a finished call leaves only shortens one (`ShorterQueue` maps the positions that
  are left into those there were). No run has it among its properties; TLC finds it in order on `AckSafety.cfg`.
- **`ZeroGravity_proofs`**: `TypeCorrect` (with mutual exclusion under `zg_lock_`),
  `TheLastWordIsOff`, `TheGuardIsKept`, `ALossIsTold`. What a session owes - an off
  frame, a report - is owed by its thread while it is joinable and by the stop under
  way once that has joined it; `Kept` and `LastWord` say so of the frame. Of the report, `Blamed` says that an
  error stored or taken is this session's and untold, and `Told` where an untold loss can be: in `zg_error_`, in the
  hands of a stop, or dropped by a stop that was not asked to raise and that has ended its session, so that no later
  stop of that session can owe it. `OnlyStopsReturn` finds the step the action property is about.
- **`Session_proofs`**: `OneReaderToADevice`, `NoOrphanReader`, `NoPortLeaks`, `ForkIsSilent`,
  `NoStaleFacts`, `DfuIsForGood`, for any number of Arms and ports. None of the first four is inductive
  alone, and they need each other: the one reader comes from the `flock` only as long as every open
  description of a port is claimed, and a claim is given back only by the object that holds it. `SessionInv`
  adds that a session is held by its process and stamped with it, or inherited (`SessionsAreHeld`), that no
  two Arms of a process share one (`SessionsAreDistinct`), that a connect under way has its claim and
  nothing else has it (`OpensAreClaimed`, `ClaimsAreOpened`), and that before the fork the child has nothing
  (`ChildIsUnborn`). Steps that leave claims and sessions alone are one lemma (`QuietStep`); every other step has
  its own. `DfuIsFinal` (which no run checks) rests on `NoPortKept`: no close on the way into the terminal state has a
  port to open next.
- **`SerialLink_proofs`**: `NobodyIsInside` (close marks under both locks, and who comes later finds the mark)
  and `FramesAreNeverMixed`: one writer at a time is inside, what the line has of a frame is what its
  writer counted, and a writer inside is the last on the line (`LineInv`). For any number of writers and every
  stream. `AsIfInOnePassHolds`: the frames returned are those of the recursive function `Decode`. That `Decode`
  exists and unfolds (`PassExists`, `DecodeFacts`) is an induction over the stream, done without an induction
  theorem: a set of natural numbers that is not empty has a least one (`LeastOne`), and a turn looks ahead only.
  `NoFrameIsLostHolds` adds what is true when headers are dropped too: with the types of `PassInv` it is inductive,
  one lemma for the turns that return nothing (`NothingReturned`) and one for those that do (`OneMoreReturned`).
- **`Codec_proofs`**: `BurstsAreSeenHolds`, for all commands, payloads and bursts of up to eight bits, and
  `WideBurstsBeforeTheTrailerAreSeen`, for sixteen within header and payload. Two messages go through the register side by
  side. Where the first bit differs the registers differ in their lowest bit (`FirstBitShows`), since that bit is what
  falls out; registers that agree in their k lowest bits agreed in the k - 1 lowest one bit before, and in all if they agree
  in all and the bit was the same (`OneBitBack`). So equal bits keep a difference (`DifferenceStays`), and a difference less
  than sixteen bits old cannot have gone. `SealedFramesAreApart` puts the places of the burst together: in
  the body, in the trailer, over the seam between them. `RegistersAre` is what the recursive function of the registers does
  (an induction as for `Decode`); bytes and their bits are `ByteHasItsBits` and `BitsMakeTheByte`.
  `StateFrameIsReadHolds` (with `EveryByteIsReadOnce`, for payloads of any length) names for each byte the one field that
  reads it. `OlderIsAnOrder` and `OlderIsNumeric` are about the order of versions.
- **`Arrival_proofs`**: `NoFalseArrivalHolds`, `FaultIsNewsHolds`, `NotCutShortHolds`, `EndsInTimeHolds` and, if
  the window outlasts the delay, `WholeMotionHolds`. `ArrivalInv`: frames come in the order of their numbers (`Stream`), those
  behind the answer are of after the command (`Answers`), and a frame can be believed because what it tells is
  final: at the goal the motion is over; not busy and late enough to say so, over or torn away (`Truth`). At most
  one frame of before the command is ever counted (`Counted`), and in `arrive` what has elapsed and what is left of the
  budget never add up to more than the cap and one budget (`Timed`). For the others (`Rounds`, `Spent`): `wait_settled`'s
  wait never goes past its budget and the query behind it adds its own window; a round of `move_p` opens with at least
  one period left, and what has elapsed and what the wait under way may still take exceed that by no more than
  the windows of the round so far.
- **`Services_proofs`**: `TargetsAreInsideHolds`, `LimitsAreTheArmsHolds`, `ActivationIsTrueHolds`,
  `CaptureIsWholeHolds`. An answer is told from another by its command alone, so
  `ServicesInv` says what all answers of a command have in common, late ones too: a licence that was granted stays
  granted, so a "yes" on its way is true (`Heard`); while connect asks, there is one answer to its one
  question (`Connecting`). A chunk of the log has only its total and its next offset. `LogInv` says what that is
  worth, with any number of answers late or lost and any number of retries. A capture that begins with no
  answer to an earlier start on its way, or none to an earlier read (`~crossed`), waits for its own start with strays of
  one kind only (`Strays`). If they are reads, its start's answer is the last of all (`OneStart`) and nothing is
  left behind it; if they are starts, an older one may be taken, but no old read can follow. While the capture is read,
  every chunk on its way is the one at the offset asked for or names a next offset that is not beyond it, which
  the code takes for an error, however many of its own reads were repeated; and totals never fall from one chunk to
  the next (`InCapture`), so the total that ended the wait bounds all that follow. The exception is needed: without
  it TLC violates `WholeOrNothing` on `Services.cfg` in 21 steps (section 4).

## 6. What is only checked

- All liveness (`EveryCallReturns`, `Recovers`, `CallsReturn`, `CloseReturns`, `StopsEnd`, `NoLockup`): temporal
  proofs under fairness need `ENABLED`, which the prover does not have.
- `GateHolds`, what `connect` lets in, at the 162 texts it lists: the text goes through folds, and what a fold computes for every text is
  an induction over data under an operator, which no installed prover takes. Its comparison is proved (`OlderIsNumeric`).

## 7. Not modelled

- **Numbers**: floats in payloads, tolerances, rotations (`rot.cpp`), kinematics. TLC has no numbers for them;
  where control depends on one (at the target, still, inside the limits, not a number) the model has that outcome.
- **Texts and tables**: error messages, names of modes and faults, dumps, the boot banner's regular expression,
  the noise log of `FrameReader`. No property speaks of them.
- **Input and output**: termios, enumeration of ports, the file a dump writes, the Windows back-end where it differs.
- **`testing.cpp`** beyond the firmware it imitates: recording and scripting serve the tests. It is the source of the
  external parts of `CartPairing`, `Arrival` and `Services`.
- **Self test, CLI, examples**: sequences of calls and printing.
- Inside the modelled components: the parsing of plan results; the late ERR of the capability probe; frames sent after
  the reader's death; counters and receive statistics; negative and zero windows; in `AckQueues`, for one
  command the confusion of two concurrent users, which the code leaves to its callers; two threads that drive one
  Arm's `connect` and `close` at once, for which the code has no lock; the reset of `FrameReader`.
- **The guard of `write_cmd`** (`arm.cpp:532`) reads `zg_active_` and writes later;
  nothing makes the two atomic, so an action command can reach an arm that has just
  entered zero gravity. No property is stated about it: it would only restate that. The same holds of
  `reject_if_cart_in_flight` (`arm.cpp:436`).

## 8. Plan

`ZeroGravity`: its composition with `cart_serial_`.
