# Verification of axoloty-embedded in TLA+

This directory models the firmware in `src/` (an ESP32-C6 image composed of an
application, a platform and a transport) and the host tools that compose, measure,
prove and release it, checks the models with TLC and proves the central theorems
about them with TLAPS. `PROJECT.json` maps
every definition to the source lines it stands for and lists the runs, the
mutants of the code each property must reject, the findings and the hazards.

## The system

An image runs one application on one platform over one transport.

| Component | State | Operations | Talks to |
|---|---|---|---|
| Zenoh receive queue (`zenoh_pico_queue.c`) | ring of slots, read and write index, drop and oversize flags | admit, note_oversized, poll, depth | written by zenoh-pico callbacks, read by the application's task, without a lock |
| Zenoh registry and facade (`zenoh_pico_queue.c`, `zenoh_pico_facade.c`) | session and subscription slots, generations, active and in-flight words | open, close, subscribe, unsubscribe, the callback's claim and leave | callbacks race with removal |
| Zenoh carrier (`ZenohCarrier.swift`) | phase, slot table, retained frame, poll cursor, router observation | connect, subscribe, unsubscribe, publish, poll, wait for reconnect, disconnect | calls the facade; called by the application |
| MQTT carrier (`mqtt_carrier_espidf.c`, `EmbeddedMQTTClient.swift`) | event bits, counters, subscription table, event queue, Swift lifecycle | the same calls, and the ESP-MQTT event handler | handler task races with the application's task |
| Network bootstrap (`network_bootstrap.c`) | resources built, event bits, retry count, forced and cleaning flags | prepare, reconnect_wait, cleanup, Wi-Fi and IP event handlers | event-loop task, Wi-Fi driver task |
| Sensor node (`Applications/sensor-node`) | stage, connected, failed sessions, counters | session, serve loop, back-off, restart | network bootstrap, carrier, static runtime (external) |
| Agent exchange, smoke application (`Applications/device-smoke-agent`) | exchange result, static agent | exchange of two roles, vector checks | carrier, network, static runtime |
| Application entry, capabilities, tables (`Sources/EmbeddedCapabilities`, `Interop`) | one claim word | validate, claim, run, report | platform and carrier tables |
| Carrier diagnostics, scenario, report | saturating counters, scenario step | add, snapshot, run | every task that counts |
| Composition (`Tools/validate-composition.py`, CMake) | manifests, generated files, masks | validate, emit, configure, boot check | its files are compiled into carrier, library and application |
| First-initialization diagnostic (`first_init_stack.py`) | walk over a body, walk over the call graph, report | frame walk, call walk, report | reads the linked image |
| Interval engine (`initialization_interval.py`) | abstract registers and stack words, activations, summaries | one instruction, one transfer, one summary | used by the proof command |
| Proof command (`final_init_proof.py`) | digests, workspace, output directory, serial log | check, freeze, prove, publish | the build rewrites what it reads |
| Storage audit and gate (`linked_storage_audit.py`, `static_storage_policy.py`, gate script) | parsed map, measurement, report, receipt | classify, parse, measure, join, receipt | reads the image and its map |
| Release certificate (`release.sh`, manifest writer, `validate-release-manifest.py`) | checkout, evidence, candidate, published records | build, qualify, write, validate, publish, revoke | device harnesses, operators |

What is hard in it: lock-free code shared by callbacks and one consumer; removal
that races with callbacks still running; event handlers and application calls
that share bits and tables without a lock; indices and generations of fixed
width; waits with deadlines on events that another task delivers; teardown after
a failure at any stage; state that one session leaves for the next. In the tools:
inputs that another build overwrites between two reads; a kill between two
renames; receipts, evidence and generated files that outlive what they were made
from; abstract interpretation that must cover every execution.

What makes each part correct:

- queue: no slot is shared, admitted frames arrive whole, once and in order, a
  drop is counted and reported, the depth is exact across the wrap;
- registry: a late callback is rejected, a callback writes into a freed queue only
  in the two ways the runs exhibit, a handle names one declaration, removal ends;
- Zenoh carrier: table, facade and gauge agree, nothing polled is lost, no
  subscription starves;
- MQTT carrier: a confirmed topic stays requested across reconnects, a dropped
  message is reported, no client leaks;
- network: nothing is left behind but a driver that refused to go, handlers never
  outlive what they use, a broken link is repaired or reported;
- sensor node: it always serves again, and restarts only when outages explain it;
- the static analyses: a reported frame, call graph or bound covers every run of
  the machine code, or the analysis refuses;
- proof command, gate and release: a receipt or certificate that stands is true of
  one build, whatever was rebuilt, rerun, edited or killed;
- composition: every part of an image is compiled from the same bounds, and an
  image that runs calls only functions its tables hold.

## Modules

| Module | Models | Form |
|---|---|---|
| `BoundedFifo` | what a receive queue promises: a bounded first-in first-out buffer that may drop | abstract specification |
| `ZenohQueue` | the lock-free ring, one action per atomic access, any number of producers | implements `BoundedFifo` |
| `ModularArithmetic` | lemmas about `%` used by the proofs | lemmas |
| `ZenohQueueProofs` | theorems about `ZenohQueue` | proofs |
| `ZenohRegistryProofs`, `ZenohCarrierProofs`, `MqttCarrierProofs`, `NetworkBootstrapProofs`, `SensorNodeProofs` | theorems about the module of that name | proofs |
| `HostToolProofs` | theorems about `DiagnosticReport`, `FirstEpoch`, `InitProof`, `Composition`, `ReleaseManifest`, `FrameWalk`, `CallWalk` and the gate of `StorageAudit` | proofs |
| `ZenohRegistry` | sessions, subscriptions, handles, callback claims and removal | state machine |
| `ZenohCarrier` | the Swift carrier over queues in the form of `BoundedFifo` | state machine |
| `MqttCarrier` | the MQTT event handler and the carrier calls | state machine |
| `NetworkBootstrap` | bring-up, forced reconnect, teardown and the handlers | state machine |
| `SensorNode` | the session loop and the restart | state machine |
| `FrameWalk` | the stack walk over one function body, beside the executing machine | state machine with a reference execution |
| `CallWalk` | the walk over the call graph with `swift_once` callbacks | state machine against a reachability definition |
| `DiagnosticReport` | the diagnostic command and its output path | state machine |
| `IntervalEngine` | the abstract interpreter and its three proofs, beside the executing machine | state machine with a reference execution |
| `InitProof` | the final proof command under kills and rebuilds | state machine |
| `FirstEpoch` | the selection of the first boot from a serial log | state machine |
| `StorageAudit` | policy, map parser, measurement, inventory join, gate | state machine against the placed bytes |
| `ReleaseManifest` | release script, evidence, manifest writer, validator | state machine |
| `Composition` | the tool run twice by CMake, the masks, the boot check | state machine |
| `MC*` | instances for TLC; `MCTools` runs one host tool per behaviour | |

### ZenohQueue

`slot`, `write_index`, `read_index`, the drop and oversize counters and flags are
the fields of `ZenohPicoQueue`. A producer is one running callback, with a
program counter and the values it has read; the consumer is the polling task.
`LoadWrite`, `CheckFull`, `ClaimPosition`/`LosePosition`, `CopyKey`,
`CopyPayload` and `Publish` are the atomic steps of `zenoh_pico_queue_admit`;
`CheckHead`, `CopyOut`, `Unpublish`, `Advance`, `TakeFull` and `TakeOversized`
those of `zenoh_pico_queue_poll`. Indices count modulo `Modulus`, which stands
for 2^32 and is only assumed to be a multiple of the capacity. A frame is a
number; its key and its payload are copied in two steps, so that a torn frame is
visible. Histories record which frames were offered, admitted and delivered, and
how many drops and oversized frames the application has been told of
(`told_full`, `told_oversized`), so that each drop is known to be told or still
flagged (`ReportsBacked`).

### ZenohRegistry

A queue is named by the number of its reservation, so a freed queue, its
successor in the same slot and the next queue in the same memory (`block`) all
differ. `Subscribe` is `axoloty_zenoh_subscribe`; `Unsubscribe` and `CloseSession`
start a removal whose steps (`Deactivate`, `Release`, `Spin`, `Free`) interleave with
the callbacks' steps (`Enter`, the two checks of the claim, `Copy`, `Leave`).

The undeclare changes nothing: zenoh-pico has no way to wait for callbacks
(`docs/zenoh-embedded.md:219-224`), so one that runs goes on and `Dispatch` may
start one afterwards, with the address of a queue that is freed or that is another
queue by then. `Enter` reads what that memory holds: the old identity, the one of
the queue that lives there now (`Holder`), or anything else, which is taken to
match no slot. The drain (`Spin`) makes `SpinLimit` loads, the code's 10000, and
frees the queue after the last one whatever it read. The histories `abandoned`
(queues freed that way) and `overtaken` (queues of a slot that was reserved again
over a claim still counted) name the two ways in which a callback gets to copy into
a freed queue. `HandleGens` is how many generations a handle can carry; `in_flight`
wraps like the `uint32_t` it is.

### ZenohCarrier

The carrier's stored properties are variables; the facade is the external
`declared`, `inbox`, `full`, `big`. A poll is one `PollStart` and one step per
visited slot, so samples arrive in between. `waitForReconnect` is one step per
observation. A call that fails before it changes anything is not an action.

### MqttCarrier

Each atomic access and each critical section of `network_mqtt_event` and of the
synchronous calls is one action. The library's connection and the broker are
external: requests of one connection are handled in order and forgotten with it,
and an acknowledgement names no topic, as in the code. Waits may time out at any
moment; `sendFails`, fixed at the start, says whether a request may fail on a
live connection.

### NetworkBootstrap

`built` is what exists, in the order prepare creates it, and `known` what the
code's flags and pointers say: the cleanup undoes what is known, each resource
under its own flag, so a stage noted late would leak. A failing `esp_wifi_deinit`
leaves the driver with its requests (`leaked`) while its flag is cleared
(`network_bootstrap.c:264-271`); a later prepare takes that driver over. The
handlers run in the event loop's task in two steps, what they decide from the flags
(`Dispatch`) and what they then do (`HandlerActs`), so that the application's task
can store a flag in between. A connect may be refused, and the handler does not
look (`network_bootstrap.c:86`, `:92`); `refused` remembers it. The Wi-Fi driver
takes requests in order and posts events; `timely`, fixed at the start, says that
it reports within the teardown's budget. Deadlines are timeouts that may fire at
any moment. A prepare is one step up to its wait: what its calls post arrives after it.

### SensorNode

`stage` is the `SensorNodeStage` with the back-off, the teardown and the restart.
The network, the carrier and the runtime keep what later sessions can notice:
whether the object is announced, whether the carrier is idle, whether the will is
installed. `kind` is the carrier of the image: only MQTT has a last will, and only
MQTT is `Sticky`: a disconnect that fails leaves the Swift client connected (see
"Other disagreements").

### FrameWalk, CallWalk and DiagnosticReport

An instruction is what `stack_step` and `successors` tell apart: its change of
the stack pointer, its kind and its target. `FrameFollow`, `FrameSkip` and
`FrameUnreadable` are the outcomes of one iteration of `analyze_frame`; `exec` is
the machine, which runs the same body with every branch open. `CallVisit`,
`CallSeen` and `CallRecursive` are the outcomes of one iteration of `analyze`,
over a work list whose items carry the path and the callback context.
`DiagnosticReport` has one action per step of `main` that can touch a file; the
output may be absent, a file, an alias of an input or unremovable.

### IntervalEngine

A value is a set of at most `MaxFacts` words or top; a state maps registers and
stack words to values. `VisitPlain`, `VisitTransfer`, `VisitCallee`, `VisitCut`
and `VisitRefused` are the branches of the engine's loop, `CalleeDone` and
`AnalysisRefused` its end, `NextJob` and `IntervalProven` the order of `prove`:
callers, hook, interval. Recursion of the Python method is the stack `active` of
activations. The machine runs the same image from any input; the bound must
cover the deepest stack it reaches between the trace calls.

A call of `memcpy` has a data effect (`initialization_interval.py:392-408`): when
destination, source and length are each one known word, the facts about the source
move to the destination and the destination's old ones go (`Copied`); when one is
unknown, only the saved registers' words keep theirs; a known length beyond
`CopyLimit` changes nothing, as in the code.

### InitProof and FirstEpoch

An artifact is the number of the build that wrote it and a digest is that
number. Each action is one read, check, write, rename or removal of
`final_init_proof.py`; `Rebuild` may overwrite an artifact and `Kill` may end the
command before any of them, and `Raise` is an exception at any of them. `out`
remembers which command published each file. The evidence documents are constant:
the command reads them again at lines 552, 607 and 616-622, after it validated
them at 521-542, and an edit of theirs in between is not modelled, so
`ReceiptBinds` speaks of the build's artifacts. `FirstEpoch` reads a log one line
at a time; a line is one of eight kinds.

### StorageAudit

A link is its ELF sections, symbols and placed rows. The map is a sequence of
lines of the kinds the auditor's regular expressions distinguish, printed on one
line or on two and possibly with a line lost, repeated, moved or cut. The parser
takes one line per step; `Measure`, `JoinInventory` and `WriteReport` follow it.

### ReleaseManifest

A hash is the value it stands for. `Commit`, `DeviceRun`, `Revoke` and `HandEdit`
may happen between any two steps of the script. `Manifest` is the writer's
document; `Said` is the validator's verdict as a conjunction of one operator per
section of `validate`. `device` records what really happened on the boards.

### Composition

`Catalog`, `StructFields` and `CheckedFields` are the three orders in which the
repository writes the same functions. CMake runs the tool once for the main
component and once for zenoh-pico, in either order; each writes its files one by
one and may be killed or see another tree in between.

## Runs

Passing runs:

| Run | Instance | Shows |
|---|---|---|
| `queue_two_producers` | 2 callbacks, 2 slots, indices that wrap, 3 frames of every size | exclusive slots, order, exact depth, accounting, the refinement of `BoundedFifo`, and that frames and notifications reach the application |
| `registry_reuse` | a session of 2 slots opened again and again, 2 reservations, 2 callbacks, 2 memory blocks, a drain of one load, no waiting undeclare | a copy into a freed queue has one of two causes, late callbacks are rejected, handles identify, removal ends |
| `carrier` | 3 keys, 2 slots, queues of 2, 3 declarations, 3 samples, 2 losses | table, facade and gauge agree, nothing polled is lost, nobody starves |
| `mqtt_reconnect` | 2 topics, 3 connections, 4 calls | subscriptions survive reconnects at every step |
| `mqtt_events` | 2 messages over a queue of 1, requests and teardown that fail, 2 connections | overflow is reported, confirmed topics are subscribed again |
| `network` | 2 sessions, 2 retries, 4 losses, 2 forced reconnects, refused connects, failing deinitializations, a driver that reports in time or not | each resource goes under its own flag and only a driver that refused is left, safe handlers, honest result, no silent stall, teardown ends by its reports |
| `node` | both carriers, 3 failed sessions to a restart, outages and faults | restarts are explained, the node always serves again |
| `host_tools` | each behaviour runs one host tool: all bodies of 4 instructions from a pool, call graphs of 6 functions, 2601 hook bodies, 160 that copy through `memcpy`, and 6 interval entries, 2 proof commands with 3 rebuilds, logs of 5 lines, 3 links with whole and damaged maps over 2 gates, 2 commits with 2 device runs and an edit, 2 configure steps with a tree saved in between | a frame, a call survey and a bound cover every execution; a receipt binds one build and an accepted set is whole; the epoch is the first boot; the diagnostic's destination is honest; measurement and join are exact; gate receipts are true; a valid certificate is qualified; declared calls are safe and an image's bounds agree |

Runs that violate a statement of the repository (each with a finding in
`PROJECT.json`):

- `queue_stale_full_check`: with two callbacks a frame is dropped as queue-full
  from a queue that is not full, because the write index is older than the read
  index it is compared with;
- `registry_drain_gives_up`: a callback copies into a freed queue, because the
  drain has made its last load while the callback was between its claim and its
  copy. The source says that the spin "ends when the last in-flight callback
  returns" (`zenoh_pico_queue.c:21-22`) and that "the ones already copying are waited
  for" (`zenoh_pico_facade.c:134`); 10000 loads are no bound on a task that was
  preempted. The trace has 3 loads and is the same with any number;
- `registry_slot_reuse`: a callback can copy into a freed queue the drain had not
  given up on, with a drain of any length, because its slot was reserved again
  between the two loads of its second check (against `zenoh_pico_queue.h:125`);
- `interval_ambiguous_store`: a store through an address with two possible stack
  words leaves the old facts of both in place. Here one of the two words holds a
  function pointer: the image overwrites it, loads it back and calls it, and the
  machine enters a function the engine never walked or charged
  (`initialization_interval.py:441`, against the rule of its line 7).

Other disagreements the models or their translation met, without a run:

- `EmbeddedMQTTClient.swift:119` returns before it stores `.disconnected` when the
  C call reports an error, although `mqtt_carrier_espidf.c:434-443` destroyed the
  client; later sessions are refused until a restart (`Sticky` in `SensorNode`);
- `final_init_proof.py:549-550` says that receipt and manifest are published last;
  line 631 publishes in sorted order, so other files follow the receipt. The
  manifest still follows it and completes the set, which is what
  `AcceptedSetWhole` needs;
- `docs/releases.md` says that a preview is never a compatibility claim; a preview
  manifest whose qualification says "qualified" is accepted;
- the validator accepts an MQTT manifest that cites the JSON lock of Zenoh, and
  does not compare the component of a JSON lock, nor the firmware revision of
  records for the released artifact;
- `release.sh` reads VERSION when it starts and the writer reads it again; a copy
  killed half-way leaves a record that blocks the version;
- the comment in zenoh-pico's `CMakeLists.txt:99-101` that the bounds "cannot
  disagree" holds unless `app.json` is saved between the two invocations
  (`ImageBoundsAgree` excludes that case).

Four more behaviours the models reach, listed as hazards or noted here:
`HandlesIdentify` fails once a slot has been reserved `HandleGens` times (2^27 with
32-bit pointers); a connect that the driver refuses, or a driver left over by a
failed deinitialization, stalls the network without a report (`NoSilentStall`
excludes both); the Zenoh carrier stays in the phase
`subscribed`, which `publish` tests, after its last subscription is removed; and
an address event queued before a forced disconnect is taken for the new address
by `reconnect_wait`.

### Bounds

The bounds are the smallest at which the interesting cases happen: two producers
for every race of the compare-and-swap; a ring of two slots that is full and
wraps within four frames, with the index one step from its own wrap; a slot
reserved again, and a block of memory allocated again, while callbacks of the
first use run, and a drain of one load, which both sees claims and gives up on
them; one table
smaller than the keys; one more loss than retries; as many faults as failed
sessions to a restart. For the tools: bodies long enough for a loop that moves the
stack and an exit behind it; a cycle through a callback and a second context of
the same function; a rebuild before, between and after the digests; a map with
every record whole, split or damaged; a rerun that fails after a pass and a
commit after both. `ExecDepth` bounds the stack pointer of the executing
machine; `DepthLimit` and `MaxFacts` are the engine's own limits, made small.
The registry's runs have one session; several are covered by its proofs. Counters
that grow with each call are bounded by named constants (`MaxFrames`, `MaxReserves`, `MaxDeclares`, `MaxConnects`, `MaxCalls`,
`MaxSessions`, `MaxLosses`, `MaxForced`, `MaxReadings`, `MaxOutages`,
`MaxFaults`, `MaxCommands`, `MaxRebuilds`, `MaxLines`, `MaxGates`, `MaxCommits`,
`MaxRuns`, `MaxEdits`, `MaxConfigures`). Symmetry is used for callbacks, keys and topics in runs without
liveness. Deadlock is not checked in `NetworkBootstrap` and `SensorNode`,
where the system stops when its bounds are used up, nor in `MCTools`, where a
tool ends.

### Fairness

- queue: every callback that runs returns, and the application polls again and
  again with the buffer the carriers use, which holds any admitted frame
  (`SensorNodeSession`'s loop and the exchange poll without end): strong fairness
  of `PollStart("full")`, because polls with a smaller buffer may come in between;
- registry: the removal's task and running callbacks are scheduled;
- MQTT: the handler runs, the broker answers on a connection that lasts;
- network: FreeRTOS runs ready tasks, the driver takes requests; no fairness is
  assumed of the access point;
- sensor node: its task runs, a poll or publish notices an outage, and outages
  end; faults are finitely many;
- host tools: none; their properties are invariants.

## Proofs

### Queue

`ZenohQueueProofs` proves, for any set of producers, any capacity, any number of
frames and any modulus that is a multiple of the capacity:

- `TypeCorrect`, `AlwaysAccounted`, `AlwaysReported`: types, accounting of frames
  and of notifications, each by a direct induction;
- `Inductive`: the invariant `IInv`, from which follow
- `AlwaysExclusive` (`SlotExclusive`), `AlwaysInOrder` (`DeliveredInOrder`),
  `AlwaysDepthExact` (`DepthExact`);
- `ImplementsFifo`: `Spec => LossyFifo`, the refinement of `BoundedFifo`.

None of the last four is inductive. The code keeps its indices modulo 2^32, so
`IInv` relates them to unbounded positions: `WindowInv` says that the positions
claimed and not consumed form a window of at most `Capacity` whose ends are the
indices modulo `Modulus`; `ProducerInv` that each producer past its claim owns a
position in the window; `SlotInv` that the slot of a position in the window is
either being filled by its owner or holds the frame admitted at that position;
`ConsumerInv` that the consumer's copy is the head of the window; `PrefixInv`
that what was delivered is a prefix of what was admitted. The arithmetic fact
behind it, that positions less than `Capacity` apart have different slots and
that the modular difference of the indices is the size of the window, is proved
once in `ModularArithmetic` and cited by name. The full check may use a stale
write index; `IInv` covers that case because the compare-and-swap then fails, so
the proofs do not contradict the `queue_stale_full_check` finding: safety holds,
only a frame is dropped needlessly.

The assumptions are those of the constants in `ZenohQueue`
(`Modulus % Capacity = 0` holds in the code because the capacity is a power of
two).

### Registry

`ZenohRegistryProofs`, for any sessions, slots, callbacks, memory, index width,
drain length and number of subscriptions, with an undeclare that waits for nobody.
`RegistryInv` has five parts: the types; `Placed` (a slot and the allocated queue in
it name each other, and its session is open); `Generations` (a queue that left its
slot carries an earlier generation than the slot); `Removals` (a removal is of an
occupied slot, inactive from the drain on); `Contexts` (a running callback was
dispatched to a reserved queue, and past its entry it is one of a reserved queue).

- `TypeCorrect`;
- `LateRejectedHolds` (`LateRejected`): a callback dispatched after its declaration
  was deactivated never copies under it, whatever is reserved in the meantime.
  `LateInv` adds how far such a callback can get: past the first check only when
  its slot is at another generation, and then it loses the second. It rests on
  `Aged`: a slot never returns to an earlier generation and is not activated twice
  under the same one;
- `CopyExplainedHolds` (`CopyExplained`): a callback copies into a freed queue only if
  the drain gave up on that queue or its slot was reserved again over a claim. The
  two exceptions are those of the violated runs, so the theorem says that there is
  no third. `Handshake` adds: a slot's in-flight count is the number of claims in it
  unless it was reserved over one (`CountsRight`), a claim past the second load of
  the generation is of the slot's last queue (`ClaimsCurrent`), and a copier's queue
  is in its slot and not about to be freed (`CopiersPlaced`);
- `HandlesIdentifyHolds` (`HandlesIdentify`) assumes `MaxReserves < HandleGens`:
  a handle has 27 bits for the generation on the device, so after that many
  reservations an old handle may name a new subscription, and the theorem says that
  nothing else can confuse them.

### Carriers

`ZenohCarrierProofs`, for any number of slots, keys and frames: `PollInv` adds to
the types `TableInv` (each declaration in one slot, each key in at most one, the
gauge is their number), `Queued` (what waits is in the order of arrival),
`Polled` (what was taken is older than what waits, the retained frame is younger
than what was delivered) and `RoundRobin`: with `Ahead(i)` the number of steps
until the cursor visits slot `i`, a declaration that was served while another one
waits is visited after it. The last is what makes `NobodyStarves` inductive.
Theorems: `TypeCorrect`, `TableMatchesFacadeHolds`, `PolledNeverLostHolds`,
`NobodyStarvesHolds`.

`MqttCarrierProofs`, for any topics, capacities, connections and calls:
`CarrierInv` is the types, `Lifecycle` (which call can run in which state of the
client), `Connection` (what the handler's step says of the link and the bits),
`Table` (no topic twice, the confirmed topics are in it) and `Covered` (each
topic owed to the application was asked for on this connection, or the handler
still has it to ask for). Theorems: `TypeCorrect`, `OverflowReportedHolds`, and,
for behaviours in which the library takes requests on a live connection
(`~sendFails`, fixed in each behaviour), `ConfirmedCoveredHolds` and
`ReadyMeansRestoredHolds`. With `sendFails` the handler ignores the failed request
by design, and the two are not promised.

### Network and sensor node

`NetworkBootstrapProofs`, for any retry limit and any number of sessions, losses
and forced reconnects, refused connects and failing deinitializations included:
`NetInv` is the types, `Layout` with `Noted` (every flag and pointer agrees with what
exists at each step, but for a left-over driver, and what runs has what it needs),
`StopIsLast` (the stop is the driver's last request, and once it is
reported the radio is off; while no driver is left over), `Verdict` (what a
successful cleanup has seen) and `Repairing` (what is under way while a link is
down). Theorems: `TypeCorrect`, `DownIsCleanHolds`, `HandlerNeedsGroupHolds`,
`CompleteMeansStoppedHolds`, `NoSilentStallHolds`. `DownIsCleanHolds` is `Noted` carried
through prepare and cleanup: that each resource is gone follows from its own flag
having been set when the resource was built, for every stage at which bring-up may
stop and for one cleanup or two.

`SensorNodeProofs`, for any limit: `NodeInv` is the types, `Session`, `Released`
(a carrier that close releases is open only inside the session that opened it)
and `Blamed` (each failure counted is a session that met an outage or a fault).
Theorems: `TypeCorrect`, `RestartMeansOutageHolds`. The property is about the
carriers that close releases (`~Sticky`).

### Host tools

`HostToolProofs`, each by its own invariant:

- `DestinationHonestHolds`: `DiagInv` says what the command has checked and
  removed at each step;
- `EpochIsFirstBootHolds`, for logs of every length: `EpochInv` relates the lines
  scanned so far to the banners and completions among them;
- `ReceiptBindsHolds`, `AcceptedSetWholeHolds`: `ProofInv` says which files of the
  output directory are this command's, which digests the command has compared,
  and what is still in its scratch directory;
- `ImageBoundsAgreeHolds`: `FromThisTree` says that, while nobody edited, every
  file written in this configure step holds the bounds of the tree, and that the
  first tool found these below the ceilings;
- `DeclaredCallsSafeHolds`: `MasksExact` and `BootedAccepted` carry the masks and
  the boot check from the tool to the image, and `OrderAgrees` is the fact about
  the two tables of the source: the catalog flattened in its written order is the
  list of fields in the order of the header's indices. `FlattenSeq` is a
  recursive function; `FlattenPieces` shows what it returns on consecutive pieces
  by taking the least index at which it could differ;
- `ValidMeansQualifiedHolds`: `Grounds` says what the validator's inputs are worth:
  `EvidenceBacked` (a device record stems from a run of its board), `LastKept` (what
  a board said last is among the records, beside an older pass or in its place,
  which is what `writeEvidenceRecord` is careful about), `Manifests` (no edit by
  hand changes the measured metrics) and `Versions` (only published certificates
  are revoked). From these, records that satisfy a check are distinct boards whose
  last run passed (`RecordsAreBoards`). `ReleaseAssumption`: finitely many boards,
  and a required number of units is a natural number;
- `FrameCoversExecutionHolds`, for bodies of every length: `FrameInv` relates the
  walk and the machine. `Walked` says that every address seen at a depth was read
  and that its successors, at the depth after it, are seen or pending (`Explored`);
  `Paths` that the path of a pending visit was seen but for the visit itself, so
  that a loop cut there is covered; `Rooted` that the entry is among them and that
  nothing is pending at the end. A finished walk without issues is then a set of
  addresses and depths closed under execution, and `Executed` keeps the machine
  within it. `FrameAssumption`: a body is a non-empty sequence of decoded
  instructions (`analyze_frame` returns at once for a function without any);
- `RecursionReportedHolds`, `ReachSurveyedHolds`, for every program: `CallInv` says
  that the lists hold what the nodes seen show (`Recorded`), that every pending
  entry is reachable and lies beyond each function on its path (`Found`), that
  deeper entries come later (`Sorted`), and that a walk without recursion so far is
  a depth-first search (`Searched`): some path of nodes leads to the next entry,
  and every other node seen is done. The done nodes are closed under calls and
  grounded, each set of them has one that leads out of it; at the end all nodes
  seen are done, so they are what the hook reaches and none lies beyond itself. The
  path is stated to exist because the walk keeps the names of its functions and
  not their callbacks. The reference, reachability, is a fixed point in as many rounds as
  there are nodes: a round that adds nothing comes earlier, because each one before
  it adds a node (`GrowStable`, `ReachClosed`). `CallAssumption`: the linked
  functions are finitely many and the entry, the hook and `swift_once` are among
  them, and a function's sites are a sequence;
- `ReceiptTrueHolds`: `AuditProgress` says that a running gate has cleared the files
  of the one before, and that it is about to write its receipt only beside a passed
  report of this very build. The theorem is about the gate: it takes
  `MeasurementExact` as a hypothesis, which the run `host_tools` checks.

The invariants of these proofs were model-checked on the instances of the runs
before they were proved, but for the path that `Searched` says exists. No theorem
assumes anything of the constants beyond the named assumptions of the modules and
the hypotheses stated above: `MaxReserves < HandleGens` in `HandlesIdentifyHolds`,
`~sendFails` in two theorems about MQTT, and `MeasurementExact` in
`ReceiptTrueHolds`.

### Only model-checked

- Liveness under fairness (`EventuallyDelivered`, `RemovalEnds`, `Resubscribed`,
  `TeardownReturns`, `Recovers`): outside the prover's reach.
- `BoundCoversExecution`: the engine's states are maps of sets of words joined and
  transferred by folds over registers and stack words, an induction over the data.
- `MeasurementExact`, `JoinExact`: sums over the sorted rows and symbols of an
  image, computed by folds over a sort the provers see nothing of.
- `CopyIntoLiveQueue`, `CopyAfterDrain`, `DropOnlyWhenFull` are refuted by their runs;
  what is left of the first two is `CopyExplained`, which is proved.

## Not modelled

The static runtime, the wire codecs and zenoh-pico are external and appear as
their callers use them. Byte contents, encodings, JSON lines, metrics and log
output are abstracted. Deadlines are not clocked, so nothing is said about how
long a call takes; the keep-alive interval of the Zenoh carrier is left out for
the same reason.

Of the host tools: reading ELF files, disassembly and JSON is a step that
succeeds or refuses; the checks of a single field's form are one Boolean; the
self-tests inside the tools and the test scripts are not code of the system. The
interval engine's refinement of a comparison of two
registers, the classification of initializer guards, anonymous code ranges and
the convergence limit are left out: each either refuses or narrows a value that
the model keeps wide. So is the second routine with a fixed summary, at
0x400004a8, which has no data effect. No image passes the address of a stack word
to a function other than `memcpy` that writes through it: the engine keeps its
facts across such a call, and nothing is said about it. `--app-manifest` of the composition tool, the
closed list of old release certificates and the text report of the diagnostic
are left out.

The agent exchange, the smoke application, the carrier scenario, the probes, the
diagnostics counters, the application entry's single claim and the macro remain
unmodelled; `PROJECT.json` gives the reason for each.

## Plan

1. Proofs: `MeasurementExact` and `JoinExact` of `StorageAudit`, which need lemmas
   about the sweep over rows in address order; `ReceiptTrueHolds` then holds of the
   gate alone.
2. `AgentExchange`: both roles, the scenarios, the retry of the encoded
   Advertise, the unwinding of `installDeviceAgentProfileInterest`.
3. `CarrierDiagnostics`: saturating counters under contention.
4. `ApplicationEntry`: the claim, the heap-trace statuses and the budget order of
   the generated entry.
5. `NodeOverMqtt`: the sensor node composed with the MQTT carrier's lifecycle in
   place of `Sticky`.
