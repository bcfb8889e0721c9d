# TLA+ specifications of taptap

taptap listens on the RS-485 bus between a Tigo controller and its gateways
(TAPs) and turns what it overhears into power reports.  It never transmits; it
has no say in what it hears, when, or whether it hears all of it.  Nearly
everything that is hard about it follows from that: every component must stay
right, or become right again, when bytes, frames and whole exchanges go missing.

This directory holds TLA+ models of the program's own logic, the TLC
configurations that check them, and TLAPS proofs of what matters most.  Paths
below are relative to the repository's `src/` (`receive.rs` without more is
`gateway/link/receive.rs`).  `PROJECT.json` maps every definition to the lines
it stands for, and lists the hazards with the properties that cover them.

## The system

Bytes flow one way through a stack of sinks; each layer calls the next one from
its own handler, on one thread:

    Source::read (main.rs)           reconnects, reads bytes
      -> link::Receiver              bytes -> frames
        -> transport::Receiver       frames -> slot counters, packets, command pairs
          -> application::Receiver   packets and commands -> reports, node table pages
            -> Observer              what is known, saved to a file, printed as events

| component | state it keeps | operations | what makes it correct |
|---|---|---|---|
| reconnecting source, `main.rs` | the connection, the retry counter, when it last received | open, read, time out, close, sleep, give up | it always comes back to a peer that talks; it gives up when told to; it notices silence |
| link receiver, `receive.rs` | state, buffer, counters | `push_u8`, `reset_counters` | it finds the start of frames again after any noise; it delivers what was sent or nothing |
| link encoding, `gateway/link.rs`, `escaping.rs`, `crc.rs` | none | encode, escape, checksum | decoding undoes encoding; alterations are noticed |
| transport receiver, `gateway/transport/receiver.rs` | per gateway the last packet number, the last command number, requests that await a response; counters | `frame`, by kind of frame | packet numbers are completed rightly; a response is paired with its own request |
| application receiver, `pv/application/receiver.rs` | counters | packet received, command executed; the rest is forwarded | commands are parsed as what they are; calls keep their order |
| packets, `pv/network.rs` | the rest of the bytes | next packet | no packet lost or invented |
| node table builder, `observer/node_table.rs` | the next address expected, the table so far | `push` | never a table with a hole; a whole read is a whole table |
| observer, `observer.rs` | persistent state, enumeration under way, builders, captured slot counters, clocks | one handler per event, write of the state | the file is never half a state; it is up to date |
| slot clock, `observer/slot_clock.rs` | a table of times, the index and time set last | new, set, get | the time of a slot is when it was |
| barcodes, `barcode.rs` | none | format, parse | what is written is read back; a mistyped digit is noticed |
| captures, `capture.rs` | none | write, read the next record | what is read is what was written, up to where a capture is cut off |
| addresses, statuses, slot counters, measurements: `gateway/link/address.rs`, `gateway/transport.rs`, `pv/link/slot_counter.rs`, `pv/application/power_report.rs`, `observer/event.rs` | none | conversions | a field that is left out moves no other; counters subtract over the wrap |

What is hard here:

* **missed frames.**  Any subset of the frames can be missing, and the
  controller does not know or care: it retries when the *gateway* missed
  something.  A request the observer missed with a response it heard is the case
  that no test of the repository constructs, and where pairing, node tables and
  timestamps all go wrong if they go wrong.
* **long sequences.**  Sequence numbers, packet numbers and slot counters wrap;
  stale entries under a reused key only bite a wrap later.
* **stale state.**  The receivers live on through a reconnect (`main.rs:216`), in
  the middle of whatever they were doing.
* **enumerations.**  The controller gives its gateways new ids, and what the
  observer knows is right only if it heard how; it can be started in the middle
  of that, and must not take a temporary id for one that stays.
* **crashes and failures** between any two calls to the file system.
* **silence.**  Blocking reads on a line that says nothing.

There are no threads, locks or asynchronous callbacks in the program, so no
interleaving of its own steps: the actors that interleave are the controller,
the gateways, the line, the clock and the process being stopped.

## Modules

`Foo` is the model, `MCFoo` makes an instance for TLC where one is needed,
`FooProofs` holds the theorems (`InputProofs` those of the link layer and of `Source`,
`EnumerationProofs` those of `Observer` too, `PipelineProofs` those of `Receivers`,
`ConversionsProofs` those of `ReportTimes`); `SequenceProofs` has the lemmas on
sequences and loops that several of them need.  Definitions marked external in their comments
stand for what is not in the repository (controller, gateways, the line), taken
from how the code uses it.

| module | models | composed with |
|---|---|---|
| `LinkReceiver` | the state machine `push_u8` as one action per state, buffer, counters, frames delivered | |
| `LinkLine` | `Frame::encode` with escaping as a transmitter, and a line that alters, loses and adds bytes | extends `LinkReceiver`; implements `LossyLink` |
| `LossyLink` | abstract: what the link layer promises | |
| `TransportReceiver` | every handler of `Receiver::frame`, with early returns, counters and the calls to the sink in order | |
| `PacketPolls` | a controller that polls its gateways for packets, requests and responses missed by anyone | extends `TransportReceiver` |
| `CommandExchange` | a controller and gateways that send, lose, retry and replay commands | extends `TransportReceiver` |
| `Application` | the application receiver as a function of the calls it gets | extends `TransportReceiver` |
| `Receivers` | both receivers on any stream of frames | extends `Application` |
| `NodeTable` | `NodeTableBuilder::push` as operators | |
| `NodeTableReader` | a controller reading a node table page by page, pages missed, repeated, bad, and reads restarted | extends `NodeTable` |
| `Pipeline` | the node table read through both receivers and the builder | extends `Application`, `NodeTable`; implements `NodeTableReader` |
| `Observer` | enumerations, identities, versions, node tables; the write of the state, one action per file system call; stop and restart | extends `NodeTable`; implements `DurableState` |
| `Enumeration` | a controller that enumerates gateways, breaks that off and begins again, frames missed, the process stopped and started | extends `Observer`; implements it |
| `DurableState` | abstract: what persistence promises | |
| `SlotClock` | `new`, `set`, `get` as operators | |
| `ReportTimes` | polls, responses and reports against a slot clock, with missed frames and a system clock that steps | extends `SlotClock` |
| `Source` | the reconnect loop against a peer that is away, silent, closing or talking | |
| `Checksum`, `Barcode`, `ReceivedPackets`, `ReceiveResponse`, `SlotCounter`, `Capture`, `LinkAddress`, `Measurement` | pure conversions, without recursive operators: a loop is a function of the number of its turns, an iterator of the number of its calls | `Conversions`, all of them on one buffer that grows by any byte |
| `Bits` | the operators `^` and `\|`, by halves | used by `Checksum`, `Barcode` |

### How state and actions correspond to the code

* **LinkReceiver**: `state`, `buffer`, `counters` are the fields of `Receiver`;
  `sink` is the history of delivered frames and `prev` the byte before.  The
  disjuncts of `Push` are the match arms of `push_u8`, in groups by state.  A
  frame is the bytes of its body, the checksum function is a constant.
* **TransportReceiver**: the three maps are the fields of the same names.
  `calls` are the calls the last frame led to, in order, and is reset with every
  frame.  A frame says of its payload whether it has the form of its kind
  (`valid`) and what it says (`body`), which is all a handler's control depends on.
* **PacketPolls**: `packetNumber` is the controller's, which goes on by the packets of
  a response that reaches it.  `passed` and `astray` are history: the packets since the
  number that was heard last, and whether it went by more than a circle of low halves.
* **Application**: the application receiver keeps no state but counters, so
  it is an operator from the transport receiver's calls to its own; `Overhear`
  is a frame on its way through both.
* **NodeTable**: `AfterPush` and `Publishes` are `push`'s effect and its return
  value.  A page with an entry whose node id is invalid (`bad`) fails after the
  entries before it were merged, as in `node_table.rs:121`.
* **Observer**: each handler that changes the persistent state begins a write,
  and no handler runs before the write has ended (one thread).  A write is
  `CreateTmp`, `WriteTmp`, `FlushTmp`, `RenameTmp`, each of which can fail, and
  `Stop` can come before any of them.  A created or part-written file is `Torn`.
  `running` and `unsaved` are history that the abstract state needs.
  `InfrastructureReport` is what is printed of a state (`persistent_state.rs:40`).
* **Enumeration**: each action of the network is one of the observer's handlers,
  or the observer missing it (`Unheard`), which costs a fault while it runs.
  That a frame which is heard is the call it leads to is `TransportReceiver`'s
  doing: it passes these frames through and keeps nothing of them.  `ids` is what
  the network is and `heard` how much of this enumeration was heard, neither of
  which a variable of the program knows.
* **Conversions**: a capture is a sequence of lengths, times and bytes, each an
  element; an address and a slot counter are the 16-bit number they are sent as.
* **ReportTimes**: a time is a number of nominal slots.  The controller's
  request, the gateway's capture of its counter and the observer's note of the
  time are one instant; the response comes later.  `error` is what the last
  timestamp was off by, which no variable of the program knows.
* **Source**: `overdue` is the comparison with `reconnect_timeout`; `conn` is
  what the next read reports.  A TCP read reports `TimedOut` only when keepalive
  probes went unanswered, since no read timeout is set (`tcp.rs:18`), and a
  serial read never does, since `Port::read` repeats it (`serialport.rs:56`).

## What the runs show

All properties have a mutant: a definition of a model changed as a plausible
bug would change the code, under which TLC finds the property violated.

**link_line** (`MCLinkLine`): two frames, up to three faults anywhere, frames
chosen to hold delimiters, escape bytes and one that is too long.
`BufferOnlyInFrame` and `DelimiterSynchronizes` are about every path into and out of
a frame and what the end delimiter 7E 08 leaves, `DeliveredFramesFit` about the sizes
at the end of one; the theorems have them for any bytes.
`IntactFrameIsDelivered`: after an end delimiter that arrived whole, an
undisturbed frame is received, so noise costs at most the frame after it.
`Synchronized` is the inner reason.  `LossyLinkSpec`: under a checksum that
tells bodies apart, what is delivered was sent, in order and at most once.

**node_table** (`MCNodeTable`): all tables over four node ids, pages of at most two
entries, three faults.  `PublishedHasNoHoles`, `BuilderHasNoHoles`,
`WholeReadIsPublished`, and under fairness `TableIsLearned`.  `WholeReadIsPublished` is of
reads that find the builder new, not of those that follow a read whose last page was
missed; it says too that the last page of any read that is handed over leaves the builder
new, so that no more than the read after a missed end is lost.  Four ids with
pages of two give reads of up to three pages, so that one in the middle can be
missed; three faults let one read go wrong in different ways.

**receivers** (`MCApplication`): one of two lines.  On the first, any three frames of any
kind, valid or not, in either direction, go through both receivers.  `ClockBeforeReports`
is the order of calls the slot clock depends on.
On the second a controller polls a gateway: eight requests and responses for packets, each of
which may be missed by the receiver, by whom it is meant for, or both; up to two packets in a
response, packet numbers of two by three halves, from any number on.  `NumbersAreKept`:
the number kept is the controller's, up to the packets that arrived since, although most
responses give half of it and the requests they are completed with may be old.  The
exception is a whole circle of low halves (256 packets) that goes by unheard, and ends with
the next whole number; on the first line, where any number can come, nothing is claimed of
it.  It is sharp: an exception for more than a circle only is too small.

**command_exchange** (`MCCommandExchange`): two gateways (one being
`GatewayID::ZERO`), two sequence numbers, three commands, three losses: the third
command reuses the first one's number.  `ExecutionsWereRequested`,
`ReportsArePaired`, `HeardIsPaired`.

**pipeline** (`MCPipeline`): a node table read in pages of one entry, other
commands in between to the same and to another gateway, four commands each
with two sequence numbers, two losses.  `ReaderIsImplemented`: what the builder
is handed is what `NodeTableReader` allows, so what is checked of that module
holds of the pipeline; *unless* a response is heard whose request was missed.
That exception is sharp: without it the property fails, because a page is filed
under the start address of an older request with the same sequence number
(`pv/application/receiver.rs:92` does not compare the start address in the
response).  `PublishedAtTheEnd` holds even then.

**observer** (`MCEnumeration`): one gateway, two temporary ids to enumerate from
and two ids to be given, so that an enumeration can be begun anew elsewhere and
a gateway moved within one; any two of: a fault (a frame missed, a stop, an
enumeration broken off), a failing file system call, a node table read.
`HeardEnumerationIsLearned`: an enumeration heard from any one of its starts to
its end is what is reported afterwards, whatever was open or known before.
`NothingIsLearnedHalfway`: until its end it changes nothing that is known.
`NetworkIsLearned`, under fairness: whatever was missed, whenever the process was
restarted, in the end the file holds the network.  It says so of states
between enumerations, when the observer has come to rest, and it is about the
*file*, so it holds for the next process too.
The same run checks the file: `WritesAtomically`, `StateIsSaved`, `DurableSpec`.

**report_times** (`MCReportTimes`): a counter of two epochs of four slots, four
entries of the clock, all polls at most `MaxGap` apart, two faults of any kind,
faults early enough to see two more wraps.  `FaultlessReportsAreExact` holds with polls up to a wrap less one
entry apart and measurements that old, and with neither a slot more.
A restart of the program,
in a poll or between two, is no fault there: what is not known is not reported.
`ReportsRecover`: two wraps after any faults timestamps are exact again.
`BackwardsIsRepaired`: a clock that was set back is rebuilt at once.

**source** (`MCSource`): TCP and serial, with and without timeout, limits 0 to 2.
`GivesUpWhenAway` and `TalkerIsHeard` are liveness properties.

**conversions** (`MCConversions`): every buffer of up to five bytes out of four,
as whatever each conversion reads.  `StatusIsReadBack` takes all 32 combinations
of fields that a status can leave out, with the buffer for the packets, and all
statuses that are cut off.  `SlotsSinceAddUp` compares `slots_since` with the slots
counted one by one, at the ends of all epochs and with any counter the buffer
makes.  `CaptureIsReadBack` writes the buffer in two calls, with records of at
most two bytes, and cuts the capture off everywhere.  The properties are in `Conversions`,
stated of the buffer as it is, so that the theorems have no bound on its length.
(The repository's test vectors for both checksums are assumptions of
`MCLinkLine` and `MCEnumeration`, and those for addresses and measurements of
`MCConversions`, which TLC evaluates with these.)

Three runs find disagreements between the code and what it says:

* **report_times_missed**: after *one* missed request the response finds no
  captured time and leaves the clock alone (`observer.rs:252`), yet its reports
  are dated by that clock (`observer.rs:341`).  If the counter has moved on to
  an entry not set since the last wrap, the report is dated four minutes early.
  `observer/event.rs:58`: "The time at which this measurement was taken."
* **source_silent**: with `--reconnect-timeout` set, a peer that accepts the
  connection and says nothing is read from forever.  The timeout is looked at
  only when a read reports `TimedOut` or `WouldBlock` (`main.rs:173`), which no
  read does while the peer answers keepalive probes.  `main.rs:87`: "The time
  after which connection is re-established if no data is received in seconds".
* **node_table_midtable**: a builder that hears the rest of a read whose first page
  it missed collects that rest and publishes it as the table, and an empty one if
  there is only the last page.  The branch for a page that continues nothing ignores pages *from
  the start* and collects the others (`observer/node_table.rs:112`); its comment is
  "We're mid-table" / "Ignore" (`:113`).  For the same reason a read whose
  predecessor's end was missed loses its first page, although every page of it was heard.  With
  the comparison the other way round `PublishedFromTheStart` holds.

### Bounds

| bound | where | why it is enough |
|---|---|---|
| `MaxFrameSize` 3, `HeaderSize` 1 | link | every comparison with the size is met from below, at and above it |
| `MaxFrames` 2, `MaxFaults` 3 | link_line | one frame to be spoilt and one to be received after it; three faults make the line forge and destroy delimiters |
| `MaxNode` 4, `PageSize` 2 | node_table, node_table_midtable | a first, a middle and a last page; a table that ends at the last id |
| `LoSize` 3, `HiSize` 2, `MaxFrames` 3 | receivers | all completions, with and without carry, and the wrap of the whole number |
| the same, `MaxPackets` 2, `MaxPolls` 8, one gateway polled | receivers | two responses missed are more than a circle; six frames to go astray, two to find back.  Gateways do not affect each other; the proof is for any number |
| `Sequences` 2, `MaxCommands` 3 and 4 | exchange, pipeline | a number is reused while its first use is still stored |
| `MaxLosses` 3 and 2 | exchange, pipeline | a request missed and a retry; a stale request and a missed one |
| one gateway, two temporary and two other ids | observer | a start at another id than the last; an id that changes between and within enumerations.  Gateways do not affect each other but for the free ids; the proofs are for any number |
| `MaxFaults` 2, `MaxFailures` 1, `MaxPages` 2, `MaxEvents` 2 of them together | observer | a stop and a missed start or end; a failed write and a stop; a table read and one of them |
| `MaxData` 2, `Millisecond` 10 | conversions | data of less than, exactly and more than one record; times that are cut to milliseconds |
| `Epochs` 2, `EpochSlots` 4, `SlotsPerIndex` 2 | report_times | four entries: behind, at, before and opposite to the one set last |
| `MaxTime` 26 | report_times | begins in the second wrap (8 to 15), so that two wraps (16) after a fault at any time up to 10 are seen |
| `RetryModulus` 4 | source | larger than every limit plus one, so that every limit can be exceeded; without a limit it wraps |

The proofs do without these bounds where they apply.

### Fairness

* `node_table`: weak fairness of `Read`: the controller goes on reading the
  table.  That is the controller's doing; the observer is a listener.
  Faults are bounded, which is to say that they stop; `TableIsLearned` promises
  something only then.
* `observer`: weak fairness of the controller's way through an enumeration
  (`Enumerating`), which it repeats in its housekeeping after
  sundown (`README.md:160`); of the program being started again; and of a write, which
  is straight code of one thread.  None of hearing anything: faults are
  bounded instead, and `NetworkIsLearned` promises something once there are
  no more of them.  Under `MCSpec` the same fairness is stated of the bounded steps.
* `source`: weak fairness of the loop (one thread that runs), of the
  expiry of keepalive probes when the peer is gone (`PeerIsMissed`; the kernel's
  doing), of the close of a peer that closes, and of time.  None is assumed of what
  the peer is, of resets, or of a silent peer ever speaking.

## What is proved

For every value of the constants under their named assumptions, with any number
of bytes, frames, faults, commands, losses and failures:

* **InputProofs**, the link receiver: its four safety properties.  The invariant is
  `LinkInv`: types, `BufferOnlyInFrame`, `DeliveredFramesFit` and
  `EscapeByteIsNotData`, the fact that after an escape byte the receiver is
  neither idle nor collecting data.  `DelimiterSynchronizes` is not inductive
  without it: it is about two bytes, and the state between them must be known.
* **InputProofs**, the line: `Synchronized` and `IntactFrameIsDelivered`, for any
  checksum function of the right length.  `LineInv` adds to `Synchronized` the
  position of the transmitter (`Progress`) and `LinkInv`.  The heart is
  `ArrivesSynchronized`: one byte that arrives, by the part of the frame it
  belongs to, using that `unescaped_byte` undoes `escape` (`EscapeInverse`).
* **InputProofs**, the source: `SourceTypeOK`, for any limit of the width of the retry
  counter.  It is inductive as it stands; besides types it says that a connection is there
  exactly while it is read, and that a program that runs has not used up its limit.
* **CommandExchangeProofs**: `ExecutionsWereRequested`, `ReportsArePaired`
  and `HeardIsPaired`.  The strengthening says that a stored request is stored
  under its own number and is no newer than the newest command
  (`WaitsInPlace`), and that the newest command, once heard and until it is
  executed, is the one stored (`NewestWaits`), so that nothing older with its
  number can be in its place when the response comes.
* **EnumerationProofs**, enumerations: `HeardEnumerationIsLearned` and
  `NothingIsLearnedHalfway`, for any number of gateways, ids and faults, and that
  the composition implements `Observer` (`EnumerationIsObserver`), so the
  theorems on persistence hold in it.  `NetworkInv` is about the network alone: ids are
  distinct but for gateways still at the enumeration's, and who has identified
  itself is not there any more.  `StartInv` says that the enumeration the observer
  has open is the one under way, once a start of it was heard; `CollectedInv` that,
  if nothing was missed since, each gateway that identified itself or told its
  version is collected at its present id, and the temporary id is not.  None of it can be
  left out: at the end what is collected is all there is, so the end must know
  that nothing that was collected has changed its id since.
* **EnumerationProofs**, persistence: the types of the observer's state, in which files and
  state are one (`ObserverTypesCorrect`), and, if the temporary path differs
  from the persistent one, `WritesAtomically`, `StateIsSaved`, and that the observer implements
  `DurableState`.  The strengthening is `TmpIsCurrent`: what is renamed
  is what was to be saved.  The assumption `File # Tmp` is needed for all but the
  types: see the observations below.
* **NodeTableReaderProofs**: `BuilderHasNoHoles`, `PublishedHasNoHoles` and
  `WholeReadIsPublished`, for any table, page size and number of faults.
  `BuilderHasNoHoles` is inductive with the types; the step is that a page, being
  the first entries from its address on, goes on where the collected part ends
  (`MergedHasNoHoles`), and that the last node of both is the page's.
  `HeardInv` adds that a read that found the builder new and was heard so far is collected
  from node 0 on.  That the last page of any read leaves the builder new needs none of this, only
  that the last node of what is collected is the last there is (`LastPageLeavesNew`).
  `NodeTableProofs` has what these and the observer's types need of `push`
  for any builder and page; that a page has a last node at all is
  proved by the well-foundedness of strict inclusion (`LastNode`).
* **ConversionsProofs**, report times: `FaultlessReportsAreExact`, `ReportsRecover` and
  `BackwardsIsRepaired`, for any number of epochs, slots and entries, any `MaxGap`
  of at most a wrap less an entry, and any faults.  The invariant is `ReportInv`,
  stated beside the model.  The slots that share an entry are a block, and an entry is
  right when it is the time its block began (`IsSetAt`).  It cannot be said of all
  entries: only blocks that began more than a wrap after the last fault
  (`IsPastFaults`) are known to have been set since.  A poll that is heard whole puts
  the clock `InStep` with itself (`PollSetsClock`); until one is, after a fault, nothing is
  claimed (`Recovering`).  `GetIsExact` then dates a measurement by the block
  it was taken in, and arithmetic on the counter (`CounterOfTime`,
  `StepsBackIsDistance`, `RecentBlocks`) says that this block is one of those in the clock.
* **PipelineProofs**, the receivers: `CompletedNumbersAreNext` (half a packet number is completed to
  the next number on the circle that has it) and `ClockBeforeReports`, for any
  stream of frames, any gateways and any size of the two halves of a packet number.
  The first is arithmetic.  A number is its high half times `LoSize` plus its low half
  (`Halves`), the completed one has the old high half or the next, and any other number
  with this low half is at least as far ahead (`InterpretedIsNext`, by whether the low half
  went back and by where the other number lies).  The invariant it needs is only that the
  number known is one (`NumbersAreNumbers`), which no frame and no completion breaks.
  The second is about the calls of one frame, however many packets it holds: what
  `FlattenSeq` makes of sequences of calls begins with the first of them
  (`FlattenedIsSeq`).  The library's induction takes a predicate, so that is proved
  by an induction over sets of numbers of our own (`SequenceProofs`, `CountingUp`), which
  rests on strict inclusion being well-founded.
* **PipelineProofs**, the polls: `NumbersAreKept`, for any gateways, packets in a response and
  frames missed.  The property is inductive with the types (`PollsInv`); the step is a
  low half that is heard less than a circle after the number kept, which is
  completed to the controller's number (`InterpretedIsKept`), through the carry and the wrap.
* **PipelineProofs**, the pipeline: `ReaderIsImplemented` and `PublishedAtTheEnd`, for any table, page
  size, gateways, sequence numbers and losses.  The invariant `PipelineInv`, stated beside
  the model, ties the receiver's map to the controller: what a gateway is
  about to answer is what is waited for (`DueIsAwaited`), a node table request that is
  open asks at the cursor (`AsksAtCursor`), and a request that was heard and is still
  stored is the one under its key (`HeardWaits`), so that the response is filed under
  the address the controller asked for.  Without `trusted` the last is just what fails.
  It follows that a pipeline that hears no response without its request implements
  `NodeTableReader` (`TrustedIsReader`), and with the theorems of `NodeTableReaderProofs`
  that the tables it publishes have no holes (`PipelineTablesCorrect`).
* **ConversionsProofs**, the conversions: all seven properties of `Conversions`, for a buffer
  of any length, of any bytes, and for any sizes of headers and records.  A conversion that
  is a loop in the code is a function defined by itself on the turns taken so far.  That there is
  such a function at all is `LoopExists`, by `CountingUp`; `LoopStays` says of it what every turn
  preserves, and is all the induction the rest needs.
  * *Checksums* (`AlteredByteIsNoticed`, `MistypedDigitIsNoticed`).  A turn of the CRC
    remembers what it was given (`StepRemembers`, `CrcStepRemembers`): equal results of different
    checksums need different bytes, and the other way round, so one altered byte is
    never made up for by equal ones.  That comes down to the table: its
    high bytes are all different, and `PlaceOf` is the proof, a second table that finds the index
    again.  `^` is reasoned about by its halves (`Xor8Cancels`, `Xor16Cancels`), down to single bits.
  * *Barcodes* (`BarcodeIsReadBack`).  The digits written are those from the first
    that is not zero (`FormatIs`), and `|` with zeros puts them where they were (`AssembledAgain`).
  * *Packets* (`PacketsAreAllThereIs`).  What was given and what is left are at every turn
    the bytes (`NextPacketGoesOn`), and each turn but the last takes at least a header,
    so that there are enough turns.
  * *Statuses* (`StatusIsReadBack`).  What is read of a status is by definition where its type says,
    so the proof is that the type says what was left out (`TypeOfMask`,
    `AnnouncedWidths`) and that parts put together are found at the sums of the lengths of those
    before them (`PartsInPlace`).
  * *Slot counters* (`SlotsSinceAddUp`).  A valid counter is its slot among all slots
    (`CounterOfSlot`, `SlotOfCounter`), the slots since are the distance on that circle
    (`SlotsBetween`), and distances add up (`SlotsAddUp`).
  * *Captures* (`CaptureIsReadBack`).  What is written is records, each of them no longer than it can
    say (`SplitWrites`, `WriteAdds`); what is read of a capture, cut off anywhere, is a
    prefix of the records it was made of, with an error if more than the head of the next
    is there (`NextRecordReads`, `ReadOfCut`).

Assumptions are those of the constants: special bytes are bytes, sizes are
natural numbers with room for header and checksum, a page has room for an entry,
`GatewayID::ZERO` is a gateway id, sequence numbers are `0..Sequences-1`, what a
frame says is of the size of its fields (`FramesAreFrames`), a retry limit fits in
the retry counter, the sentinels are no states, no tables, no times and no results.
Those of the conversions: bytes are octets (`ConversionsConstants`), slot counters have 16 bits, a
status has six fields of one or two octets (`FieldsAreStatus`), and a header, a record and a
millisecond are not of size zero (`PacketConstants`, `CaptureConstants`).

Only model-checked:

* liveness (`TableIsLearned`, `NetworkIsLearned`, `GivesUpWhenAway`,
  `TalkerIsHeard`), which this prover cannot do;
* `LossyLinkSpec`.  That what is delivered was sent can only be had from a checksum that
  tells all bodies apart.  The run has one; two bytes of checksum for up to 256 bytes
  of frame do not, and a theorem that assumed it would be about another program.  What
  the checksum of the program does promise is `AlteredByteIsNoticed`;
* addresses and measurements, which have no property but the vectors TLC evaluates.

## Further observations

Seen while modelling, and modelled as the code has them, but no run of their own:

* A frame that outgrows the buffer on an *escaped* byte is not counted as a
  giant (`receive.rs:154`, where `:126` counts it).  Counters are only logged.
* `noise` is counted on every transition into the state `Noise`, and preamble
  bytes lead out of it, so a burst of noise can be counted several times
  (`receive.rs:87`, `:151`; `:215`).
* A page that makes `NodeID::MAX` the last node collected drops the whole table (`node_table.rs:147`).
* The high byte of a packet number overflows when numbers start over: a debug build
  panics (`gateway/transport.rs:89`), a release build, which is what the models are of, goes on at 0.
* A retransmitted request is stored again after its response was reported, so the
  replayed response is reported a second time (`transport/receiver.rs:253`, with
  "Deduplicate responses" at `:295`).  `ExecutionsWereRequested` bounds executions by
  requests heard for that reason.
* A persistent file that itself ends in `.tmp` is its own temporary file
  (`observer.rs:128`), and a crash during a write leaves it cut off.
* Identities and versions heard while an enumeration whose end was missed is
  still open go to that enumeration and are neither used nor saved
  (`observer.rs:206`, `:222`).  The other way round, a program started in the middle
  of an enumeration, or one that missed its start, takes the temporary id that a
  gateway responds from for its id, and saves it (`observer.rs:211`).  Both last until the
  next enumeration that is heard whole (`NetworkIsLearned`).
* A gateway that identifies itself twice in one enumeration, at two ids, is
  kept at both (`observer.rs:209`), as 4609 and 4610 seem to be in the example of
  `README.md:155`.
  `HeardEnumerationIsLearned` says that all gateways are reported where they
  are, not that nothing else is.
* An enumeration replaces identities and versions; node tables, their builders
  and slot clocks stay under the ids they were heard at (`observer.rs:238`), also when
  an id is another gateway's now, until that one's table is read.
* An empty `--persistent-file` makes every write fail with an error in the log
  (`observer.rs:127`, `:139`), and the program goes on.
* `peek-bytes` breaks the line after `7E 08` only when both bytes came with the
  same read (`main.rs:286`).
* A capture of a time before 1970 panics (`capture.rs:105`).
* A barcode of fewer than two digits after the dash is written but not read back
  (`barcode.rs:22`).
* A connection that was opened and ends, by its end or by an error that is no timeout, is
  opened again without being counted as a retry (`main.rs:164`, `:208`): from a peer that
  accepts and closes the program does not give up, whatever `--reconnect-retry` is.
* `--reconnect-timeout` defaults to 60 in the code and to 0 in the README
  (`main.rs:88`).  A limit of
  `u32::MAX` is never exceeded: the counter wraps first, or panics in a debug build (`main.rs:134`).

## Not modelled

* The command line and the `peek` commands: dispatch and formatting.  The one
  state a `peek` keeps is the last slot counter of each gateway, for its log.
* `termios`: no source opens it.  `trace_meshdcd.rs` and `string.rs` are in no
  module tree and are not compiled.
* The plain data types of the physical and the PV link layer (`LongAddress`,
  `ShortAddress`, RSSI, DSN); decimal units of values; the compression of captures.
* The text of events, reports and log messages.

## Plan

Done: link layer, polls for packets, transport and application receivers, node tables alone
and through the pipeline, enumerations with their controller, persistence,
report times, source, conversions; proofs of every safety property of these but
`LossyLinkSpec`.

Next, in order:

1. Report times through `TransportReceiver` with the polls of `PacketPolls`, in place of the
   poll of `ReportTimes`.
2. The liveness of `node_table` as a ranking argument whose safety part is proved.
3. Two altered bytes of a frame: which distances the checksum notices all errors of.
