# Gift IDS: specifications and proofs

TLA+ modules for the program in `src/` (an intrusion detection tool in C), TLC
configurations that check them on small instances, and proofs that TLAPS checks
for every value of the constants. Paths such as `detector.c:414` are relative to
`src/src/`; headers are in `src/include/`.

## The system

Gift IDS is one single-threaded process. `main` parses the command line, loads
the configuration, opens the two log files, initialises the detector and the
statistics, and hands over to one of two loops: `capture_packets` reads frames
from a raw socket until it is told to stop, `pcap_reader_run` reads the records of
a capture file. Both loops hand every frame to `process_packet_event_at_time`,
which parses it, counts it, prints and logs it, asks the detector, and counts,
prints and logs the alert. Then `main` closes the logs, writes the report and
prints the summary.

| Component | State | Operations | Talks to |
|---|---|---|---|
| packet memory (`detector.c`) | `syn_flood_states`, `port_scan_states`, `icmp_flood_states`: fixed arrays of slots, each with fixed arrays of marks | find-or-create with compaction, remember an event or a port, time bounds | called by the rules |
| detection rules (`detector.c`) | `detector_config` | `detector_init`, `detect_packet`: six rules in a fixed order, the first that claims the packet ends the call | packet memory, alert history |
| alert history (`detector.c`) | `alert_history`: 256 incidents with the time of their last alert | `should_emit_alert` | called by every rule that claims |
| packet processor (`processor.c`) | the frame and alert in hand | `process_packet_event_at_time` | parser, statistics, logger, detector, JSON output |
| statistics (`stats.c`) | a dozen counters | `stats_init`, `stats_update_packet`, `stats_update_alert`, summaries | processor, report |
| logger (`logger.c`) | `log_file`, `alert_log_file`, stdio buffers | `logger_init`, `logger_log_packet`, `log_alert`, `logger_close` | file system |
| live capture (`capture.c`) | `keep_running`, the socket | `capture_packets`, `capture_stop` from a signal handler | kernel, signals, processor |
| PCAP reader (`pcap_reader.c`) | position in the file, byte order | `pcap_reader_run` | file system, processor |
| main (`main.c`) | options, config, result | set-up, mode, winding up | everything |
| report (`report.c`) | none | `report_generate` (text or JSON) | statistics, file system |
| JSON output (`json_output.c`) | none | one line per event, escaping | standard output |
| parser (`parser.c`) | the frame and the `PacketInfo` in hand | `parse_packet_with_timestamp`, one early return per bound | processor |
| configuration (`config.c`) | the `GiftIDSConfig` that is filled | `config_set_defaults`, `config_load`, setters with ranges | main, detector |
| command line (`cli.c`) | the `GiftIDSRuntimeOptions` that are filled | `cli_parse_args`, `cli_apply_config_overrides` | main |
| tests (`src/tests/`) | | unit tests of the above | |

What is hard, and what would make each part correct:

- **Bounded memory.** Every memory of the detector is a small array. Slots are
  freed and taken over by other flows, the search for a flow stops at its slot
  and leaves the slots behind it with expired marks, a full event array drops the
  *newest* event, a full table does not remember the packet at all, and a full
  history alerts without remembering. Correct means: no flow is ever kept twice,
  the threshold is compared with marks of that flow inside the window only, and a
  missed flood or a repeated alert always has one of these limits as its cause.
- **Time comes from the packets.** A capture file may be stamped in any order,
  and the wall clock may be set back. Windows and cooldowns are then compared with
  marks from the future.
- **Suppression.** A suppressed alert still ends the chain of rules, so that a rule
  behind the one that claims never sees the packet; the entry that suppresses must
  belong to the very incident.
- **Lengths a frame states about itself.** The header length, the total length and
  the length of the transport header come out of the frame, need not agree, and
  decide where the next byte is read.
- **Settings from three sources.** Defaults, file and command line write the same
  fields one after the other; a line may be invalid, the file may break off, and an
  option may swallow the word behind it.
- **Stopping.** A signal handler writes the flag that the capture loop reads,
  the loop blocks in `recvfrom`, and in PCAP mode there is no handler at all.
- **Sudden death.** The process may be killed between any two calls. The log
  files are flushed per line, so the claim worth checking is how much they can
  lack.
- **Partial failure.** A log that cannot be opened, a truncated record, a report
  that cannot be created: the run goes on, and counters, logs, report and JSON
  lines must still tell one story.

`PROJECT.json` lists each of these hazards at its line.

## Modules

```
Settings <- RuleInputs <- WindowRules
                ^             . (INSTANCE)
TrackTable <- Detector <- DetectorRefinement <- RefinementProofs, MCDetector, MCAlertAudit
     |           ^------- AlertAudit <- AlertAuditProofs, MCAlertAudit
     |           ^------- FloodAudit <- AuditProofs (with RefinementProofs), MCFloodAudit
     |           ^------- ScanAudit <- AuditProofs (with RefinementProofs), MCScanAudit
     |           ^------- DetectorProofs
     ^---- TrackTableProofs

Processor <- Capture ----+
    ^------- PcapReader -+- Session <- SessionProofs, MCSession

Parser <- ParserProofs, MCParser

Texts <- Cli --------+
   ^---- ConfigFile -+- Startup <- StartupProofs, MCStartup
         Settings ---+
```

The parts meet at three places, each of which one side leaves open and the other
settles:

- at `detect_packet`, `Session` leaves open which alert, if any, the detector answers
  with (every alert a protocol allows), and `Detector` says which. The detector reads
  no log and no counter, so the open choice allows all its answers and more;
- at `parse_packet_with_timestamp`, `Session` takes a frame for a protocol, or "none"
  for a frame that is refused, and `Parser` says which frames are valid;
- at `detector_init`, `Detector` assumes of its configuration what `Settings` states
  (`ConfigAssumption`), and `Startup` shows that nothing else is handed on
  (`SettingsAreSound`). Likewise the first step of `Session` stands for all of `Startup`.

### TrackTable

The three arrays of flows, as operators. A slot is a key and its *marks*, a
function from cells to times: for the event tables the cells are the entries of
`events[]`, for the port table they are the ports. A cell with time 0 is empty:
the code takes a time of 0 for "never seen" as well (`detector.c:219`).
Compaction in C moves the survivors down; here it empties cells where they are.
No reader of an array can tell the difference, as all of them count and take
the smallest and the largest time.

| Definition | Code |
|---|---|
| `Within` | `is_within_window`: inclusive at the far end, and true of every mark later than now |
| `Fresh`, `Compacted` | `compact_event_times`, `compact_port_scan_state`: an emptied slot is freed |
| `Swept`, `Candidates` | the loop of the three `find_..._state`: compaction up to the slot of the flow, then that slot, else the first free one |
| `RememberEvent`, `RememberPort` | `remember_event`, `remember_unique_port` with their limits |
| `TrackEvent`, `TrackPort` | find and remember together, as each rule calls them |
| `FirstSeen`, `LastSeen` | `event_time_bounds`, `port_time_bounds` |

### Settings, RuleInputs

What detector and start-up agree on: the fields of `GiftIDSConfig` the rules read and
which of them must be positive. `RuleInputs` has what the rules are given (packets,
times, configurations, sizes) and ask of a packet (`is_tcp_syn_without_ack` and so on).

### Detector

One step is one whole call of `detect_packet`. `RaiseSynFlood`, `RaisePortScan`,
`RaiseIcmpFlood`, `RaiseSuspiciousPort`, `RaiseIcmpEcho` and `RaiseSynWatch` are
the calls that end at that rule, `NoRule` is the call that falls through.
`SynAfter`, `ScanAfter` and `IcmpAfter` are what the stateful rules remember when
they are reached; a rule behind the one that claims remembers nothing.
`HistoryAfter` and `ShouldEmit` are `should_emit_alert`. `verdict` is the
`DetectionResult`, with the rule that claimed the packet even when the cooldown
silences it. The inputs are packets (`Packets`) stamped with any time of `Times`
(`Spec`), or with times that never go back (`OrderedSpec`).

Left out: the wording of messages and recommendations, severities, the warnings
`detector_init` prints. Packets the parser refuses do not reach any rule.
Timestamps start at 1, because the code replaces a timestamp of 0 with the wall clock
(`parser.c:51`).

### WindowRules, DetectorRefinement

`WindowRules` is what the rules promise, without arrays: one memory per flow, which
holds the marks inside the window and nothing else, the six rules in their order over
these memories, and one memory of the alerts in cooldown, by incident. No slot, no
search, no compaction, no entry taken over; only the limits show (a flow is taken up
while fewer than `MaxHosts` others are known, an alert is remembered while fewer than
`MaxHistory` are in cooldown). `DetectorRefinement` maps a table to that memory: of the
flow's slot, the marks inside the window, and the history likewise. A slot or an entry
that is free and one that nobody has cleared yet stand for nothing.
`RulesImplemented` says that `Detector`, with ordered packets, implements
`WindowRules`: which rule claims a packet, and whether it alerts, does not depend on
what earlier calls left behind in other slots and entries. `WindowRules` is a specification, not a model of code, and is
not mapped.

### AlertAudit, FloodAudit and ScanAudit

Observers beside `Detector`; they restrict nothing. `AlertAudit` remembers per
incident when the analyst last saw an alert (`lastAlert`) and which incidents
alerted without being kept (`forgotten`). `FloodAudit` counts every packet of every
flow that one of the two flood rules looks at (`audited`, chosen at the start, says
which) in the window of that rule exactly, and remembers the last one that was not
stored (`lost`). `ScanAudit` remembers every port a pair has contacted (`contacted`),
the last SYN of the pair that the SYN flood rule kept from the scan rule (`hidden`), and
the last one whose port was not kept (`dropped`). Comparing the fixed arrays with these
unbounded memories is what gives the properties their content. They model no code, so
nothing in them is mapped.

### Processor, PcapReader, Capture, Session

`pc` is the call the program is about to make; one step is one call, so that a
kill may come between any two. `Processor` has the steps of
`process_packet_event_at_time`, including `fprintf` (`LogPacket`, `LogAlert`) and
`fflush` (`FlushPacket`, `FlushAlert`) as steps of their own. A log is "off",
"open" or "closed", with the lines in its buffer and those on disk.
`stats_update_packet` and the like are the operators `WithPacket` and `WithAlert`.
`PcapReader` and `Capture` are the two loops. `Session` is `main`, with signals
(`Signal`) and kills (`Killed`): SIGKILL at any time, SIGINT or SIGTERM while they
have their default action, which in PCAP mode is always.

`signal()` has BSD semantics under the flags of the Makefile
(`-D_DEFAULT_SOURCE`): the handler stays installed, and `recvfrom` is
restarted after it, except on a socket with `SO_RCVTIMEO`, where it fails with
EINTR. Hence a signal in `recv` leads back to the test of the loop only when the
timeout is set.

A frame is what the parser makes of it: a protocol, or "none" for a frame it
refuses. A capture file is a sequence of such frames ended by an end of file or
by an error, chosen as the reader goes, which makes every file of up to
`MaxFrames` records an instance.

Left out: `bytes_seen` and times in the summaries; write errors on logs (the code
does not look at them); buffering of standard output; the text of lines.

### Parser

One step per test of `parser.c`: a frame is its captured length and the fields the
parser looks at, with any values, and each read is recorded with the header it belongs
to, its first byte and the byte behind it. The order is that of the code, so a read
that comes before its test shows. `HasBytes` is `has_bytes`, `Clamped` the width of
`frame_len`, `TransportEnd` the end of the datagram, which the transport headers must
respect. Left out: the values of addresses, ports and flags, and the timestamp.

### Texts, Cli, ConfigFile, Startup

A text is what `cli.c` and `config.c` tell apart: what it reads as (a number, a truth
value, a format, some other word), which number, and how long it is. `Cli` takes the
words of `argv` from left to right: `TakeFlag`, `TakeValue`, `RefuseWord`, and the tests
behind the last word (`Conflict`). `ConfigFile` takes the pieces that `fgets` returns:
`Assign`, `Warn`, `Skip`. A line longer than the buffer comes as several pieces, which
the code takes for lines of their own, and so does the model. `Startup` is the first
part of `main`: command line, defaults, file (which may be missing or break off at any
piece), overrides, and the warnings of `detector_init`.

Left out: trimming and the exact spelling of lines and numbers, the wording of errors, the
help text. `--config` only names the file, so the file is chosen freely.

## Runs

| Run | Question | Answer |
|---|---|---|
| `flows` | do freed, reused and uncompacted slots keep one slot per flow, is a flow refused only when every slot is alive, does any packet take a live event from another flow, and does a rule out of reach stay silent? | yes; no live event is lost; packets in any order |
| `evidence` | does an alert's count lie in the window it names, and do the tables implement `WindowRules`? | yes, packets in order |
| `evidence_unordered` | and when packets are stamped out of order? | **no**: see findings |
| `alerts` | does the history implement an exact memory of the alerts in cooldown (`WindowRules`), is every silence owed to an alert for the same incident, and which incidents alert again during their cooldown? | yes; yes; only those a crowded history did not keep |
| `cooldown_full` | is the cooldown kept for every incident? | **no** |
| `floods` | do the SYN and the ICMP flood rule claim exactly the floods, and when is an event not kept? | every claim is a flood; a miss follows an event that was not kept; in a crowded table, or behind the claim of a full array |
| `scans` | does the port scan rule claim exactly the scans? | every claim is a scan; a miss follows packets the flood rule took, or a port not kept |
| `session` | both modes, with errors, signals and kills: do counters, logs, report and JSON lines agree, what do the logs lack at a kill, why does a run end, is a stop honoured, and what comes in after it? | yes; at most the event in hand; by `--count` or a signal; once the loop is up; one frame at most |
| `live_json` | are the JSON lines pure in live mode? | **no** |
| `lost_stop` | does every signal that was handled end the run? | **no** |
| `parser` | is a byte read that was not captured, or taken from the wrong header; are exactly the well-formed frames valid? | no; yes |
| `startup` | do the options mean the command line, do the settings of highest rank win, is a mistake ever silent, are the settings sound? | yes; yes; never; yes |

### Bounds, and why they are enough

- *Hosts, events, ports*: two slots (`MaxHosts`), two events (`MaxEvents`) and
  one or two ports for the real 256, 128 and 128. Every limit is met: three flows
  compete for two slots (`flows`, `floods`), three SYN flows of two pairs in
  `evidence`, a third event meets a full array, two pairs compete for one slot with three
  ports for two (`scans`, where the flood rule in front has a cooldown, so that it claims
  packets in silence too). What matters of a slot is whether it lies before or behind the
  one the search stops at. In `flows` a threshold of three lies above `MaxEvents`, and
  the scan threshold of two above `MaxPorts` = 1, so that rules out of reach do occur.
- *History*: two entries for more incidents than that (the real size is 256).
- *Times*: 1..3 up to 1..6 seconds with windows and cooldowns of one or two
  seconds: inside, at the edge, outside, and several windows after each other. The
  proofs do not depend on any of these bounds.
- `ArrivalCap` in `FloodAudit` caps the exact count of one second at the
  threshold, above which no property looks.
- *Frames and signals*: `MaxFrames` is two, so that an error may follow a
  processed record and a kill may fall between the two. `MaxSignals` is two: the second
  signal arrives while the program is already winding up. The options of
  `MCSession` put each output mode, `--count`, a disabled log and a missing report
  to work; `TimeoutMayFail` lets `setsockopt` refuse the timeout.
- *Lengths* (`parser`): for each length in a frame the values at which a test changes its
  answer and their neighbours, in all combinations, with captured lengths beyond 16 bits.
- *Words and lines* (`startup`): every command line of up to three words with one file,
  and every file of up to three pieces with two command lines: an option, its value and a
  word behind it; a valid line, an invalid one and a valid one again. `MaxInt` and `MaxLong`
  (200 and 300), `MaxPorts` and `MaxEvents` (40 and 60) lie in the order they have in the
  code, above the defaults.
- *Symmetry* is used in `floods`, over address pairs that all send the same packets; no liveness property is checked there.
- `CHECK_DEADLOCK FALSE` stands in the configurations of `Session`, `Parser` and
  `Startup`, which end. The detector always takes another packet and is checked for
  deadlock; with ordered packets the last second of `Times` can repeat for ever.

### Fairness

`Session` assumes that the program does not halt by itself
(`WF_vars(ProgramStep)`) and that the receive timeout of a socket that has one
expires (`WF_vars(TimeOut)`: `SO_RCVTIMEO` of one second, set in
`set_receive_timeout`). Nothing is assumed of frames, signals or kills.
`StopInCapture` is therefore a promise for the quiet network as well. It is
restricted to sockets that got their timeout: when `setsockopt` fails the code only
warns (`capture.c:44`), and a stop is then not noticed until a frame comes.
`StopAtNextFrame` says that it is noticed then, and `NoFrameAfterStop`, which needs no
fairness, that no second frame comes in. The other modules promise no progress.

## Findings

1. *Unordered packets* (`evidence_unordered`). A mark later than the packet at
   hand is inside every window (`detector.c:223`), so a packet that is stamped
   early never expires later marks, and an alert's evidence counts events that
   lie further apart than the window it names.
2. *A full history* (`cooldown_full`). An incident that finds every entry in
   cooldown is alerted but not recorded (`detector.c:568`): each of its packets
   alerts again.
3. *JSON in live mode* (`live_json`). The banner and the final count of
   `capture_packets` (`capture.c:108`) are plain text among the JSON lines.
4. *A lost stop* (`lost_stop`). `capture_packets` sets `keep_running` after
   `main` installed the handlers (`capture.c:93`); a signal in between is
   forgotten, and the capture goes on.

The first three are limits the documentation does not mention; the last is a bug.

`floods` also shows a limit that no comment denies: a full event array drops the
newest event (`detector.c:414`), so that a flood that goes on may fall below the
threshold once the kept events expire. `MissedOnlyAfterLoss` says that nothing
else loses a flood, and `LossHasCause` that the full array begins to lose only once the
flow is claimed, unless its threshold is out of reach. `scans` shows the like for the rule behind it: a packet
the SYN flood rule claims, even in silence, ends the call (`detector.c:873`), so that
a pair which floods one port may scan others unseen. `MissedScanHasCause` names this and
the full arrays as the only ways to miss a scan. `config_load` takes the tail of a
line longer than 511 characters for a line of its own (`config.c:223`): what such a
tail says is set, or warned of, like any other line.

## Proofs

All theorems hold for every value of the constants that meets the named assumptions:

- detector: `InputAssumption`, `ConfigAssumption` (thresholds and windows are positive,
  which `Startup` shows), `LimitAssumption` (the arrays have at least one element),
  `KeyAssumption`; for the flood rules `CapAssumption` (the exact count of one second goes
  up to the threshold at least, above which no property looks);
- session: `OptionsAssumption`, `NoAlertAssumption`, `SignalsAssumption`;
- parser: `FrameAssumption` (lengths have the width of their fields, nothing else);
- start-up: `WidthAssumption` (30, the largest default, fits into an int, and an int
  into a long), `CaseAssumption` and `TrackAssumption` (types).

TLC evaluates each of them in every run of its module.

**TrackTableProofs** holds the lemmas on the operators: what `Fresh`,
`Compacted`, `Swept`, `RememberEvent`, `RememberPort`, `TrackEvent` and `TrackPort`
return, that they keep a table's type, one slot per key and slot occupancy, that
the marks of the flow just tracked lie in the window, and that no mark inside it is lost
(`TrackEventKeepsLive`, `TrackPortKeepsLive`). They rest on two facts
on the minimum and maximum of a finite set of numbers.

**DetectorProofs**:

- `TypeCorrect`, `TrackedOnce`, `InUse`: `Spec => []TypeOK`,
  `[]FlowsTrackedOnce`, `[]SlotsInUse`. None is inductive alone. The search
  answers with the *smallest* slot of a key, and the table has the type it should
  only because a slot with a key has marks; that a sweep leaves one slot per key
  needs that a freed slot has neither. `IInv`, the conjunction of the three with the
  range of `clock`, is inductive (`IInvHolds`): one step per action,
  each reduced to the lemmas on the table it changes.
- `OutOfReachIsSilent`: `Spec => []OutOfReachNeverClaims`. The number of marks of a
  slot never exceeds its array's limit: for events because there are only so many cells,
  for ports, which outnumber them, because of a part of the inductive `TypeOK`.
- `RefusalsAreDue`: `Spec => RefusedOnlyWhenBusy`. A search that finds neither the flow
  nor a free slot has compacted every slot (`SweptThrough`), and a slot with a key has
  marks.
- `LiveEventsAreKept`: `Spec => LiveEventsStay`, the other side of it: a slot with an event
  inside the window is never given to another flow, and no packet takes the event.
  Compaction keeps such a slot (`CompactedKeepsLive`), and the search answers with the
  flow's own slot or with one that, by the occupancy in `IInv`, holds nothing
  (`PutKeepsLive`).
- `EvidenceTrue`: `OrderedSpec => []EvidenceHolds`. The evidence is judged by the span
  between its first and last mark. For this the invariant adds that no mark lies
  after `clock`, so that a fresh mark is between `clock - window` and `clock`. This
  is exactly what unordered packets break.

**RefinementProofs**: `RulesAreImplemented`, `OrderedSpec => RulesImplemented`. Time
alone ages the memory as it ages the marks of a slot (`MemoryAges`); a sweep of other
slots is invisible in it (`SweepInvisible`); the search finds a slot exactly when the
abstract rule has room, since behind a complete sweep slots and known flows correspond one
to one (`KnownFlows`, `KnownCount`); a mark set in the slot is the mark set in the
memory (`MemoryOfPut`, `EventRemembered`, `PortRemembered`); and so each rule claims the
same packets (`SynImplemented`, `ScanImplemented`, `IcmpImplemented`). The cooldown is
proved the same way: time ages the alerts (`RecentAges`), a new alert finds an entry
exactly when fewer than `MaxHistory` are in cooldown (`RecentCount`, by the same
counting lemma `OwnerCount` as for the slots), and taking over an entry whose cooldown has
passed is invisible (`AlertRemembered`); for this the invariant adds that an entry without
an incident has no time. `CallImplemented` puts the parts together.

**AuditProofs** looks at the tables as the memory of **RefinementProofs**, which already
hides their slots (packets in order).

- Port scans: `ScansAreReal` and `MissedScansAreExplained`. `MemoryFollows` says that the
  memory of a port never runs ahead of the record, and where it falls behind, a packet of
  that pair was hidden or dropped since; one call moves both (`MemoryStep`, `RecordStep`).
- Floods, for either rule: `FloodsAreReal`, `MissedFloodsAreExplained`,
  `LossesAreExplained`. The inductive invariant `FInv` (`CountFollowed`) compares memory and count time by time: never more stamps of a time
  than packets of it (`CountFollows`), as many for every time after the last loss; a flow
  that has just lost a packet has no room, in the table or in its array (`LossFits`); and
  the rule has claimed the last packet exactly when the memory has reached the threshold
  (`RuleAnswers`). One call moves both (`StampsNext`, `CountStep`). From "at each time" to
  "in all" no sum is needed: the remembered events are mapped one to one to the packets,
  each by its time and its rank among those of its time (`MarksWithinArrivals`), and back
  (`ArrivalsWithinMarks`). A crowded table is busy because the known flows have different
  slots, and there are as many flows as slots (`NoSlotIsBusy`).

**AlertAuditProofs**: `SilenceHasReason`, `AuditTypeCorrect` and `ForgottenNeedsCrowd`
(packets in any order), `RepeatsWereForgotten` (packets in order). The invariant
`AInv` ties the array to the observer: every entry of the history has as its time
the `lastAlert` of its incident; for ordered packets it adds that an incident still
in cooldown has an entry or is forgotten. The crowd is an injection from the entries of
the history, all in cooldown and with different keys, to the incidents in cooldown,
with the forgotten one left over.

**SessionProofs**: `SessionTypeCorrect`, `LogsAlwaysKeepUp`,
`AlertsAlwaysHavePackets`. What a log lacks depends on where the program is: the
invariant has `Phases` (at which `pc` a line is buffered and a frame or an alert
is in hand) and `Accounts` (what buffer and file hold between them for that
`pc`, while the process is running); a kill forgets the buffers and keeps the bound.

The second half extends that invariant to `AInv` and proves `BooksAlwaysBalance`,
`AccountsAlwaysAgree`, `RunsEndForAReason` and `ReplayStaysJson`. The parts say which calls
belong to one mode only (`Modes`), whether the frame in hand is counted already (`Hand`:
the live loop counts before, the file loop after), how `--count` bounds the frames at
each call (`Bounded`), why a live loop has ended (`Reasons`), what has been printed of
what was counted (`Printed`), and that the report is written last (`Reported`).

On the same invariant rests `NoFramesAfterStop`, `Spec => NoFrameAfterStop`: frames seen,
and one more while the program is in `recvfrom`, never grow once the loop is up and the
flag is down (`StopKeeps`), because every way back to `recvfrom` leads through the test of
the flag. `Modes` keeps the file loop, which has no flag, out of it.

**ParserProofs**: `NoReadBeyondCapture`, `NoReadOfPadding`, `ValidIsWellFormed`,
`LengthsAlwaysFit`, for frames of any captured length. The invariant says for each `pc`
which tests have been passed (`Tested`) and what of the `PacketInfo` is filled in by then
(`Filled`).

**StartupProofs**: `StartupTypeCorrect`, `OptionsAreMeant`, `RefusalsAreJust`,
`SettingsTakeEffect`, `MistakesAreTold`, `DetectorGetsSoundSettings`, for command lines
and files of any length. The invariant gives the options as a function of the words
read so far (flags seen, last value of each option, no option word taken for a value)
and the configuration as a function of the pieces read so far (the last valid line of
each key), and says what has been warned of.

Only model-checked: liveness (`StopInCapture`, `StopAtNextFrame`), which needs fairness
and ENABLED. Induction over data and what recursive definitions compute are outside the
reach of the provers used here; no property needs them.

## Not modelled, and why

- *Text*: the wording of log lines, alerts, reports, JSON events, warnings, help and
  summaries; escaping of JSON strings, and trimming and splitting of configuration
  lines. Lines and events are modelled as what they tell (which packet, which alert,
  which setting). No property is about their characters. This is why logger, report and
  JSON output are only partly modelled.
- *PCAP header and byte order* (`pcap_reader.c`): a record arrives, is the end, or is an
  error; which bytes make it an error is decoding.
- *Write errors on logs*: the code does not look at the results of `fprintf` and
  `fflush`, so there is no control to model.
- *Repeatability of PCAP analysis* (`parser.c:51`): a record stamped 0 takes the wall
  clock, so that two analyses of one file may differ. This relates two runs, which no single
  behaviour holds; within one run such a record is a packet out of order, which
  `evidence_unordered` covers.
- *Detector inside Session*: the open choice of `Session` contains every answer of
  `Detector`, so every property of `Session` holds of the composition as well; its states
  would multiply without a property to tell the two apart.
- *The unit tests* under `src/tests/`.
