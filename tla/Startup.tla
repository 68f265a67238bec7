------------------------------- MODULE Startup -------------------------------
(***************************************************************************)
(* The start of main, up to a detector that is ready: the command line,    *)
(* the defaults, the configuration file over them, the command line's      *)
(* overrides over that, and the warnings of detector_init.                 *)
(***************************************************************************)
EXTENDS Cli, ConfigFile, Settings

CONSTANTS
    Cases,       \* pairs of a command line and a configuration file
    MaxPorts,    \* MAX_TRACKED_PORTS
    MaxEvents    \* MAX_TRACKED_EVENTS

ASSUME CaseAssumption == Cases \subseteq Seq(WordType) \X Seq(PieceType)
ASSUME TrackAssumption == MaxPorts \in Nat /\ MaxEvents \in Nat

VARIABLE told    \* the thresholds detector_init warned of

vars == <<cliVars, configVars, told>>

Init ==
    /\ \E case \in Cases : args = case[1] /\ file = case[2]
    /\ next = 1 /\ options = NoOptions
    /\ phase = "args"
    /\ lineNumber = 0 /\ config = Defaults /\ warned = {}
    /\ told = {}

ParseArgs == CliStep /\ UNCHANGED <<configVars, told>>

\* fopen; without a file the defaults stay, with a warning.
OpenConfig ==
    /\ phase = "open"
    /\ phase' \in {"load", "override"}
    /\ warned' = IF phase' = "override" THEN warned \cup {0} ELSE warned
    /\ UNCHANGED <<args, next, options, file, lineNumber, config, told>>

LoadLine == phase = "load" /\ ReadPiece /\ UNCHANGED <<cliVars, told>>

\* The end of the file, or with a warning a read error: what was set stays.
LoadEnds ==
    /\ phase = "load"
    /\ phase' = "override"
    /\ \/ ~MoreLines /\ UNCHANGED warned
       \/ warned' = warned \cup {0}
    /\ UNCHANGED <<args, next, options, file, lineNumber, config, told>>

DisablesOf(key) ==
    CASE key = "enable_suspicious_port_rule" -> "--disable-suspicious-port"
      [] key = "enable_tcp_syn_watch_rule"   -> "--disable-syn-watch"
      [] key = "enable_icmp_echo_rule"       -> "--disable-icmp-echo"
      [] key = "enable_port_scan_detection"  -> "--disable-port-scan"
      [] key = "enable_syn_flood_detection"  -> "--disable-syn-flood"
      [] key = "enable_icmp_flood_detection" -> "--disable-icmp-flood"

PathOptionOf(key) == IF key = "packet_log_file" THEN "--packet-log" ELSE "--alert-log"

\* The command line says something of the key.
Overridden(key) ==
    \/ key \in ToggleKeys /\ DisablesOf(key) \in options.flags
    \/ key \in PathKeys /\ ~IsEmpty(options.value[PathOptionOf(key)])

OverrideOf(key) == IF key \in ToggleKeys THEN FALSE ELSE options.value[PathOptionOf(key)]

\* cli_apply_config_overrides
Override ==
    /\ phase = "override"
    /\ config' = [k \in Keys |-> IF Overridden(k) THEN OverrideOf(k) ELSE config[k]]
    /\ phase' = "limits"
    /\ UNCHANGED <<args, next, options, file, lineNumber, warned, told>>

\* Mutant of LimitOf: the limits are swapped.
LimitSwapped(key) == IF key = "port_scan_threshold" THEN MaxEvents ELSE MaxPorts

LimitOf(key) == IF key = "port_scan_threshold" THEN MaxPorts ELSE MaxEvents

\* detector_init
InitDetector ==
    /\ phase = "limits"
    /\ told' = {k \in Thresholds : config[k] > LimitOf(k)}
    /\ phase' = "ready"
    /\ UNCHANGED <<args, next, options, configVars>>

Next == ParseArgs \/ OpenConfig \/ LoadLine \/ LoadEnds \/ Override \/ InitDetector

Spec == Init /\ [][Next]_vars

-----------------------------------------------------------------------------
Phases == {"args", "refused", "help", "version", "open", "load", "override", "limits", "ready"}

TypeOK ==
    /\ args \in Seq(WordType) /\ next \in 1..(Len(args) + 1)
    /\ options \in OptionsType
    /\ phase \in Phases
    /\ file \in Seq(PieceType) /\ lineNumber \in 0..Len(file)
    /\ \A k \in NumberKeys : config[k] \in 0..MaxInt
    /\ \A k \in ToggleKeys : config[k] \in BOOLEAN
    /\ \A k \in PathKeys : config[k] \in TextType
    /\ warned \subseteq 0..Len(file)
    /\ told \subseteq Thresholds

Given(opt)    == {i \in DOMAIN args : args[i].opt = opt}
IsLast(i, at) == i \in at /\ \A j \in at : j <= i

\* A word that is the value of the option before it.
IsTaken(i) == i > 1 /\ args[i].kind = "plain"
              /\ args[i - 1].kind = "bare" /\ args[i - 1].opt \in Valued
Proper     == \A i \in DOMAIN args : IsFlag(i) \/ IsValue(i) \/ IsTaken(i)

\* What the program runs with is what its command line says, read as a whole:
\* every word of it has a use, every flag in it is on and no other, and of an
\* option given twice the last value counts.
OptionsMeanArgs ==
    phase \notin {"args", "refused"} =>
        /\ Proper
        /\ options.flags = {f \in Flags : Given(f) # {}}
        /\ \A opt \in Valued :
              \/ Given(opt) = {} /\ options.value[opt] = DefaultOf(opt)
              \/ \E i \in Given(opt) :
                    IsLast(i, Given(opt)) /\ options.value[opt] = ValueAt(i)
        /\ options.pcap = (Given("--read") # {})
        /\ options.report = (Given("--report") # {})

\* A command line is refused for a word without use, or because it asks for
\* contraries and for neither help nor the version: --help is answered beside
\* any options that could stand by themselves.
RefusedForAReason ==
    phase = "refused" /\ Proper =>
        /\ Given("--help") = {} /\ Given("--version") = {}
        /\ \/ Given("--verbose") # {} /\ Given("--quiet") # {}
           \/ Given("--read") # {} /\ Given("--interface") # {}

Assigning(key) == {j \in 1..lineNumber : Sets(file[j]) /\ file[j].key = key}

\* Defaults, file, command line, in this order (main.c:92): a setting is what
\* the command line says of it, else what the last valid line of the file for
\* it says, else its default.  An invalid line between two valid ones changes
\* nothing, nor does a read error.
EffectiveSettings ==
    phase \in {"limits", "ready"} =>
        \A k \in Keys :
            \/ Overridden(k) /\ config[k] = OverrideOf(k)
            \/ ~Overridden(k) /\ Assigning(k) = {} /\ config[k] = DefaultValue(k)
            \/ ~Overridden(k) /\ \E j \in Assigning(k) :
                  IsLast(j, Assigning(k)) /\ config[k] = ValueOf(k, file[j].value)

\* "A bad threshold or typo should not silently make detection unreliable"
\* (README.md:337): a line that says something took effect, gave way to a
\* later line or to the command line, or was warned of by its number; a file
\* not read to its end was warned of; and so was a threshold its rule cannot
\* count to.
NoSilentMistake ==
    phase = "ready" =>
        /\ \A j \in 1..lineNumber :
              \/ file[j].reads = "nothing" \/ j \in warned
              \/ \E k \in Keys :
                    /\ j \in Assigning(k)
                    /\ \/ Overridden(k) \/ config[k] = ValueOf(k, file[j].value)
                       \/ ~IsLast(j, Assigning(k))
        /\ lineNumber < Len(file) => 0 \in warned
        /\ config["port_scan_threshold"] > MaxPorts => "port_scan_threshold" \in told
        /\ \A k \in {"syn_flood_threshold", "icmp_flood_threshold"} :
              config[k] > MaxEvents => k \in told

\* GiftIDSConfig as the rules read it.
DetectorConfig ==
    [synFlood |-> config["enable_syn_flood_detection"],
     portScan |-> config["enable_port_scan_detection"],
     icmpFlood |-> config["enable_icmp_flood_detection"],
     suspiciousPort |-> config["enable_suspicious_port_rule"],
     icmpEcho |-> config["enable_icmp_echo_rule"],
     synWatch |-> config["enable_tcp_syn_watch_rule"],
     synThreshold |-> config["syn_flood_threshold"],
     scanThreshold |-> config["port_scan_threshold"],
     icmpThreshold |-> config["icmp_flood_threshold"],
     synWindow |-> config["syn_flood_window_seconds"],
     scanWindow |-> config["port_scan_window_seconds"],
     icmpWindow |-> config["icmp_flood_window_seconds"],
     cooldown |-> config["alert_cooldown_seconds"]]

\* Whatever the command line and the file say, and also when the file breaks
\* off, detector_init is handed what the rules take for granted: no threshold
\* and no window of 0, with which a rule would claim every packet or none.
SettingsAreSound ==
    phase \in {"limits", "ready"} =>
        DetectorConfig \in ConfigType /\ PositiveLimits(DetectorConfig)
=============================================================================
