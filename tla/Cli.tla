--------------------------------- MODULE Cli ---------------------------------
(***************************************************************************)
(* cli_parse_args: the words of the command line, taken from left to right *)
(* until one is refused, and the tests that follow the last one.           *)
(***************************************************************************)
EXTENDS Texts

DisableFlags ==
    {"--disable-suspicious-port", "--disable-syn-watch", "--disable-icmp-echo",
     "--disable-port-scan", "--disable-syn-flood", "--disable-icmp-flood"}
Flags ==
    {"--stats", "--json", "--no-packet-log", "--no-alert-log", "--verbose", "--quiet",
     "--help", "--version"} \cup DisableFlags
PathOptions == {"--config", "--read", "--packet-log", "--alert-log", "--report"}
Valued == PathOptions \cup {"--interface", "--report-format", "--count"}

\* A "bare" word is an option by itself, -i, -c and -h among them; "inline" is
\* --option=text; "plain" is a word that does not begin with a dash.  The
\* option is "unknown" for every other word that begins with one, as -i=eth0
\* or --stats=1.
WordType ==
    [kind : {"bare", "inline"}, opt : Flags \cup Valued \cup {"unknown"}, text : TextType]
    \cup [kind : {"plain"}, opt : {"none"}, text : TextType]

\* GiftIDSRuntimeOptions.  max_packets is the text --count was given; 0 stands
\* for no limit.
OptionsType ==
    [flags : SUBSET Flags, value : [Valued -> TextType], pcap : BOOLEAN, report : BOOLEAN]

VARIABLES
    args,        \* argv, without the program's name
    next,        \* index of the word at hand
    options,     \* options of main
    phase        \* how far the start of the program has come

cliVars == <<args, next, options, phase>>

ConfigPath == WordText(1, 19)    \* GIFTIDS_CONFIG_PATH
Txt        == [form |-> "txt", n |-> 0, len |-> 3]

DefaultOf(opt) ==
    CASE opt = "--config"        -> ConfigPath
      [] opt = "--report-format" -> Txt
      [] opt = "--count"         -> Number(0)
      [] OTHER                   -> Empty

\* cli_set_defaults
NoOptions ==
    [flags |-> {}, value |-> [o \in Valued |-> DefaultOf(o)], pcap |-> FALSE, report |-> FALSE]

-----------------------------------------------------------------------------
\* Mutant of HasValue: an option word is taken as the value of another.
HasValueOfAnyKind(i) ==
    \/ args[i].kind = "inline" /\ ~IsEmpty(args[i].text)
    \/ args[i].kind = "bare" /\ i < Len(args)

\* next_value: --option= needs a text behind the sign; otherwise the next word
\* is the value, even an empty one, unless it begins with a dash.
HasValue(i) ==
    \/ args[i].kind = "inline" /\ ~IsEmpty(args[i].text)
    \/ args[i].kind = "bare" /\ i < Len(args) /\ args[i + 1].kind = "plain"

ValueAt(i) == IF args[i].kind = "inline" THEN args[i].text ELSE args[i + 1].text
Behind(i)  == IF args[i].kind = "inline" THEN i + 1 ELSE i + 2

FieldSize(opt) ==
    CASE opt = "--interface"     -> 64
      [] opt = "--report-format" -> 16
      [] OTHER                   -> 256

\* parse_positive_long, set_string_option and is_supported_report_format
Acceptable(opt, t) ==
    \/ opt = "--count" /\ IsNumber(t) /\ t.n > 0 /\ t.n < MaxLong
    \/ opt = "--report-format" /\ Fits(t, FieldSize(opt)) /\ t.form \in {"txt", "json"}
    \/ opt \notin {"--count", "--report-format"} /\ Fits(t, FieldSize(opt))

IsFlag(i)  == args[i].kind = "bare" /\ args[i].opt \in Flags
IsValue(i) == /\ args[i].opt \in Valued
              /\ HasValue(i)
              /\ Acceptable(args[i].opt, ValueAt(i))

AtWord == phase = "args" /\ next <= Len(args)

TakeFlag ==
    /\ AtWord /\ IsFlag(next)
    /\ options' = [options EXCEPT !.flags = @ \cup {args[next].opt}]
    /\ next' = next + 1
    /\ UNCHANGED <<args, phase>>

TakeValue ==
    /\ AtWord /\ IsValue(next)
    /\ LET opt == args[next].opt IN
       options' = [options EXCEPT !.value[opt] = ValueAt(next),
                                  !.pcap = @ \/ opt = "--read",
                                  !.report = @ \/ opt = "--report"]
    /\ next' = Behind(next)
    /\ UNCHANGED <<args, phase>>

\* A missing, overlong or unusable value, an unknown option, a stray word.  A
\* report format may have been copied by then; nobody looks at it any more.
RefuseWord ==
    /\ AtWord /\ ~IsFlag(next) /\ ~IsValue(next)
    /\ phase' = "refused"
    /\ UNCHANGED <<args, next, options>>

Asked(flag) == flag \in options.flags

\* Mutant of Conflict: --help does not come first.
ConflictAnyway ==
    \/ Asked("--verbose") /\ Asked("--quiet")
    \/ options.pcap /\ ~IsEmpty(options.value["--interface"])
    \/ ~Acceptable("--report-format", options.value["--report-format"])

Conflict ==
    /\ ~Asked("--help") /\ ~Asked("--version")
    /\ \/ Asked("--verbose") /\ Asked("--quiet")
       \/ options.pcap /\ ~IsEmpty(options.value["--interface"])
       \/ ~Acceptable("--report-format", options.value["--report-format"])

\* The end of cli_parse_args, and what main makes of the options.
AllTaken ==
    /\ phase = "args" /\ next > Len(args)
    /\ phase' = IF Conflict THEN "refused"
                ELSE IF Asked("--help") THEN "help"
                ELSE IF Asked("--version") THEN "version"
                ELSE "open"
    /\ UNCHANGED <<args, next, options>>

CliStep == TakeFlag \/ TakeValue \/ RefuseWord \/ AllTaken
=============================================================================
