----------------------------- MODULE MCStartup -----------------------------
(***************************************************************************)
(* Instances of Startup: all short command lines with one file, and all    *)
(* short files with a few command lines.                                   *)
(***************************************************************************)
EXTENDS Startup

Bare(opt)      == [kind |-> "bare", opt |-> opt, text |-> Empty]
Inline(opt, t) == [kind |-> "inline", opt |-> opt, text |-> t]
Plain(t)       == [kind |-> "plain", opt |-> "none", text |-> t]

Name == WordText(9, 5)
Long == WordText(9, 256)

Words ==
    {Bare(opt) : opt \in {"--help", "--quiet", "--verbose", "--disable-syn-flood",
                         "--read", "--count", "--packet-log", "unknown"}}
    \cup {Plain(t) : t \in {Name, Empty, Number(0), Number(7)}}
    \cup {Inline(opt, Name) : opt \in {"--read", "--interface"}}
    \cup {Inline("--count", t) : t \in {Number(5), Number(MaxLong)}}
    \cup {Inline("--packet-log", t) : t \in {Name, Empty, Long}}
    \cup {Inline("--report-format", t) : t \in {Txt, Name}}

Line(key, t) == [reads |-> "setting", key |-> key, value |-> t]
Other(reads) == [reads |-> reads, key |-> "unknown", value |-> Empty]

Lines ==
    {Line("port_scan_threshold", t) :
        t \in {Number(n) : n \in {0, 1, MaxPorts + 1, MaxInt + 1}} \cup {Name}}
    \cup {Line("alert_cooldown_seconds", t) : t \in {Number(-1), Number(0)}}
    \cup {Line("icmp_flood_window_seconds", Number(0))}
    \cup {Line("enable_syn_flood_detection", t) :
              t \in {Number(1), Number(0), [Number(1) EXCEPT !.len = 2],
                     [form |-> "false", n |-> 0, len |-> 5]}}
    \cup {Line("packet_log_file", t) : t \in {Name, Empty, Long}}
    \cup {Other(reads) : reads \in {"nothing", "noEquals", "noKey", "setting"}}

UpTo(n, elements) == UNION {[1..m -> elements] : m \in 0..n}

AnyArgs == UpTo(3, Words) \X {<<Line("enable_syn_flood_detection", Number(1))>>}
AnyFile == {<<>>, <<Bare("--disable-syn-flood"), Inline("--packet-log", Name)>>}
           \X UpTo(3, Lines)

ShortCases == AnyArgs \cup AnyFile
=============================================================================
