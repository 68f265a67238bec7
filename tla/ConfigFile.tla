------------------------------ MODULE ConfigFile ------------------------------
(***************************************************************************)
(* config_set_defaults and config_load.  The file is what fgets makes of   *)
(* it: a sequence of pieces of at most 511 characters, of which a line     *)
(* longer than that gives several.  config_load takes every piece for a    *)
(* line of its own.                                                        *)
(***************************************************************************)
EXTENDS Texts

Thresholds   == {"port_scan_threshold", "syn_flood_threshold", "icmp_flood_threshold"}
Windows      == {"port_scan_window_seconds", "syn_flood_window_seconds",
                 "icmp_flood_window_seconds"}
PositiveKeys == Thresholds \cup Windows
NumberKeys   == PositiveKeys \cup {"alert_cooldown_seconds"}
ToggleKeys   == {"enable_suspicious_port_rule", "enable_tcp_syn_watch_rule",
                 "enable_icmp_echo_rule", "enable_port_scan_detection",
                 "enable_syn_flood_detection", "enable_icmp_flood_detection"}
PathKeys     == {"packet_log_file", "alert_log_file"}
Keys         == NumberKeys \cup ToggleKeys \cup PathKeys

\* What a piece reads as: nothing (blank or a comment), no "=" in it, nothing
\* before its "=", or key=value, both trimmed.
PieceType ==
    [reads : {"nothing", "noEquals", "noKey", "setting"},
     key : Keys \cup {"unknown"}, value : TextType]

VARIABLES
    file,        \* the pieces of the file
    lineNumber,  \* line_number: pieces read
    config,      \* config of main
    warned       \* the line numbers warned of

configVars == <<file, lineNumber, config, warned>>

PathSize == 256

\* config_set_defaults
DefaultValue(key) ==
    CASE key = "syn_flood_threshold"  -> 30
      [] key = "icmp_flood_threshold" -> 20
      [] key \in {"port_scan_threshold", "alert_cooldown_seconds"} \cup Windows -> 10
      [] key \in ToggleKeys           -> TRUE
      [] key = "packet_log_file"      -> WordText(2, 16)
      [] key = "alert_log_file"       -> WordText(3, 23)

Defaults == [k \in Keys |-> DefaultValue(k)]

-----------------------------------------------------------------------------
IsOne(t)  == IsNumber(t) /\ t.n = 1 /\ t.len = 1
IsZero(t) == IsNumber(t) /\ t.n = 0 /\ t.len = 1

\* Mutant of Valid: strtol's long is cast to int.
ValidUnbounded(key, t) ==
    \/ key \in PositiveKeys /\ IsNumber(t) /\ t.n > 0
    \/ key = "alert_cooldown_seconds" /\ IsNumber(t) /\ t.n >= 0
    \/ key \in ToggleKeys /\ (t.form \in {"true", "false"} \/ IsOne(t) \/ IsZero(t))
    \/ key \in PathKeys /\ ~IsEmpty(t) /\ Fits(t, PathSize)

\* Mutant of Valid: a threshold or a window may be 0.
ValidAnyNumber(key, t) ==
    \/ key \in NumberKeys /\ IsNumber(t) /\ t.n >= 0 /\ t.n <= MaxInt
    \/ key \in ToggleKeys /\ (t.form \in {"true", "false"} \/ IsOne(t) \/ IsZero(t))
    \/ key \in PathKeys /\ ~IsEmpty(t) /\ Fits(t, PathSize)

\* parse_positive_int, parse_non_negative_int, parse_bool_value, and the two
\* tests of set_path_value
Valid(key, t) ==
    \/ key \in PositiveKeys /\ IsNumber(t) /\ t.n > 0 /\ t.n <= MaxInt
    \/ key = "alert_cooldown_seconds" /\ IsNumber(t) /\ t.n >= 0 /\ t.n <= MaxInt
    \/ key \in ToggleKeys /\ (t.form \in {"true", "false"} \/ IsOne(t) \/ IsZero(t))
    \/ key \in PathKeys /\ ~IsEmpty(t) /\ Fits(t, PathSize)

ValueOf(key, t) ==
    CASE key \in NumberKeys -> t.n
      [] key \in ToggleKeys -> t.form = "true" \/ IsOne(t)
      [] key \in PathKeys   -> t

Sets(piece)   == piece.reads = "setting" /\ piece.key \in Keys /\ Valid(piece.key, piece.value)
Ignored(piece) == piece.reads = "nothing"

MoreLines == lineNumber < Len(file)

\* Mutant of Assign: a warning resets the value to its default.
AssignOrReset ==
    /\ MoreLines
    /\ LET piece == file[lineNumber + 1] IN
       /\ ~Ignored(piece)
       /\ \/ Sets(piece) /\ config' = [config EXCEPT ![piece.key] = ValueOf(piece.key, piece.value)]
          \/ /\ ~Sets(piece) /\ piece.key \in Keys
             /\ config' = [config EXCEPT ![piece.key] = DefaultValue(piece.key)]
    /\ lineNumber' = lineNumber + 1
    /\ UNCHANGED <<file, warned>>

\* set_int_value, set_non_negative_int_value, set_bool_value, set_path_value
Assign ==
    /\ MoreLines
    /\ LET piece == file[lineNumber + 1] IN
       /\ Sets(piece)
       /\ config' = [config EXCEPT ![piece.key] = ValueOf(piece.key, piece.value)]
    /\ lineNumber' = lineNumber + 1
    /\ UNCHANGED <<file, warned>>

\* A malformed piece, an unknown key or an invalid value: the current value
\* stays.
Warn ==
    /\ MoreLines
    /\ ~Sets(file[lineNumber + 1]) /\ ~Ignored(file[lineNumber + 1])
    /\ lineNumber' = lineNumber + 1
    /\ warned' = warned \cup {lineNumber'}
    /\ UNCHANGED <<file, config>>

Skip ==
    /\ MoreLines
    /\ Ignored(file[lineNumber + 1])
    /\ lineNumber' = lineNumber + 1
    /\ UNCHANGED <<file, config, warned>>

ReadPiece == Assign \/ Warn \/ Skip
=============================================================================
