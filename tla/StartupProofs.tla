--------------------------- MODULE StartupProofs ---------------------------
(***************************************************************************)
(* What Startup promises, for any command line and any configuration file  *)
(* of any length.                                                          *)
(***************************************************************************)
EXTENDS Startup, TLAPS

-----------------------------------------------------------------------------
(* The inductive invariant states the properties of a whole command line   *)
(* and a whole file of what has been read of them so far.                  *)

Before(opt, n) == {i \in 1..(n - 1) : args[i].opt = opt}

ProperBefore(n) == \A i \in 1..(n - 1) : IsFlag(i) \/ IsValue(i) \/ IsTaken(i)

FlagsBefore(n) == \A f \in Flags : f \in options.flags <=> Before(f, n) # {}

ValuesBefore(n) ==
    \A opt \in Valued :
        \/ Before(opt, n) = {} /\ options.value[opt] = DefaultOf(opt)
        \/ \E i \in Before(opt, n) :
              IsLast(i, Before(opt, n)) /\ options.value[opt] = ValueAt(i)

ModesBefore(n) ==
    /\ options.pcap = (Before("--read", n) # {})
    /\ options.report = (Before("--report", n) # {})

\* The word at hand is not the value of the word before it.
Fresh(n) == n > 1 => ~(args[n - 1].kind = "bare" /\ args[n - 1].opt \in Valued)

WordsTaken(n) ==
    ProperBefore(n) /\ FlagsBefore(n) /\ ValuesBefore(n) /\ ModesBefore(n) /\ Fresh(n)

\* Where the words end.
WordsEnd ==
    /\ phase \notin {"args", "refused"} => next = Len(args) + 1
    /\ phase = "refused" =>
          \/ next <= Len(args) /\ ~IsFlag(next) /\ ~IsValue(next)
          \/ next = Len(args) + 1 /\ Conflict

CliInv == WordsTaken(next) /\ WordsEnd

\* What the file has set, and the warnings it was given.
FileSays(k) ==
    \/ Assigning(k) = {} /\ config[k] = DefaultValue(k)
    \/ \E j \in Assigning(k) :
          IsLast(j, Assigning(k)) /\ config[k] = ValueOf(k, file[j].value)

LinesAnswered ==
    \A j \in 1..lineNumber :
        file[j].reads = "nothing" \/ Sets(file[j]) \/ j \in warned

FileEnds ==
    phase \in {"override", "limits", "ready"} /\ lineNumber < Len(file) => 0 \in warned

FileInv ==
    /\ phase \notin {"limits", "ready"} => \A k \in Keys : FileSays(k)
    /\ LinesAnswered /\ FileEnds

\* Every setting is a value of its kind.
Kind(k, v) ==
    /\ k \in NumberKeys => v \in 0..MaxInt
    /\ k \in PositiveKeys => v > 0
    /\ k \in ToggleKeys => v \in BOOLEAN
    /\ k \in PathKeys => v \in TextType

ConfigGood ==
    config = [k \in Keys |-> config[k]] /\ \A k \in Keys : Kind(k, config[k])

ToldAll == phase = "ready" => told = {k \in Thresholds : config[k] > LimitOf(k)}

IInv == TypeOK /\ CliInv /\ FileInv /\ ConfigGood /\ EffectiveSettings /\ ToldAll

-----------------------------------------------------------------------------
(* The command line.                                                       *)

\* The numbers of the words at hand.
LEMMA WordsTyped ==
  ASSUME args \in Seq(WordType), NEW i \in 1..Len(args)
  PROVE  /\ args[i] \in WordType
         /\ args[i].text \in TextType
         /\ args[i].kind = "plain" => args[i].opt = "none"
         /\ args[i].kind \in {"bare", "inline", "plain"}
<1>1. args[i] \in WordType
  OBVIOUS
<1> QED
  BY <1>1 DEF WordType

LEMMA DisjointOptions ==
  /\ "none" \notin Flags /\ "none" \notin Valued
  /\ \A f \in Flags : f \notin Valued
  BY DEF Flags, DisableFlags, Valued, PathOptions

LEMMA DefaultsTyped == NoOptions \in OptionsType
<1>1. \A o \in Valued : DefaultOf(o) \in TextType
  BY DEF DefaultOf, TextType, ConfigPath, WordText, Txt, Number, Empty
<1> QED
  BY <1>1 DEF NoOptions, OptionsType

LEMMA FlagTaken ==
  ASSUME TypeOK, CliInv, TakeFlag
  PROVE  WordsTaken(next)' /\ next' \in 1..(Len(args') + 1) /\ options' \in OptionsType
<1> PICK m : m = next'
  OBVIOUS
<1>1. /\ next \in 1..Len(args) /\ m = next + 1 /\ args' = args
      /\ Len(args) \in Nat
      /\ args[next].kind = "bare" /\ args[next].opt \in Flags
  BY DEF TypeOK, TakeFlag, AtWord, IsFlag
<1> DEFINE f == args[next].opt
<1>2. /\ options \in OptionsType
      /\ options' = [options EXCEPT !.flags = @ \cup {f}]
  BY DEF TypeOK, TakeFlag
<1>3. /\ options'.flags = options.flags \cup {f} /\ options'.value = options.value
      /\ options'.pcap = options.pcap /\ options'.report = options.report
      /\ options' \in OptionsType
  BY <1>1, <1>2 DEF OptionsType
<1>4. \A opt : Before(opt, m)' =
                  IF opt = f THEN Before(opt, next) \cup {next} ELSE Before(opt, next)
  BY <1>1 DEF Before
<1>5. f \in Flags /\ f \notin Valued
  BY <1>1, DisjointOptions
<1>6. ProperBefore(m)'
  BY <1>1 DEF CliInv, WordsTaken, ProperBefore, IsFlag, IsValue, IsTaken, HasValue, ValueAt
<1>7. FlagsBefore(m)'
  BY <1>3, <1>4, <1>5 DEF CliInv, WordsTaken, FlagsBefore
<1>8. ValuesBefore(m)'
  <2> SUFFICES ASSUME NEW opt \in Valued
               PROVE  \/ /\ Before(opt, m)' = {}
                         /\ options'.value[opt] = DefaultOf(opt)
                      \/ \E i \in Before(opt, m)' :
                            /\ IsLast(i, Before(opt, m)')
                            /\ options'.value[opt] = ValueAt(i)'
    BY DEF ValuesBefore, IsLast
  <2>1. Before(opt, m)' = Before(opt, next)
    BY <1>4, <1>5
  <2>2. \A i : ValueAt(i)' = ValueAt(i)
    BY <1>1 DEF ValueAt
  <2> QED
    BY <2>1, <2>2, <1>3 DEF CliInv, WordsTaken, ValuesBefore
<1>9. ModesBefore(m)'
  <2>1. "--read" # f /\ "--report" # f
    BY <1>5 DEF Valued, PathOptions
  <2> QED
    BY <2>1, <1>3, <1>4 DEF CliInv, WordsTaken, ModesBefore
<1>10. Fresh(m)'
  BY <1>1, <1>5 DEF Fresh
<1>11. WordsTaken(m)'
  BY <1>6, <1>7, <1>8, <1>9, <1>10 DEF WordsTaken
<1>12. WordsTaken(next)'
  BY <1>11 DEF WordsTaken, ProperBefore, FlagsBefore, ValuesBefore, ModesBefore,
     Fresh, Before, IsLast
<1> QED
  BY <1>1, <1>3, <1>12

LEMMA ValueTaken ==
  ASSUME TypeOK, CliInv, TakeValue
  PROVE  WordsTaken(next)' /\ next' \in 1..(Len(args') + 1) /\ options' \in OptionsType
<1> DEFINE o == args[next].opt
           t == ValueAt(next)
<1> PICK m : m = next'
  OBVIOUS
<1>1. /\ next \in 1..Len(args) /\ args' = args /\ Len(args) \in Nat
      /\ o \in Valued /\ HasValue(next) /\ IsValue(next)
      /\ m = Behind(next)
  BY DEF TypeOK, TakeValue, AtWord, IsValue
<1>2. \/ args[next].kind = "inline" /\ m = next + 1
      \/ /\ args[next].kind = "bare" /\ m = next + 2 /\ next + 1 \in 1..Len(args)
         /\ args[next + 1].kind = "plain" /\ args[next + 1].opt = "none"
  <2>1. CASE args[next].kind = "inline"
    BY <2>1, <1>1 DEF Behind
  <2>2. CASE args[next].kind # "inline"
    <3>1. /\ args[next].kind = "bare" /\ next + 1 \in 1..Len(args)
          /\ args[next + 1].kind = "plain" /\ m = next + 2
      BY <2>2, <1>1 DEF HasValue, Behind
    <3> QED
      BY <3>1, WordsTyped DEF TypeOK
  <2> QED
    BY <2>1, <2>2
<1>3. t \in TextType
  BY <1>1, <1>2, WordsTyped DEF TypeOK, ValueAt
<1>4. /\ options'.flags = options.flags
      /\ options'.value = [options.value EXCEPT ![o] = t]
      /\ options'.pcap = (options.pcap \/ o = "--read")
      /\ options'.report = (options.report \/ o = "--report")
      /\ options' \in OptionsType
  <2>1. options' = [options EXCEPT !.value[o] = t,
                                   !.pcap = @ \/ o = "--read",
                                   !.report = @ \/ o = "--report"]
    BY DEF TakeValue
  <2> DEFINE value == [options.value EXCEPT ![o] = t]
  <2>2. options \in OptionsType /\ options.value \in [Valued -> TextType]
    BY DEF TypeOK, OptionsType
  <2>3. value \in [Valued -> TextType]
    BY <2>2, <1>3
  <2> HIDE DEF t, o
  <2>4. options' = [flags |-> options.flags, value |-> value,
                    pcap |-> (options.pcap \/ o = "--read"),
                    report |-> (options.report \/ o = "--report")]
    BY <2>1, <2>2 DEF OptionsType
  <2> HIDE DEF value
  <2>5. options.flags \in SUBSET Flags
    BY <2>2 DEF OptionsType
  <2>6. (options.pcap \/ o = "--read") \in BOOLEAN /\ (options.report \/ o = "--report") \in BOOLEAN
    OBVIOUS
  <2>7. options' \in OptionsType
    BY <2>3, <2>4, <2>5, <2>6 DEF OptionsType
  <2> QED
    BY <2>4, <2>7 DEF value
<1>5. \A opt : opt # "none" =>
         Before(opt, m)' =
            IF opt = o THEN Before(opt, next) \cup {next} ELSE Before(opt, next)
  BY <1>1, <1>2 DEF Before
<1>6. m \in 1..(Len(args') + 1) /\ m > next
  BY <1>1, <1>2
<1>7. ProperBefore(m)'
  <2> SUFFICES ASSUME NEW i \in 1..(m - 1)
               PROVE  IsFlag(i) \/ IsValue(i) \/ IsTaken(i)
    BY <1>1 DEF ProperBefore, IsFlag, IsValue, IsTaken, HasValue, ValueAt
  <2>1. CASE i < next
    BY <2>1, <1>1 DEF CliInv, WordsTaken, ProperBefore
  <2>2. CASE i = next
    BY <2>2, <1>1
  <2>3. CASE i > next
    BY <2>3, <1>1, <1>2 DEF IsTaken
  <2> QED
    BY <2>1, <2>2, <2>3, <1>1, <1>6
<1>8. FlagsBefore(m)'
  BY <1>1, <1>4, <1>5, DisjointOptions DEF CliInv, WordsTaken, FlagsBefore
<1>9. ValuesBefore(m)'
  <2>1. \A i : ValueAt(i)' = ValueAt(i)
    BY <1>1 DEF ValueAt
  <2> SUFFICES ASSUME NEW opt \in Valued
               PROVE  \/ /\ Before(opt, m)' = {}
                         /\ options'.value[opt] = DefaultOf(opt)
                      \/ \E i \in Before(opt, m)' :
                            /\ \A j \in Before(opt, m)' : j <= i
                            /\ options'.value[opt] = ValueAt(i)
    BY <2>1 DEF ValuesBefore, IsLast
  <2>2. options.value \in [Valued -> TextType] /\ opt # "none"
    BY DisjointOptions DEF TypeOK, OptionsType
  <2>3. CASE opt = o
    <3>1. options'.value[opt] = ValueAt(next)
      BY <2>2, <2>3, <1>4
    <3>2. Before(opt, m)' = Before(opt, next) \cup {next}
      BY <2>2, <2>3, <1>5
    <3>3. \A j \in Before(opt, next) : j <= next
      BY <1>1 DEF Before
    <3> QED
      BY <3>1, <3>2, <3>3, <1>1
  <2>4. CASE opt # o
    <3>1. options'.value[opt] = options.value[opt]
      BY <2>2, <2>4, <1>4
    <3>2. Before(opt, m)' = Before(opt, next)
      BY <2>2, <2>4, <1>5
    <3> QED
      BY <3>1, <3>2 DEF CliInv, WordsTaken, ValuesBefore, IsLast
  <2> QED
    BY <2>3, <2>4
<1>10. ModesBefore(m)'
  <2>1. /\ Before("--read", m)' # {} <=> Before("--read", next) # {} \/ o = "--read"
        /\ Before("--report", m)' # {} <=> Before("--report", next) # {} \/ o = "--report"
    BY <1>5
  <2>2. /\ options.pcap = (Before("--read", next) # {})
        /\ options.report = (Before("--report", next) # {})
    BY DEF CliInv, WordsTaken, ModesBefore
  <2> QED
    BY <2>1, <2>2, <1>4, Zenon DEF ModesBefore
<1>11. Fresh(m)'
  BY <1>1, <1>2 DEF Fresh
<1>12. WordsTaken(m)'
  BY <1>7, <1>8, <1>9, <1>10, <1>11 DEF WordsTaken
<1> QED
  BY <1>4, <1>6, <1>12 DEF WordsTaken, ProperBefore, FlagsBefore, ValuesBefore,
     ModesBefore, Fresh, Before

\* One step of cli_parse_args.
LEMMA CliStepGood ==
  ASSUME TypeOK, CliInv, CliStep
  PROVE  /\ CliInv' /\ args' = args
         /\ next' \in 1..(Len(args') + 1) /\ options' \in OptionsType
         /\ phase' \in {"args", "refused", "help", "version", "open"}
<1>1. phase = "args"
  BY DEF CliStep, TakeFlag, TakeValue, RefuseWord, AllTaken, AtWord
<1>2. CASE TakeFlag
  <2>1. args' = args /\ phase' = phase
    BY <1>2 DEF TakeFlag
  <2> QED
    BY <2>1, <1>1, <1>2, FlagTaken DEF CliInv, WordsEnd
<1>3. CASE TakeValue
  <2>1. args' = args /\ phase' = phase
    BY <1>3 DEF TakeValue
  <2> QED
    BY <2>1, <1>1, <1>3, ValueTaken DEF CliInv, WordsEnd
<1>4. ASSUME UNCHANGED <<args, next, options>>
      PROVE  WordsTaken(next)'
  BY <1>4 DEF CliInv, WordsTaken, ProperBefore, FlagsBefore, ValuesBefore, ModesBefore,
     Fresh, Before, IsLast, IsFlag, IsValue, IsTaken, HasValue, ValueAt
<1>5. CASE RefuseWord
  <2>1. /\ UNCHANGED <<args, next, options>> /\ phase' = "refused"
        /\ next <= Len(args) /\ ~IsFlag(next) /\ ~IsValue(next)
    BY <1>5 DEF RefuseWord, AtWord
  <2>2. WordsEnd'
    BY <2>1 DEF WordsEnd, IsFlag, IsValue, HasValue, ValueAt
  <2> QED
    BY <2>1, <2>2, <1>4 DEF CliInv, TypeOK
<1>6. CASE AllTaken
  <2>1. /\ UNCHANGED <<args, next, options>>
        /\ phase' \in {"refused", "help", "version", "open"}
        /\ phase' = "refused" => Conflict
        /\ next = Len(args) + 1
    BY <1>6 DEF AllTaken, TypeOK
  <2>2. WordsEnd'
    BY <2>1 DEF WordsEnd, Conflict, Asked
  <2> QED
    BY <2>1, <2>2, <1>4 DEF CliInv, TypeOK
<1> QED
  BY <1>2, <1>3, <1>5, <1>6 DEF CliStep

\* Every other step leaves the command line alone.
LEMMA CliKept ==
  ASSUME CliInv, UNCHANGED <<args, next, options>>,
         phase \notin {"args", "refused"}, phase' \notin {"args", "refused"}
  PROVE  CliInv'
  BY DEF CliInv, WordsTaken, WordsEnd, ProperBefore, FlagsBefore, ValuesBefore, ModesBefore,
     Fresh, Before, IsLast, IsFlag, IsValue, IsTaken, HasValue, ValueAt

-----------------------------------------------------------------------------
(* The configuration file.                                                 *)

\* A valid text is stored as a value of the setting's kind.
LEMMA ValidKind ==
  ASSUME NEW k \in Keys, NEW t \in TextType, Valid(k, t)
  PROVE  Kind(k, ValueOf(k, t))
<1>1. CASE k \in NumberKeys
  <2>1. ValueOf(k, t) = t.n
    <3>1. k \notin ToggleKeys /\ k \notin PathKeys
      BY <1>1 DEF NumberKeys, PositiveKeys, Thresholds, Windows, ToggleKeys, PathKeys
    <3> QED
      BY <1>1, <3>1, Zenon DEF ValueOf
  <2>2. t.n \in Int /\ t.n <= MaxInt /\ t.n >= 0 /\ (k \in PositiveKeys => t.n > 0)
    BY <1>1, WidthAssumption DEF Valid, TextType, NumberKeys, PositiveKeys, Thresholds,
       Windows, ToggleKeys, PathKeys
  <2>3. k \notin ToggleKeys /\ k \notin PathKeys
    BY <1>1 DEF NumberKeys, PositiveKeys, Thresholds, Windows, ToggleKeys, PathKeys
  <2> QED
    BY <2>1, <2>2, <2>3, WidthAssumption DEF Kind
<1>2. CASE k \in ToggleKeys
  <2>1. k \notin NumberKeys /\ k \notin PositiveKeys /\ k \notin PathKeys
    BY <1>2 DEF NumberKeys, PositiveKeys, Thresholds, Windows, ToggleKeys, PathKeys
  <2>2. ValueOf(k, t) = (t.form = "true" \/ IsOne(t))
    BY <1>2, <2>1, Zenon DEF ValueOf
  <2>3. ValueOf(k, t) \in BOOLEAN
    BY <2>2, Zenon
  <2> QED
    BY <2>1, <2>3 DEF Kind
<1>3. CASE k \in PathKeys
  <2>1. k \notin NumberKeys /\ k \notin PositiveKeys /\ k \notin ToggleKeys
    BY <1>3 DEF NumberKeys, PositiveKeys, Thresholds, Windows, ToggleKeys, PathKeys
  <2>2. ValueOf(k, t) = t
    BY <1>3, <2>1 DEF ValueOf
  <2> QED
    BY <2>1, <2>2 DEF Kind
<1> QED
  BY <1>1, <1>2, <1>3 DEF Keys

\* So are the defaults.
LEMMA DefaultKind ==
  ASSUME NEW k \in Keys
  PROVE  Kind(k, DefaultValue(k))
<1>1. CASE k \in NumberKeys
  <2>1. k \notin ToggleKeys /\ k \notin PathKeys
    BY <1>1 DEF NumberKeys, PositiveKeys, Thresholds, Windows, ToggleKeys, PathKeys
  <2>2. \/ k = "syn_flood_threshold" \/ k = "icmp_flood_threshold"
        \/ k \in {"port_scan_threshold", "alert_cooldown_seconds"} \cup Windows
    BY <1>1 DEF NumberKeys, PositiveKeys, Thresholds, Windows
  <2>3. /\ k = "syn_flood_threshold" => k \notin Windows
        /\ k = "icmp_flood_threshold" => k \notin Windows
    BY DEF Windows
  <2>4. DefaultValue(k) \in {10, 20, 30}
    <3>1. CASE k = "syn_flood_threshold"
      BY <3>1, <2>1, <2>3, Zenon DEF DefaultValue
    <3>2. CASE k = "icmp_flood_threshold"
      BY <3>2, <2>1, <2>3, Zenon DEF DefaultValue
    <3>3. CASE k \in {"port_scan_threshold", "alert_cooldown_seconds"} \cup Windows
      <4>1. /\ k # "syn_flood_threshold" /\ k # "icmp_flood_threshold"
            /\ k # "packet_log_file" /\ k # "alert_log_file"
        BY <3>3, <2>3 DEF Windows
      <4> QED
        BY <3>3, <4>1, <2>1, Zenon DEF DefaultValue
    <3> QED
      BY <2>2, <3>1, <3>2, <3>3
  <2> QED
    BY <2>1, <2>4, WidthAssumption DEF Kind
<1>2. CASE k \in ToggleKeys
  <2>1. /\ k \notin NumberKeys /\ k \notin PositiveKeys /\ k \notin PathKeys
        /\ k # "syn_flood_threshold" /\ k # "icmp_flood_threshold"
        /\ k \notin {"port_scan_threshold", "alert_cooldown_seconds"} \cup Windows
        /\ k # "packet_log_file" /\ k # "alert_log_file"
    BY <1>2 DEF NumberKeys, PositiveKeys, Thresholds, Windows, ToggleKeys, PathKeys
  <2>2. DefaultValue(k) = TRUE
    BY <1>2, <2>1, Zenon DEF DefaultValue
  <2>3. DefaultValue(k) \in BOOLEAN
    BY <2>2, Zenon
  <2> QED
    BY <2>1, <2>3 DEF Kind
<1>3. CASE k \in PathKeys
  <2>1. /\ k \notin NumberKeys /\ k \notin PositiveKeys /\ k \notin ToggleKeys
        /\ k # "syn_flood_threshold" /\ k # "icmp_flood_threshold"
        /\ k \notin {"port_scan_threshold", "alert_cooldown_seconds"} \cup Windows
    BY <1>3 DEF NumberKeys, PositiveKeys, Thresholds, Windows, ToggleKeys, PathKeys
  <2>2. WordText(2, 16) \in TextType /\ WordText(3, 23) \in TextType
    BY DEF WordText, TextType
  <2>3. k = "packet_log_file" \/ (k = "alert_log_file" /\ k # "packet_log_file")
    BY <1>3 DEF PathKeys
  <2>4. DefaultValue(k) \in TextType
    <3>1. CASE k = "packet_log_file"
      <4>1. k # "alert_log_file"
        BY <3>1
      <4>2. DefaultValue(k) = WordText(2, 16)
        BY <3>1, <4>1, <2>1, Zenon DEF DefaultValue
      <4> QED
        BY <4>2, <2>2
    <3>2. CASE k = "alert_log_file" /\ k # "packet_log_file"
      <4>1. DefaultValue(k) = WordText(3, 23)
        BY <3>2, <2>1, Zenon DEF DefaultValue
      <4> QED
        BY <4>1, <2>2
    <3> QED
      BY <2>3, <3>1, <3>2
  <2> QED
    BY <2>1, <2>4 DEF Kind
<1> QED
  BY <1>1, <1>2, <1>3 DEF Keys

\* The line at hand is a line.
LEMMA LineTyped ==
  ASSUME file \in Seq(PieceType), NEW j \in 1..Len(file)
  PROVE  file[j].value \in TextType
<1>1. file[j] \in PieceType
  OBVIOUS
<1> QED
  BY <1>1 DEF PieceType

\* One line more has been read.
LEMMA OneMore ==
  ASSUME TypeOK, lineNumber < Len(file), file' = file, lineNumber' = lineNumber + 1
  PROVE  LET n == lineNumber + 1 IN
         /\ n \in 1..Len(file) /\ lineNumber' \in 0..Len(file')
         /\ file[n].value \in TextType
         /\ \A k : Assigning(k)' = IF Sets(file[n]) /\ file[n].key = k
                                   THEN Assigning(k) \cup {n} ELSE Assigning(k)
         /\ \A k : \A j \in Assigning(k) : j <= n
<1> DEFINE n == lineNumber + 1
<1>1. n \in 1..Len(file) /\ Len(file) \in Nat /\ lineNumber \in Nat
  BY DEF TypeOK
<1>2. file[n].value \in TextType
  BY <1>1, LineTyped DEF TypeOK
<1>3. \A k : Assigning(k)' = IF Sets(file[n]) /\ file[n].key = k
                            THEN Assigning(k) \cup {n} ELSE Assigning(k)
  BY <1>1 DEF Assigning
<1>4. \A k : \A j \in Assigning(k) : j <= n
  BY <1>1 DEF Assigning
<1> QED
  BY <1>1, <1>2, <1>3, <1>4

LEMMA AssignGood ==
  ASSUME TypeOK, FileInv, ConfigGood, phase = "load", Assign
  PROVE  /\ ConfigGood' /\ lineNumber' \in 0..Len(file')
         /\ \A k \in Keys : FileSays(k)'
         /\ LinesAnswered' /\ warned' = warned /\ file' = file
<1> DEFINE n == lineNumber + 1
           key == file[n].key
           new == ValueOf(key, file[n].value)
<1>1. /\ lineNumber < Len(file) /\ file' = file /\ lineNumber' = n /\ warned' = warned
      /\ Sets(file[n]) /\ config' = [config EXCEPT ![key] = new]
  BY DEF Assign, MoreLines
<1>2. /\ n \in 1..Len(file) /\ lineNumber' \in 0..Len(file')
      /\ file[n].value \in TextType
      /\ \A k : Assigning(k)' = IF key = k THEN Assigning(k) \cup {n} ELSE Assigning(k)
      /\ \A k : \A j \in Assigning(k) : j <= n
  BY <1>1, OneMore
<1>3. key \in Keys /\ Kind(key, new)
  BY <1>1, <1>2, ValidKind DEF Sets
<1> HIDE DEF new, key
<1>4. \A k \in Keys : config'[k] = IF k = key THEN new ELSE config[k]
  BY <1>1, <1>3 DEF ConfigGood
<1>5. ConfigGood'
  <2>1. config' = [k \in Keys |-> config'[k]]
    BY <1>1 DEF ConfigGood
  <2>2. \A k \in Keys : Kind(k, config'[k])
    BY <1>3, <1>4 DEF ConfigGood
  <2> QED
    BY <2>1, <2>2 DEF ConfigGood, Kind
<1>6. ASSUME NEW k \in Keys PROVE FileSays(k)'
  <2>1. CASE k = key
    <3>1. n \in Assigning(k)' /\ \A j \in Assigning(k)' : j <= n
      BY <2>1, <1>2
    <3>2. config'[k] = ValueOf(k, file'[n].value)
      BY <2>1, <1>1, <1>4 DEF new, key
    <3>3. IsLast(n, Assigning(k)')
      BY <3>1 DEF IsLast
    <3> QED
      BY <3>1, <3>2, <3>3 DEF FileSays, IsLast
  <2>2. CASE k # key
    <3>1. Assigning(k)' = Assigning(k) /\ config'[k] = config[k] /\ file' = file
      BY <2>2, <1>1, <1>2, <1>4
    <3>2. FileSays(k)
      BY DEF FileInv
    <3> QED
      BY <3>1, <3>2 DEF FileSays, IsLast
  <2> QED
    BY <2>1, <2>2
<1>7. LinesAnswered'
  <2>1. \A j \in 1..lineNumber' : j \in 1..lineNumber \/ j = n
    BY <1>1, <1>2 DEF TypeOK
  <2> QED
    BY <2>1, <1>1 DEF FileInv, LinesAnswered
<1> QED
  BY <1>1, <1>2, <1>5, <1>6, <1>7

\* A line that sets nothing, skipped or warned of.
LEMMA PassGood ==
  ASSUME TypeOK, FileInv, ConfigGood, phase = "load", Warn \/ Skip
  PROVE  /\ ConfigGood' /\ lineNumber' \in 0..Len(file')
         /\ \A k \in Keys : FileSays(k)'
         /\ LinesAnswered' /\ warned \subseteq warned'
         /\ warned' \subseteq 0..Len(file') /\ file' = file /\ config' = config
<1> DEFINE n == lineNumber + 1
<1>1. /\ lineNumber < Len(file) /\ file' = file /\ lineNumber' = n /\ config' = config
      /\ ~Sets(file[n])
      /\ Ignored(file[n]) \/ n \in warned'
      /\ warned' = warned \/ warned' = warned \cup {n}
  BY DEF Warn, Skip, MoreLines, Ignored, Sets
<1>2. /\ n \in 1..Len(file) /\ lineNumber' \in 0..Len(file')
      /\ \A k : Assigning(k)' = Assigning(k)
  BY <1>1, OneMore
<1>3. ConfigGood'
  BY <1>1 DEF ConfigGood
<1>4. ASSUME NEW k \in Keys PROVE FileSays(k)'
  <2>1. FileSays(k)
    BY DEF FileInv
  <2> QED
    BY <2>1, <1>1, <1>2 DEF FileSays, IsLast
<1>5. LinesAnswered'
  <2>1. \A j \in 1..lineNumber' : j \in 1..lineNumber \/ j = n
    BY <1>1, <1>2 DEF TypeOK
  <2> QED
    BY <2>1, <1>1 DEF FileInv, LinesAnswered, Ignored
<1>6. warned' \subseteq 0..Len(file')
  BY <1>1, <1>2 DEF TypeOK
<1> QED
  BY <1>1, <1>2, <1>3, <1>4, <1>5, <1>6

\* cli_apply_config_overrides
LEMMA OverrideGood ==
  ASSUME TypeOK, FileInv, ConfigGood, Override
  PROVE  ConfigGood' /\ EffectiveSettings'
<1>1. /\ phase = "override" /\ UNCHANGED <<options, file, lineNumber>>
      /\ config' = [k \in Keys |-> IF Overridden(k) THEN OverrideOf(k) ELSE config[k]]
  BY DEF Override
<1>2. /\ \A k : Overridden(k)' = Overridden(k) /\ OverrideOf(k)' = OverrideOf(k)
      /\ \A k : Assigning(k)' = Assigning(k)
  BY <1>1 DEF Overridden, OverrideOf, Assigning
<1>3. ASSUME NEW k \in Keys, Overridden(k) PROVE Kind(k, OverrideOf(k))
  <2>1. CASE k \in ToggleKeys
    <3>1. k \notin NumberKeys /\ k \notin PositiveKeys /\ k \notin PathKeys
      BY <2>1 DEF NumberKeys, PositiveKeys, Thresholds, Windows, ToggleKeys, PathKeys
    <3>2. OverrideOf(k) = FALSE
      BY <2>1, Zenon DEF OverrideOf
    <3>3. OverrideOf(k) \in BOOLEAN
      BY <3>2, Zenon
    <3> QED
      BY <3>1, <3>3 DEF Kind
  <2>2. CASE k \notin ToggleKeys
    <3>1. k \in PathKeys /\ k \notin NumberKeys /\ k \notin PositiveKeys
      BY <2>2, <1>3 DEF Overridden, NumberKeys, PositiveKeys, Thresholds, Windows, PathKeys
    <3>2. OverrideOf(k) = options.value[PathOptionOf(k)]
      BY <2>2, Zenon DEF OverrideOf
    <3>3. PathOptionOf(k) \in Valued
      BY DEF PathOptionOf, Valued, PathOptions
    <3>4. OverrideOf(k) \in TextType
      BY <3>2, <3>3 DEF TypeOK, OptionsType
    <3> QED
      BY <2>2, <3>1, <3>4 DEF Kind
  <2> QED
    BY <2>1, <2>2
<1>4. \A k \in Keys : config'[k] = IF Overridden(k) THEN OverrideOf(k) ELSE config[k]
  BY <1>1
<1>5. ConfigGood'
  <2>1. config' = [k \in Keys |-> config'[k]]
    BY <1>1
  <2>2. \A k \in Keys : Kind(k, config'[k])
    BY <1>3, <1>4 DEF ConfigGood
  <2> QED
    BY <2>1, <2>2 DEF ConfigGood, Kind
<1>6. ASSUME NEW k \in Keys
      PROVE  \/ Overridden(k)' /\ config'[k] = OverrideOf(k)'
             \/ ~Overridden(k)' /\ Assigning(k)' = {} /\ config'[k] = DefaultValue(k)
             \/ ~Overridden(k)' /\ \E j \in Assigning(k)' :
                   IsLast(j, Assigning(k)') /\ config'[k] = ValueOf(k, file'[j].value)
  <2>1. FileSays(k)
    BY <1>1 DEF FileInv
  <2> QED
    BY <2>1, <1>1, <1>2, <1>4 DEF FileSays
<1>7. EffectiveSettings'
  BY <1>6 DEF EffectiveSettings, IsLast
<1> QED
  BY <1>5, <1>7

-----------------------------------------------------------------------------
(* The whole.                                                              *)

LEMMA InitGood == Init => IInv
<1> SUFFICES ASSUME Init PROVE IInv
  OBVIOUS
<1>1. args \in Seq(WordType) /\ file \in Seq(PieceType)
  BY CaseAssumption DEF Init
<1>2. /\ next = 1 /\ options = NoOptions /\ phase = "args" /\ lineNumber = 0
      /\ config = Defaults /\ warned = {} /\ told = {}
  BY DEF Init
<1>3. Len(args) \in Nat /\ Len(file) \in Nat
  BY <1>1
<1>4. ConfigGood
  <2>1. config = [k \in Keys |-> config[k]] /\ \A k \in Keys : config[k] = DefaultValue(k)
    BY <1>2 DEF Defaults
  <2> QED
    BY <2>1, DefaultKind DEF ConfigGood
<1>5. TypeOK
  <2>1. next \in 1..(Len(args) + 1) /\ lineNumber \in 0..Len(file)
    BY <1>2, <1>3
  <2>2. options \in OptionsType /\ phase \in Phases /\ warned = {} /\ told = {}
    BY <1>2, DefaultsTyped DEF Phases
  <2>3. /\ \A k \in NumberKeys : config[k] \in 0..MaxInt
        /\ \A k \in ToggleKeys : config[k] \in BOOLEAN
        /\ \A k \in PathKeys : config[k] \in TextType
    BY <1>4 DEF ConfigGood, Kind, Keys
  <2> QED
    BY <1>1, <2>1, <2>2, <2>3 DEF TypeOK
<1>6. CliInv
  <2>1. \A o : Before(o, next) = {}
    BY <1>2 DEF Before
  <2>2. /\ options.flags = {} /\ options.pcap = FALSE /\ options.report = FALSE
        /\ \A o \in Valued : options.value[o] = DefaultOf(o)
    BY <1>2 DEF NoOptions
  <2>3. ProperBefore(next) /\ Fresh(next)
    BY <1>2 DEF ProperBefore, Fresh
  <2>4. FlagsBefore(next) /\ ValuesBefore(next)
    BY <2>1, <2>2 DEF FlagsBefore, ValuesBefore
  <2>5. ModesBefore(next)
    BY <2>1, <2>2 DEF ModesBefore
  <2> QED
    BY <1>2, <2>3, <2>4, <2>5 DEF CliInv, WordsTaken, WordsEnd
<1>7. FileInv
  <2>1. \A k \in Keys : Assigning(k) = {} /\ config[k] = DefaultValue(k)
    BY <1>2 DEF Assigning, Defaults
  <2> QED
    BY <1>2, <2>1 DEF FileInv, FileSays, LinesAnswered, FileEnds
<1>8. EffectiveSettings /\ ToldAll
  BY <1>2 DEF EffectiveSettings, ToldAll
<1> QED
  BY <1>4, <1>5, <1>6, <1>7, <1>8 DEF IInv

\* A configuration that stays keeps what is known of it.
LEMMA ConfigKept ==
  ASSUME ConfigGood, config' = config
  PROVE  ConfigGood'
  BY DEF ConfigGood

LEMMA FileKept ==
  ASSUME FileInv, UNCHANGED <<file, lineNumber, config>>, warned \subseteq warned'
  PROVE  LinesAnswered' /\ \A k \in Keys : FileSays(k) => FileSays(k)'
<1>1. LinesAnswered'
  BY DEF FileInv, LinesAnswered
<1>2. \A k : Assigning(k)' = Assigning(k)
  BY DEF Assigning
<1>3. ASSUME NEW k \in Keys, FileSays(k) PROVE FileSays(k)'
  BY <1>2, <1>3 DEF FileSays, IsLast
<1> QED
  BY <1>1, <1>3

LEMMA StepGood == IInv /\ [Next]_vars => IInv'
<1> SUFFICES ASSUME IInv, [Next]_vars PROVE IInv'
  OBVIOUS
<1> USE DEF IInv
<1>1. ASSUME ConfigGood', args' \in Seq(WordType), next' \in 1..(Len(args') + 1),
             options' \in OptionsType, phase' \in Phases,
             file' \in Seq(PieceType), lineNumber' \in 0..Len(file'),
             warned' \subseteq 0..Len(file'), told' \subseteq Thresholds
      PROVE  TypeOK'
  BY <1>1 DEF TypeOK, ConfigGood, Kind, Keys
<1>2. CASE ParseArgs
  <2>1. /\ CliInv' /\ args' = args
        /\ next' \in 1..(Len(args') + 1) /\ options' \in OptionsType
        /\ phase' \in {"args", "refused", "help", "version", "open"}
    BY <1>2, CliStepGood DEF ParseArgs
  <2>2. UNCHANGED <<file, lineNumber, config, warned, told>>
    BY <1>2 DEF ParseArgs, configVars
  <2>3. phase = "args"
    BY <1>2 DEF ParseArgs, CliStep, TakeFlag, TakeValue, RefuseWord, AllTaken, AtWord
  <2>4. ConfigGood'
    BY <2>2, ConfigKept
  <2>5. TypeOK'
    BY <1>1, <2>1, <2>2, <2>4 DEF TypeOK, Phases
  <2>6. FileInv'
    BY <2>1, <2>2, <2>3, FileKept DEF FileInv, FileEnds
  <2>7. EffectiveSettings' /\ ToldAll'
    BY <2>1 DEF EffectiveSettings, ToldAll
  <2> QED
    BY <2>1, <2>4, <2>5, <2>6, <2>7
<1>3. CASE OpenConfig \/ LoadEnds
  <2>1. /\ UNCHANGED <<args, next, options, file, lineNumber, config, told>>
        /\ phase \in {"open", "load"} /\ phase' \in {"load", "override"}
        /\ warned' = warned \/ warned' = warned \cup {0}
        /\ phase' = "override" => 0 \in warned' \/ ~(lineNumber < Len(file))
    BY <1>3 DEF OpenConfig, LoadEnds, MoreLines
  <2>2. ConfigGood' /\ CliInv'
    BY <2>1, ConfigKept, CliKept
  <2>3. 0 \in 0..Len(file)
    BY DEF TypeOK
  <2>4. TypeOK'
    BY <1>1, <2>1, <2>2, <2>3 DEF TypeOK, Phases
  <2>5. FileInv'
    BY <2>1, FileKept DEF FileInv, FileEnds
  <2>6. EffectiveSettings' /\ ToldAll'
    BY <2>1 DEF EffectiveSettings, ToldAll
  <2> QED
    BY <2>2, <2>4, <2>5, <2>6
<1>4. CASE LoadLine
  <2>1. phase = "load" /\ UNCHANGED <<args, next, options, phase, told>>
    BY <1>4 DEF LoadLine, cliVars
  <2>2. /\ ConfigGood' /\ lineNumber' \in 0..Len(file')
        /\ \A k \in Keys : FileSays(k)'
        /\ LinesAnswered' /\ warned' \subseteq 0..Len(file') /\ file' = file
    <3>1. CASE Assign
      BY <2>1, <3>1, AssignGood DEF TypeOK
    <3>2. CASE Warn \/ Skip
      BY <2>1, <3>2, PassGood
    <3> QED
      BY <1>4, <3>1, <3>2 DEF LoadLine, ReadPiece
  <2>3. CliInv'
    BY <2>1, CliKept
  <2>4. TypeOK'
    BY <1>1, <2>1, <2>2 DEF TypeOK
  <2>5. FileInv' /\ EffectiveSettings' /\ ToldAll'
    BY <2>1, <2>2 DEF FileInv, FileEnds, EffectiveSettings, ToldAll
  <2> QED
    BY <2>2, <2>3, <2>4, <2>5
<1>5. CASE Override
  <2>1. /\ UNCHANGED <<args, next, options, file, lineNumber, warned, told>>
        /\ phase = "override" /\ phase' = "limits"
    BY <1>5 DEF Override
  <2>2. ConfigGood' /\ EffectiveSettings' /\ CliInv'
    BY <1>5, <2>1, OverrideGood, CliKept
  <2>3. TypeOK'
    BY <1>1, <2>1, <2>2 DEF TypeOK, Phases
  <2>4. FileInv' /\ ToldAll'
    BY <2>1 DEF FileInv, FileEnds, LinesAnswered, ToldAll
  <2> QED
    BY <2>2, <2>3, <2>4
<1>6. CASE InitDetector
  <2>1. /\ UNCHANGED <<args, next, options, file, lineNumber, config, warned>>
        /\ phase = "limits" /\ phase' = "ready"
        /\ told' = {k \in Thresholds : config[k] > LimitOf(k)}
    BY <1>6 DEF InitDetector, configVars
  <2>2. ConfigGood' /\ CliInv'
    BY <2>1, ConfigKept, CliKept
  <2>3. TypeOK'
    BY <1>1, <2>1, <2>2 DEF TypeOK, Phases
  <2>4. \A k : Assigning(k)' = Assigning(k) /\ Overridden(k)' = Overridden(k)
               /\ OverrideOf(k)' = OverrideOf(k)
    BY <2>1 DEF Assigning, Overridden, OverrideOf
  <2>5. EffectiveSettings'
    BY <2>1, <2>4 DEF EffectiveSettings, IsLast
  <2>6. FileInv' /\ ToldAll'
    BY <2>1 DEF FileInv, FileEnds, LinesAnswered, ToldAll
  <2> QED
    BY <2>2, <2>3, <2>5, <2>6
<1>7. CASE UNCHANGED vars
  <2>1. UNCHANGED <<args, next, options, phase, file, lineNumber, config, warned, told>>
    BY <1>7 DEF vars, cliVars, configVars
  <2>2. ConfigGood'
    BY <2>1, ConfigKept
  <2>3. TypeOK'
    BY <1>1, <2>1, <2>2 DEF TypeOK
  <2>4. CliInv'
    BY <2>1 DEF CliInv, WordsTaken, WordsEnd, ProperBefore, FlagsBefore, ValuesBefore,
       ModesBefore, Fresh, Before, IsLast, IsFlag, IsValue, IsTaken, HasValue, ValueAt,
       Conflict, Asked
  <2>5. FileInv' /\ ToldAll'
    BY <2>1, FileKept DEF FileInv, FileEnds, ToldAll
  <2>6. \A k : Assigning(k)' = Assigning(k) /\ Overridden(k)' = Overridden(k)
               /\ OverrideOf(k)' = OverrideOf(k)
    BY <2>1 DEF Assigning, Overridden, OverrideOf
  <2>7. EffectiveSettings'
    BY <2>1, <2>6 DEF EffectiveSettings, IsLast
  <2> QED
    BY <2>2, <2>3, <2>4, <2>5, <2>7
<1> QED
  BY <1>2, <1>3, <1>4, <1>5, <1>6, <1>7 DEF Next

\* The strengthened invariant holds in every state of the start.
THEOREM StartupInvariant == Spec => []IInv
<1> QED
  BY InitGood, StepGood, PTL DEF Spec

\* The state of the start stays of its type; in particular no number of the
\* file is cut to an int.
THEOREM StartupTypeCorrect == Spec => []TypeOK
<1>1. IInv => TypeOK
  BY DEF IInv
<1> QED
  BY <1>1, StartupInvariant, PTL

\* The options are what the whole command line says.
THEOREM OptionsAreMeant == Spec => []OptionsMeanArgs
<1>1. ASSUME IInv PROVE OptionsMeanArgs
  <2> SUFFICES ASSUME phase \notin {"args", "refused"}
               PROVE  /\ Proper
                      /\ options.flags = {f \in Flags : Given(f) # {}}
                      /\ \A opt \in Valued :
                            \/ Given(opt) = {} /\ options.value[opt] = DefaultOf(opt)
                            \/ \E i \in Given(opt) :
                                  IsLast(i, Given(opt)) /\ options.value[opt] = ValueAt(i)
                      /\ options.pcap = (Given("--read") # {})
                      /\ options.report = (Given("--report") # {})
    BY DEF OptionsMeanArgs
  <2> USE <1>1
  <2>1. /\ next = Len(args) + 1 /\ DOMAIN args = 1..Len(args) /\ Len(args) \in Nat
        /\ WordsTaken(next)
    BY DEF IInv, CliInv, WordsEnd, TypeOK
  <2>2. \A o : Given(o) = Before(o, next)
    BY <2>1 DEF Given, Before
  <2>3. Proper
    BY <2>1 DEF Proper, WordsTaken, ProperBefore
  <2>4. options.flags \subseteq Flags
    BY DEF IInv, TypeOK, OptionsType
  <2> QED
    BY <2>1, <2>2, <2>3, <2>4 DEF WordsTaken, FlagsBefore, ValuesBefore, ModesBefore
<1> QED
  BY <1>1, StartupInvariant, PTL

\* A command line that is refused deserved it.
THEOREM RefusalsAreJust == Spec => []RefusedForAReason
<1>1. ASSUME IInv PROVE RefusedForAReason
  <2> SUFFICES ASSUME phase = "refused", Proper
               PROVE  /\ Given("--help") = {} /\ Given("--version") = {}
                      /\ \/ Given("--verbose") # {} /\ Given("--quiet") # {}
                         \/ Given("--read") # {} /\ Given("--interface") # {}
    BY DEF RefusedForAReason
  <2> USE <1>1
  <2>1. WordsTaken(next) /\ DOMAIN args = 1..Len(args) /\ Len(args) \in Nat /\ next \in Nat
    BY DEF IInv, CliInv, TypeOK
  <2>2. next = Len(args) + 1 /\ Conflict
    <3>1. CASE next <= Len(args) /\ ~IsFlag(next) /\ ~IsValue(next)
      <4>1. next \in DOMAIN args
        BY <2>1, <3>1 DEF IInv, TypeOK
      <4>2. IsTaken(next)
        BY <3>1, <4>1 DEF Proper
      <4> QED
        BY <2>1, <4>2 DEF IsTaken, WordsTaken, Fresh
    <3> QED
      BY <3>1 DEF IInv, CliInv, WordsEnd
  <2>3. \A o : Given(o) = Before(o, next)
    BY <2>1, <2>2 DEF Given, Before
  <2>4. \A f \in Flags : f \in options.flags <=> Given(f) # {}
    BY <2>1, <2>3 DEF WordsTaken, FlagsBefore
  <2>5. {"--help", "--version", "--verbose", "--quiet"} \subseteq Flags
    BY DEF Flags
  <2>6. options.pcap = (Given("--read") # {})
    BY <2>1, <2>3 DEF WordsTaken, ModesBefore
  <2>7. ~IsEmpty(options.value["--interface"]) => Given("--interface") # {}
    <3>1. "--interface" \in Valued /\ IsEmpty(DefaultOf("--interface"))
      BY DEF Valued, DefaultOf, IsEmpty, Empty, WordText
    <3> QED
      BY <2>1, <2>3, <3>1 DEF WordsTaken, ValuesBefore
  <2>8. Acceptable("--report-format", options.value["--report-format"])
    <3> DEFINE o == "--report-format"
    <3>1. o \in Valued /\ Acceptable(o, DefaultOf(o))
      BY DEF Valued, DefaultOf, Acceptable, Txt, Fits, FieldSize
    <3>2. ASSUME NEW i \in Before(o, next) PROVE Acceptable(o, ValueAt(i))
      <4>1. i \in 1..(next - 1) /\ args[i].opt = o
        BY DEF Before
      <4>2. o \notin Flags /\ o # "none"
        BY DEF Flags, DisableFlags
      <4>3. i \in 1..Len(args) /\ args[i].kind # "plain"
        BY <2>1, <2>2, <4>1, <4>2, WordsTyped DEF IInv, TypeOK
      <4>4. IsValue(i)
        BY <2>1, <4>1, <4>2, <4>3 DEF WordsTaken, ProperBefore, IsFlag, IsTaken
      <4> QED
        BY <4>1, <4>4 DEF IsValue
    <3> HIDE DEF o
    <3>3. Acceptable(o, options.value[o])
      BY <2>1, <3>1, <3>2 DEF WordsTaken, ValuesBefore
    <3> QED
      BY <3>3 DEF o
  <2> QED
    BY <2>2, <2>4, <2>5, <2>6, <2>7, <2>8 DEF Conflict, Asked
<1> QED
  BY <1>1, StartupInvariant, PTL

\* Defaults, file, command line, in this order.
THEOREM SettingsTakeEffect == Spec => []EffectiveSettings
<1>1. IInv => EffectiveSettings
  BY DEF IInv
<1> QED
  BY <1>1, StartupInvariant, PTL

\* No mistake goes without a warning.
THEOREM MistakesAreTold == Spec => []NoSilentMistake
<1>1. ASSUME IInv, phase = "ready"
      PROVE  NoSilentMistake
  <2> USE <1>1
  <2>1. ASSUME NEW j \in 1..lineNumber, file[j].reads # "nothing", j \notin warned
        PROVE  \E k \in Keys :
                  /\ j \in Assigning(k)
                  /\ \/ Overridden(k) \/ config[k] = ValueOf(k, file[j].value)
                     \/ ~IsLast(j, Assigning(k))
    <3> DEFINE k == file[j].key
    <3>1. Sets(file[j])
      BY <2>1 DEF IInv, FileInv, LinesAnswered
    <3>2. k \in Keys /\ j \in Assigning(k)
      BY <3>1 DEF Sets, Assigning
    <3> HIDE DEF k
    <3>3. Overridden(k) \/ \E i \in Assigning(k) :
             IsLast(i, Assigning(k)) /\ config[k] = ValueOf(k, file[i].value)
      BY <3>2 DEF IInv, EffectiveSettings
    <3>4. ASSUME NEW i \in Assigning(k), IsLast(i, Assigning(k)), IsLast(j, Assigning(k))
          PROVE  i = j
      <4>1. i \in Nat /\ j \in Nat /\ i <= j /\ j <= i
        BY <3>2, <3>4 DEF IsLast, Assigning, IInv, TypeOK
      <4> QED
        BY <4>1
    <3> QED
      BY <3>2, <3>3, <3>4
  <2>2. lineNumber < Len(file) => 0 \in warned
    BY DEF IInv, FileInv, FileEnds
  <2>3. told = {k \in Thresholds : config[k] > LimitOf(k)}
    BY DEF IInv, ToldAll
  <2>4. /\ config["port_scan_threshold"] > MaxPorts => "port_scan_threshold" \in told
        /\ \A k \in {"syn_flood_threshold", "icmp_flood_threshold"} :
              config[k] > MaxEvents => k \in told
    BY <2>3 DEF LimitOf, Thresholds
  <2> QED
    BY <2>1, <2>2, <2>4 DEF NoSilentMistake
<1>2. IInv => NoSilentMistake
  BY <1>1 DEF NoSilentMistake
<1> QED
  BY <1>2, StartupInvariant, PTL

\* What main hands to detector_init satisfies the assumption Detector makes of
\* its configurations.
THEOREM DetectorGetsSoundSettings == Spec => []SettingsAreSound
<1>1. ASSUME IInv PROVE DetectorConfig \in ConfigType /\ PositiveLimits(DetectorConfig)
  <2>1. /\ \A k \in NumberKeys : config[k] \in Nat
        /\ \A k \in PositiveKeys : config[k] > 0
        /\ \A k \in ToggleKeys : config[k] \in BOOLEAN
    BY <1>1, WidthAssumption DEF IInv, ConfigGood, Kind, Keys, NumberKeys
  <2>2. DetectorConfig \in ConfigType
    BY <2>1 DEF DetectorConfig, ConfigType, NumberKeys, PositiveKeys, Thresholds, Windows,
       ToggleKeys
  <2>3. PositiveLimits(DetectorConfig)
    BY <2>1 DEF DetectorConfig, PositiveLimits, PositiveKeys, Thresholds, Windows
  <2> QED
    BY <2>2, <2>3
<1>2. IInv => SettingsAreSound
  BY <1>1 DEF SettingsAreSound
<1> QED
  BY <1>2, StartupInvariant, PTL
=============================================================================
