-------------------------------- MODULE Texts --------------------------------
(***************************************************************************)
(* The texts that settings are given as, on the command line and in the    *)
(* configuration file, as far as cli.c and config.c tell them apart: what  *)
(* a text reads as, and how long it is.                                    *)
(***************************************************************************)
EXTENDS Integers, Sequences

CONSTANTS
    MaxInt,      \* INT_MAX
    MaxLong      \* LONG_MAX

ASSUME WidthAssumption ==
    MaxInt \in Nat /\ MaxLong \in Nat /\ 30 <= MaxInt /\ MaxInt <= MaxLong

\* "number": strtol reads all of it, as n (beyond MaxLong: with ERANGE).
\* "true" and "false" stand for yes and no too, in any case of letters.  Any
\* other text is a "word"; n tells words of one length apart.
TextType ==
    [form : {"number", "true", "false", "txt", "json", "word"}, n : Int, len : Nat]

WordText(n, len) == [form |-> "word", n |-> n, len |-> len]
Number(n)        == [form |-> "number", n |-> n, len |-> 1]
Empty            == WordText(0, 0)

IsEmpty(t)   == t.len = 0
IsNumber(t)  == t.form = "number" /\ ~IsEmpty(t)
Fits(t, size) == t.len < size      \* with its terminating 0
=============================================================================
