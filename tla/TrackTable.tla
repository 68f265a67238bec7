----------------------------- MODULE TrackTable -----------------------------
(***************************************************************************)
(* The fixed arrays in which detector.c keeps what it remembers of a flow: *)
(* port_scan_states, syn_flood_states and icmp_flood_states.  A table is a *)
(* function from slot numbers to slots; a slot has the key of the flow it  *)
(* tracks and its marks, a function from cells to the time the cell was    *)
(* last stamped.                                                           *)
(*                                                                         *)
(*   - In an event table (SYN and ICMP floods) the cells are the entries   *)
(*     of events[]; in the port table they are the destination ports, the  *)
(*     array ports[] being an association from port to last_seen.          *)
(*   - A cell that holds no event is 0, the time the code itself takes for *)
(*     "never seen" (detector.c:219).  Compaction moves the survivors down *)
(*     in the C array; here it empties cells where they are, which no      *)
(*     reader of the table can tell, for all of them count and take minima *)
(*     and maxima.                                                         *)
(*   - A slot with in_use = 0 is one with the key NoKey and no marks.      *)
(***************************************************************************)
EXTENDS Naturals, FiniteSets

CONSTANT NoKey      \* the key of a slot that is not in use

-----------------------------------------------------------------------------
(* Time windows.                                                           *)

\* Mutant of Within: a window is a second too long.
WithinOneMore(now, seen, window) == seen # 0 /\ window > 0 /\ now <= seen + window + 1

\* is_within_window: a mark later than "now" is within every window.
Within(now, seen, window) == seen # 0 /\ window > 0 /\ now <= seen + window

\* The smallest and the largest element of a set of numbers.
Least(S)    == CHOOSE x \in S : \A y \in S : x <= y
Greatest(S) == CHOOSE x \in S : \A y \in S : y <= x

-----------------------------------------------------------------------------
(* Marks.                                                                  *)

Stamped(marks) == {c \in DOMAIN marks : marks[c] # 0}
Count(marks)   == Cardinality(Stamped(marks))
SeenTimes(marks) == {marks[c] : c \in Stamped(marks)}

\* event_time_bounds and port_time_bounds.
FirstSeen(marks) == Least(SeenTimes(marks))
LastSeen(marks)  == Greatest(SeenTimes(marks))

\* Mutant of Fresh: an event that is exactly as old as the window is dropped.
FreshStrictly(marks, now, window) ==
    [c \in DOMAIN marks |->
        IF Within(now, marks[c], window) /\ now < marks[c] + window THEN marks[c] ELSE 0]

\* What compact_event_times and compact_port_scan_state leave.
Fresh(marks, now, window) ==
    [c \in DOMAIN marks |-> IF Within(now, marks[c], window) THEN marks[c] ELSE 0]

NoMarks(cells) == [c \in cells |-> 0]

\* Mutant of RememberEvent: the test of the array's end is missing.
RememberEventUnchecked(marks, now) ==
    LET empty == DOMAIN marks \ Stamped(marks)
        next  == IF empty = {} THEN Count(marks) + 1 ELSE Least(empty)
    IN  [c \in DOMAIN marks \cup {next} |-> IF c = next THEN now ELSE marks[c]]

\* remember_event: the newest event is dropped when the array is full.
RememberEvent(marks, now) ==
    LET empty == DOMAIN marks \ Stamped(marks) IN
    IF empty = {} THEN marks ELSE [marks EXCEPT ![Least(empty)] = now]

\* Mutant of RememberPort: a port seen again keeps the time it was first seen.
RememberPortOnce(marks, port, now, limit) ==
    IF marks[port] = 0 /\ Count(marks) < limit
    THEN [marks EXCEPT ![port] = now]
    ELSE marks

\* remember_unique_port: a port seen again is stamped anew, a new one is
\* taken only below the limit.
RememberPort(marks, port, now, limit) ==
    IF marks[port] # 0 \/ Count(marks) < limit
    THEN [marks EXCEPT ![port] = now]
    ELSE marks

-----------------------------------------------------------------------------
(* Slots and tables.                                                       *)

Slot(cells, times, keys) ==
    [key : keys \cup {NoKey}, marks : [cells -> times \cup {0}]]

FreeSlot(cells) == [key |-> NoKey, marks |-> NoMarks(cells)]

EmptyTable(size, cells) == [i \in 1..size |-> FreeSlot(cells)]

\* Mutants of Compacted: the slot is never given up, or given up with its count
\* left as it was.
CompactedNeverFree(slot, now, window) ==
    [slot EXCEPT !.marks = Fresh(slot.marks, now, window)]

CompactedNoReset(slot, now, window) ==
    LET fresh == Fresh(slot.marks, now, window) IN
    IF Stamped(fresh) = {}
    THEN [slot EXCEPT !.key = NoKey]
    ELSE [slot EXCEPT !.marks = fresh]

\* A slot whose last mark has left the window is given up (in_use = 0).
Compacted(slot, now, window) ==
    LET fresh == Fresh(slot.marks, now, window) IN
    IF Stamped(fresh) = {}
    THEN FreeSlot(DOMAIN slot.marks)
    ELSE [slot EXCEPT !.marks = fresh]

SlotsOf(table, key) == {i \in DOMAIN table : table[i].key = key}

\* Mutant of Swept: only the slot of the flow itself is compacted.
SweptOwnSlot(table, key, now, window) ==
    [i \in DOMAIN table |->
        IF table[i].key = key THEN Compacted(table[i], now, window) ELSE table[i]]

(***************************************************************************)
(* The loop of find_syn_flood_state, find_port_scan_state and              *)
(* find_icmp_flood_state: slots are compacted from the first on, and the   *)
(* search returns at the slot that holds the key, so that the slots behind *)
(* it keep their old marks.                                                *)
(***************************************************************************)
Swept(table, key, now, window) ==
    LET compacted == [i \in DOMAIN table |-> Compacted(table[i], now, window)]
        hits      == SlotsOf(compacted, key)
    IN  [i \in DOMAIN table |->
            IF hits = {} \/ i <= Least(hits) THEN compacted[i] ELSE table[i]]

\* Mutant of Candidates: the search ends at a free slot as at the flow's own.
CandidatesFirst(swept, key) == SlotsOf(swept, key) \cup SlotsOf(swept, NoKey)

\* Mutant of Candidates: with no slot free, another flow's is taken over.
CandidatesEvict(swept, key) ==
    CASE SlotsOf(swept, key) # {}   -> SlotsOf(swept, key)
      [] SlotsOf(swept, NoKey) # {} -> SlotsOf(swept, NoKey)
      [] OTHER                      -> DOMAIN swept

\* The slots the search may answer with once it has swept the table: the
\* one that holds the key, else the first free one.
Candidates(swept, key) ==
    IF SlotsOf(swept, key) # {} THEN SlotsOf(swept, key) ELSE SlotsOf(swept, NoKey)

Put(table, slot, key, marks) == [table EXCEPT ![slot] = [key |-> key, marks |-> marks]]

\* The table after find_..._state and the remember_... that follows it.  When
\* no slot is left the packet is not remembered at all.
TrackEvent(table, key, now, window) ==
    LET swept == Swept(table, key, now, window)
        slot  == Least(Candidates(swept, key))
    IN  IF Candidates(swept, key) = {} THEN swept
        ELSE Put(swept, slot, key, RememberEvent(swept[slot].marks, now))

TrackPort(table, key, port, now, window, limit) ==
    LET swept == Swept(table, key, now, window)
        slot  == Least(Candidates(swept, key))
    IN  IF Candidates(swept, key) = {} THEN swept
        ELSE Put(swept, slot, key, RememberPort(swept[slot].marks, port, now, limit))

\* The marks kept for a key; only asked of a key the table holds.
MarksOf(table, key) == table[Least(SlotsOf(table, key))].marks

\* What the threshold is compared with: 0 stands for find_..._state = NULL.
Tally(table, key) ==
    IF SlotsOf(table, key) = {} THEN 0 ELSE Count(MarksOf(table, key))

\* in_use goes with a count above 0.
SlotInUse(slot) == slot.key = NoKey <=> Stamped(slot.marks) = {}

\* Slots with an event inside the window still belong to their flow and still
\* have the event, or have it renewed by one of the times in "renewals".
LiveKept(before, after, now, window, renewals) ==
    \A i \in DOMAIN before : \A c \in DOMAIN before[i].marks :
        Within(now, before[i].marks[c], window) =>
            /\ after[i].key = before[i].key
            /\ after[i].marks[c] \in {before[i].marks[c]} \cup renewals

\* No two slots track the same flow.
OneSlotPerKey(table) ==
    \A i, j \in DOMAIN table :
        table[i].key = table[j].key /\ table[i].key # NoKey => i = j
=============================================================================
