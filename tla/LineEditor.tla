------------------------------- MODULE LineEditor -------------------------------
(***************************************************************************)
(* The line editor of a terminal (drivers/physical/tty/readline.c) and the *)
(* part of tty.c that prints for it: one line under a cursor and a mark,   *)
(* prefix arguments, a history whose entries may be edited, and where the  *)
(* line is on the screen.                                                  *)
(*                                                                         *)
(* Only the line's own characters are modelled of what is on the screen:   *)
(* `origin' is where its first one is, prompt_end_y where the editor       *)
(* believes it is.  Beeps are left out; they only take time.               *)
(*                                                                         *)
(* The model stops, with clash_e, where the code                           *)
(*   "mark"     uses the mark before anything has set it;                  *)
(*   "extent"   deletes with a prefix argument more characters than there  *)
(*              are, or less than none;                                    *)
(*   "freed"    loads a history entry that rl_add_history() has freed, to  *)
(*              make room for the line being left or to replace it;        *)
(*   "trimmed"  frees the entry that it is to replace because the history  *)
(*              is full, and makes the edited line the newest one;         *)
(*   "count"    frees an entry without counting it;                        *)
(*   "last"     looks for an entry before the only one;                    *)
(*   "scrolled" prints a line that does not fit below its start: the       *)
(*              screen scrolls and the editor does not know;               *)
(*   "page"     clears beyond the end of the screen.                       *)
(***************************************************************************)
EXTENDS Integers, Sequences, SequencesExt, FiniteSets

CONSTANTS
    Letters,            \* characters
    Cols, Rows,         \* of the screen
    Digits,             \* that a prefix argument is made of
    rl_history_max,
    MaxLength, MaxTyped \* characters in a line, and keys that are typed

VARIABLES
    line, cursor_pos, mark_pos,     \* of the line being edited
    rl_history,         \* entries [id, text, pos], the newest first
    rl_history_size,
    current_item,       \* the entry being edited, or NULL
    arg,                \* the prefix argument: <<>> or <<n>>
    had,                \* keys that prefix the next one: "", "esc", "esc[", "ctrl_x", "ctrl_x esc"
    place,              \* [x, y]: prompt_end_x and prompt_end_y
    origin,             \* the row in which the line really starts
    cursor,             \* where the terminal's cursor is, [x, y]
    bottom,             \* history: the line that was left for an entry
    typed, clash_e

evars == <<line, cursor_pos, mark_pos, rl_history, rl_history_size, current_item, arg, had, place, origin,
           cursor, bottom, typed, clash_e>>

NULL == 0
Unset == -1
History == <<rl_history, rl_history_size, current_item, bottom>>

-----------------------------------------------------------------------------
(* Where characters are.                                                    *)

rl_find_pos(p, at) == [x |-> (at + p.x) % Cols, y |-> p.y + (at + p.x) \div Cols]

\* rl_find_cursor() and rl_set_cursor(): scroll until the cursor is on the screen.
Scrolls(p, at) == LET y == rl_find_pos(p, at).y IN IF y >= Rows THEN y - Rows + 1 ELSE 0
Up(p, n) == [p EXCEPT !.y = @ - n]

rl_find_cursor(at) ==
    LET p == Up(place, Scrolls(place, at))
    IN  /\ place' = p /\ origin' = origin - Scrolls(place, at)
        /\ cursor' = rl_find_pos(p, at)

\* tty_printn() of the characters up to the last scrolls when there is no row for one.
Overflows(p, text) == text # <<>> /\ rl_find_pos(p, Len(text) - 1).y >= Rows

\* tty_clear_chars(): counts bytes where the length is in characters, two bytes each.
Clears(p, at, n) == LET q == rl_find_pos(p, at) IN 2 * (q.y * Cols + q.x + n) > 2 * Cols * Rows

-----------------------------------------------------------------------------
Free == CHOOSE i \in 1..(rl_history_max + 2) : \A e \in ToSet(rl_history) : e.id # i
Index(h, id) == SelectInSeq(h, LAMBDA e : e.id = id)

\* Trimming in rl_add_history(): from the oldest entry until there is room.
Trim(h, size) == SubSeq(h, 1, Len(h) - (IF size >= rl_history_max THEN size - rl_history_max + 1 ELSE 0))

\* rl_add_history(): the line, in place of the entry `item' or as the newest one.
rl_add_history(item) ==
    LET h == Trim(rl_history, rl_history_size)
        size == rl_history_size - (Len(rl_history) - Len(h))
        i == Index(h, item)
        same == i # 0 /\ Len(h[i].text) = Len(line)
        new == [id |-> IF same THEN item ELSE Free, text |-> line, pos |-> cursor_pos]
    IN  [list |-> IF i = 0 THEN <<new>> \o h ELSE [h EXCEPT ![i] = new],
         size |-> IF i = 0 THEN size + 1 ELSE size,
         current |-> IF Index(h, current_item) = 0 THEN NULL ELSE current_item]

\* Mutant: the entry that is taken out is still the current one.
rl_load_history_freed(r, id) ==
    LET e == r.list[Index(r.list, id)]
    IN  /\ line' = e.text /\ cursor_pos' = e.pos /\ mark_pos' = 0
        /\ rl_history' = SelectSeq(r.list, LAMBDA x : x # e \/ e # Head(r.list))
        /\ rl_history_size' = Len(rl_history') /\ current_item' = id
        /\ rl_find_cursor(e.pos)
        /\ UNCHANGED clash_e

\* rl_load_history(): the newest entry is the line at the bottom, and is taken out.
rl_load_history(r, id) ==
    LET e == r.list[Index(r.list, id)]
        first == Head(r.list).id = id
    IN  /\ line' = e.text /\ cursor_pos' = e.pos /\ mark_pos' = 0
        /\ rl_history' = IF first THEN Tail(r.list) ELSE r.list
        /\ rl_history_size' = IF first THEN r.size - 1 ELSE r.size
        /\ current_item' = IF first THEN NULL ELSE id
        /\ rl_find_cursor(e.pos)
        /\ clash_e' = IF Clears(place, 0, Len(line)) THEN "page"
                      ELSE IF Overflows(place', e.text) THEN "scrolled" ELSE clash_e

\* rl_use_history(): leave the line in the history, load another.
rl_use_history(id) ==
    LET r == rl_add_history(current_item)
    IN  /\ bottom' = IF current_item = NULL THEN line ELSE bottom
        /\ IF Index(r.list, id) = 0 \/ r.current # current_item
           THEN /\ clash_e' = IF Index(r.list, id) = 0 THEN "freed" ELSE "trimmed"
                /\ UNCHANGED <<line, cursor_pos, mark_pos, rl_history, rl_history_size, current_item,
                               place, origin, cursor>>
           ELSE rl_load_history(r, id)

\* rl_enter_history(): of two equal lines in a row only one is kept.
rl_enter_history ==
    LET item == IF current_item = NULL THEN NULL ELSE Head(rl_history).id
        r == rl_add_history(item)
        n == IF current_item = NULL THEN 1 ELSE 2
    IN  IF line = <<>> THEN UNCHANGED <<rl_history, rl_history_size, clash_e>>
        ELSE IF rl_history # <<>> /\ n > Len(rl_history)
        THEN clash_e' = "last" /\ UNCHANGED <<rl_history, rl_history_size>>
        ELSE IF rl_history # <<>> /\ rl_history[n].text = line
        THEN /\ rl_history' = IF item = NULL THEN rl_history ELSE Tail(rl_history)
             /\ clash_e' = IF item = NULL THEN clash_e ELSE "count"
             /\ UNCHANGED rl_history_size
        ELSE rl_history' = r.list /\ rl_history_size' = r.size /\ UNCHANGED clash_e

-----------------------------------------------------------------------------
(* Commands.                                                                *)

PREFIX_ARG == IF arg = <<>> THEN 1 ELSE arg[1]

\* A key has been read in the given context; a new argument is for the next one.
Key(context) == clash_e = "none" /\ typed < MaxTyped /\ typed' = typed + 1 /\ had = context
Then(prefix, new) == had' = prefix /\ arg' = new
Done == Then("", <<>>)

Moved(pos) == cursor_pos' = pos /\ rl_find_cursor(pos)
Screen == <<place, origin, cursor>>

rl_forward_char(n) ==
    LET pos == cursor_pos + n
    IN  /\ Moved(IF pos < 0 THEN 0 ELSE IF pos > Len(line) THEN Len(line) ELSE pos)
        /\ UNCHANGED <<line, mark_pos, History, clash_e>>

rl_line_end(pos) == Moved(pos) /\ UNCHANGED <<line, mark_pos, History, clash_e>>

\* rl_insert(), of one character.
rl_self_insert(c) ==
    /\ Len(line) < MaxLength
    /\ line' = InsertAt(line, cursor_pos + 1, c)
    /\ mark_pos' = IF mark_pos # Unset /\ mark_pos >= cursor_pos THEN mark_pos + 1 ELSE mark_pos
    /\ Moved(cursor_pos + 1)
    /\ clash_e' = IF Overflows(place', line') THEN "scrolled" ELSE clash_e
    /\ UNCHANGED History

\* Positions after the characters from start on are gone.
Left(pos, start, n) == IF pos < start THEN pos ELSE IF pos < start + n THEN start ELSE pos - n

\* Mutant: the mark does not follow.
rl_delete_unmarked(start, n) ==
    /\ n >= 0 /\ start + n <= Len(line)
    /\ line' = SubSeq(line, 1, start) \o SubSeq(line, start + n + 1, Len(line))
    /\ Moved(Left(cursor_pos, start, n))
    /\ UNCHANGED <<mark_pos, History, clash_e>>

rl_delete(start, n) ==
    LET new == SubSeq(line, 1, start) \o SubSeq(line, start + n + 1, Len(line))
    IN  /\ n >= 0 /\ start + n <= Len(line)
        /\ line' = new
        /\ mark_pos' = IF mark_pos = Unset THEN Unset ELSE Left(mark_pos, start, n)
        /\ Moved(Left(cursor_pos, start, n))
        /\ clash_e' = IF Clears(place, Len(new), n) THEN "page" ELSE clash_e
        /\ UNCHANGED History

Extent ==
    /\ clash_e' = "extent"
    /\ UNCHANGED <<line, cursor_pos, mark_pos, History, Screen>>

Delete(start, n) == IF n >= 0 /\ start >= 0 /\ start + n <= Len(line) THEN rl_delete(start, n) ELSE Extent

rl_backward_delete_char ==
    LET start == cursor_pos - PREFIX_ARG
    IN  IF start < 0 THEN Delete(0, PREFIX_ARG + start) ELSE Delete(start, PREFIX_ARG)

rl_set_mark == mark_pos' = cursor_pos /\ UNCHANGED <<line, cursor_pos, History, Screen, clash_e>>

rl_exchange_point_and_mark ==
    /\ IF mark_pos = Unset THEN clash_e' = "mark" /\ UNCHANGED <<cursor_pos, mark_pos, Screen>>
       ELSE mark_pos' = cursor_pos /\ Moved(mark_pos) /\ UNCHANGED clash_e
    /\ UNCHANGED <<line, History>>

Beep == UNCHANGED <<line, cursor_pos, mark_pos, History, Screen, clash_e>>

\* rl_next_history(): n entries newer; from the line at the bottom the newest
\* entry is the next older one.
rl_next_history(n) ==
    LET at == IF current_item # NULL THEN Index(rl_history, current_item) - n ELSE 1 - (n + 1)
    IN  IF rl_history # <<>> /\ at \in 1..Len(rl_history) THEN rl_use_history(rl_history[at].id) ELSE Beep

rl_beginning_of_history == IF rl_history # <<>> THEN rl_use_history(Last(rl_history).id) ELSE Beep
rl_end_of_history ==
    IF current_item # NULL /\ rl_history # <<>> THEN rl_use_history(Head(rl_history).id) ELSE Beep

\* A line is entered, and the next readline() starts below it.
Enter ==
    /\ Key("") /\ Done
    /\ rl_enter_history
    /\ line' = <<>> /\ cursor_pos' = 0 /\ mark_pos' = Unset
    /\ current_item' = NULL /\ bottom' = <<>>
    /\ LET end == rl_find_pos(place, Len(line))
           row == IF end.y >= Rows - 1 THEN Rows - 1 ELSE end.y + 1
       IN  place' = [x |-> place.x, y |-> row] /\ origin' = row /\ cursor' = [x |-> place.x, y |-> row]

\* Keys without a prefix, each followed by nothing to remember.
Plain ==
    /\ Key("") /\ Done
    /\ \/ rl_forward_char(PREFIX_ARG) \/ rl_forward_char(-PREFIX_ARG)
       \/ rl_line_end(0) \/ rl_line_end(Len(line))
       \/ cursor_pos # Len(line) /\ Delete(cursor_pos, PREFIX_ARG)
       \/ rl_backward_delete_char
       \/ rl_set_mark
       \/ rl_next_history(PREFIX_ARG) \/ rl_next_history(-PREFIX_ARG)
       \/ \E c \in Letters : rl_self_insert(c)

\* Escape and C-x are keys too: an argument does not survive them, so that only a
\* plain key has one, of one digit or a minus sign.
Prefix ==
    /\ \/ Key("") /\ \E p \in {"esc", "ctrl_x"} : Then(p, <<>>)
       \/ Key("ctrl_x") /\ Then("ctrl_x esc", <<>>)
       \/ Key("esc") /\ Then("esc[", <<>>)
    /\ Beep

Argument ==
    /\ Key("esc") /\ Beep
    /\ \/ Then("", IF arg = <<>> THEN <<-1>> ELSE <<-arg[1]>>)
       \/ \E d \in Digits : Then("", IF arg = <<>> THEN <<d>> ELSE <<10 * arg[1] + (IF arg[1] >= 0 THEN d ELSE -d)>>)

Escaped ==
    \/ Key("esc") /\ Done /\ (rl_beginning_of_history \/ rl_end_of_history)
    \/ Key("ctrl_x") /\ Done /\ rl_exchange_point_and_mark
    \/ Key("ctrl_x esc") /\ Done /\ Beep
    \/ Key("esc[") /\ Done /\ \/ rl_next_history(PREFIX_ARG) \/ rl_next_history(-PREFIX_ARG)
                              \/ rl_forward_char(PREFIX_ARG) \/ rl_forward_char(-PREFIX_ARG)

-----------------------------------------------------------------------------
EInit ==
    /\ line = <<>> /\ cursor_pos = 0 /\ mark_pos = Unset
    /\ rl_history = <<>> /\ rl_history_size = 0 /\ current_item = NULL /\ bottom = <<>>
    /\ arg = <<>> /\ had = ""
    /\ place = [x |-> 1, y |-> 0] /\ origin = 0 /\ cursor = place
    /\ typed = 0 /\ clash_e = "none"

ENext == Plain \/ Prefix \/ Argument \/ Escaped \/ Enter

ESpec == EInit /\ [][ENext]_evars

-----------------------------------------------------------------------------
\* The cursor and the mark stay in the line whatever is inserted, deleted or
\* loaded, the terminal's cursor is on the screen under the character that the
\* next key acts on, and the editor knows where its line starts.
CursorInLine ==
    clash_e = "none" =>
        /\ cursor_pos \in 0..Len(line)
        /\ mark_pos # Unset => mark_pos \in 0..Len(line)
        /\ place.y = origin /\ cursor = rl_find_pos(place, cursor_pos)
        /\ cursor.x \in 0..(Cols - 1) /\ cursor.y < Rows

\* The history is bounded and counted, the entry being edited is in it and not
\* freed, and while an older entry is edited the newest one is the line that was
\* being typed, however far one has gone back: coming down again finds it.
HistoryKeepsLine ==
    clash_e = "none" =>
        /\ rl_history_size = Len(rl_history) /\ Len(rl_history) <= rl_history_max
        /\ Cardinality({e.id : e \in ToSet(rl_history)}) = Len(rl_history)
        /\ \A e \in ToSet(rl_history) : e.pos \in 0..Len(e.text)
        /\ current_item # NULL => /\ Index(rl_history, current_item) > 1
                                  /\ Head(rl_history).text = bottom
=============================================================================
