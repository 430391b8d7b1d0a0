--------------------------------- MODULE Console ---------------------------------
(***************************************************************************)
(* The real keyboard and the consoles that share it: decoding of scan      *)
(* codes (drivers/physical/kbd/kbd.c), keyboards that cook keys into       *)
(* characters for a task (cooked.c), and the list of terminals, of which   *)
(* the first has the keyboard (drivers/physical/tty/tty.c).                *)
(*                                                                         *)
(* kbd_handler() runs in the kernel's task, before every other one, and    *)
(* terminals are opened and closed under forbid(): each is one step.  The  *)
(* task that reads a terminal may be preempted between any two of its      *)
(* steps, and so may a machine's task that brings its terminal to the      *)
(* front when its program turns the speaker on (vkbd.c).  An ESC or SysRq  *)
(* that calls the shell only opens or brings up a terminal, which others   *)
(* do here.  The keyboard's own protocol (kbd_send_data()) is taken to     *)
(* succeed.                                                                *)
(*                                                                         *)
(* The model stops, with clash_k, where the code                           *)
(*   "asleep"  suspends a reader after its key has come: the key's handler *)
(*             found nobody to wake, or woke it before it slept;           *)
(*   "focus"   leaves the keyboard with a terminal that is freed: the last *)
(*             one, or one from which tty_to_front() has not taken it yet; *)
(*   "between" gives the keyboard to a terminal that has meanwhile been    *)
(*             sent to the back: tty_to_front() calls permit() before it   *)
(*             moves the focus;                                            *)
(*   "cut"     stores only the first characters of a key's string.         *)
(***************************************************************************)
EXTENDS Integers, Sequences, SequencesExt, FiniteSets, FiniteSetsExt

CONSTANTS
    Ttys,
    Readers,            \* those whose tasks read characters
    PhysicalKeys,       \* keys that are pressed and released, see Make
    COOKED_BUFSIZ,
    MaxStrokes, MaxOpened

VARIABLES
    wire,               \* scan codes that the keyboard has sent and nobody has read
    down,               \* keys that are down
    shift_state, prev_scancode,     \* of kbd_handler()
    tty_list, current_tty,
    kbd_focus, in_focus,
    fronting,           \* the terminals whose tasks are between the halves of tty_to_front()
    lock_state,         \* of each terminal's keyboard: whether caps lock is on
    lights,             \* of the real keyboard
    ring,               \* of each: characters for the reader
    receiver,           \* of each: whether a task waits in receiver.task.task
    reader,             \* of each: "", "empty", "stored", "asleep"
    strokes, opened, clash_k

kvars == <<wire, down, shift_state, prev_scancode, tty_list, current_tty, kbd_focus, in_focus, fronting, lock_state,
           lights, ring, receiver, reader, strokes, opened, clash_k>>

None == "none"
Foreground == <<tty_list, current_tty, kbd_focus, in_focus, lights>>

-----------------------------------------------------------------------------
(* The real keyboard (external).                                            *)

ShiftKeys == {"left_shift", "left_alt", "right_alt", "left_ctrl"}

Make(k) ==
    CASE k = "left_shift" -> <<\h2A>> [] k = "left_alt" -> <<\h38>> [] k = "left_ctrl" -> <<\h1D>>
      [] k = "right_alt" -> <<\hE0, \h38>>
      [] k = "a" -> <<\h1E>> [] k = "caps" -> <<\h3A>> [] k = "plus" -> <<\h4E>> [] k = "minus" -> <<\h4A>>
      [] k = "home" -> <<\hE0, \h2A, \hE0, \h47>>
      [] k = "pause" -> <<\hE1, \h1D, \h45, \hE1, \h9D, \hC5>>

Break(k) ==
    CASE k = "pause" -> <<>>
      [] k = "home" -> <<\hE0, \hC7, \hE0, \hAA>>
      [] OTHER -> [i \in DOMAIN Make(k) |-> IF Make(k)[i] < \h80 THEN Make(k)[i] + \h80 ELSE Make(k)[i]]

stroke(k) ==
    /\ clash_k = "none" /\ strokes < MaxStrokes /\ strokes' = strokes + 1
    /\ down' = SymDiff(down, {k})
    /\ wire' = wire \o (IF k \in down THEN Break(k) ELSE Make(k))
    /\ UNCHANGED <<shift_state, prev_scancode, Foreground, lock_state, ring, receiver, reader, opened, fronting, clash_k>>

-----------------------------------------------------------------------------
(* Terminals.  A function of [list, current, focus, in_focus, lights].      *)

Now == [list |-> tty_list, current |-> current_tty, focus |-> kbd_focus, in_focus |-> in_focus, lights |-> lights]

Set(new) ==
    /\ tty_list' = new.list /\ current_tty' = new.current
    /\ kbd_focus' = new.focus /\ in_focus' = new.in_focus /\ lights' = new.lights

Without(s, t) == SelectSeq(s, LAMBDA x : x # t)

\* kbd_switch(); cooked_switch_to() lights the terminal's own lock state.
kbd_switch(c, t) ==
    IF c.focus = t THEN c
    ELSE [c EXCEPT !.focus = t, !.in_focus = (@ \ {c.focus}) \cup {t}, !.lights = lock_state[t]]

\* Mutant: the terminal is current, and the keyboard stays where it is.
tty_to_front_deaf(c, t) ==
    IF c.current = t THEN c
    ELSE [c EXCEPT !.list = <<t>> \o Without(@, t), !.current = t]

tty_to_front(c, t) ==
    IF c.current = t THEN c
    ELSE kbd_switch([c EXCEPT !.list = <<t>> \o Without(@, t), !.current = t], t)

next_tty(c) ==
    IF Len(c.list) < 2 THEN c
    ELSE tty_to_front([c EXCEPT !.list = Append(Without(@, c.current), c.current)], c.list[2])

prev_tty(c) == IF c.list = <<>> THEN c ELSE tty_to_front(c, Last(c.list))

\* open_tty(), with init_cooked_kbd() and cooked_set_task().
open_tty(t) ==
    /\ clash_k = "none" /\ t \notin ToSet(tty_list) /\ opened < MaxOpened /\ opened' = opened + 1
    /\ lock_state' = [lock_state EXCEPT ![t] = FALSE]
    /\ ring' = [ring EXCEPT ![t] = <<>>] /\ receiver' = [receiver EXCEPT ![t] = FALSE]
    /\ Set([list |-> <<t>> \o tty_list, current |-> t, focus |-> t,
            in_focus |-> (in_focus \ {kbd_focus}) \cup {t}, lights |-> FALSE])
    /\ UNCHANGED <<wire, down, shift_state, prev_scancode, reader, strokes, fronting, clash_k>>

\* vkbd_write_port(): a machine's task calls tty_to_front() outside forbid(), ...
to_front_begins(t) ==
    /\ clash_k = "none" /\ t \in ToSet(tty_list) \ fronting /\ current_tty # t
    /\ Set([Now EXCEPT !.list = <<t>> \o Without(@, t), !.current = t])
    /\ fronting' = fronting \cup {t}
    /\ UNCHANGED <<wire, down, shift_state, prev_scancode, lock_state, ring, receiver, reader, strokes, opened, clash_k>>

\* ... and is preempted before it moves the focus.  Nothing is wrong if the
\* terminal that is current now will get the keyboard in the same way.
to_front_ends(t) ==
    /\ clash_k = "none" /\ t \in fronting /\ fronting' = fronting \ {t}
    /\ Set(kbd_switch(Now, t))
    /\ clash_k' = IF current_tty \notin fronting THEN "between" ELSE clash_k
    /\ UNCHANGED <<wire, down, shift_state, prev_scancode, lock_state, ring, receiver, reader, strokes, opened>>

\* close_tty(), by the task that reads it, or by kill_vm() when it has frozen the
\* machine's task, wherever that was.
close_tty(t) ==
    LET rest == [Now EXCEPT !.list = Without(@, t)]
    IN  /\ clash_k = "none" /\ t \in ToSet(tty_list) /\ reader[t] = ""
        /\ IF current_tty # t THEN Set(rest) /\ clash_k' = IF kbd_focus = t THEN "focus" ELSE clash_k
           ELSE IF rest.list = <<>> THEN Set([rest EXCEPT !.current = None]) /\ clash_k' = "focus"
           ELSE /\ LET new == tty_to_front(rest, Head(rest.list)) IN Set([new EXCEPT !.in_focus = @ \ {t}])
                /\ UNCHANGED clash_k
        /\ fronting' = fronting \ {t}
        /\ UNCHANGED <<wire, down, shift_state, prev_scancode, lock_state, ring, receiver, reader, strokes, opened>>

-----------------------------------------------------------------------------
(* kbd_handler(), one scan code.                                            *)

\* What a code stands for after the codes before it: the key, or None.
Decoded(code) ==
    LET key == code % \h80
    IN  CASE prev_scancode = \hE0 -> CASE key = \h38 -> "right_alt" [] key = \h47 -> "home" [] OTHER -> None
          [] prev_scancode = \hE1 /\ key = \h1D -> None
          [] prev_scancode = \h100 /\ key = \h45 -> "pause"
          [] key = \h2A -> "left_shift" [] key = \h38 -> "left_alt" [] key = \h1D -> "left_ctrl"
          [] key = \h1E -> "a" [] key = \h3A -> "caps" [] key = \h4E -> "plus" [] key = \h4A -> "minus"
          [] OTHER -> None

Remembered(code) ==
    CASE code \in {\hE0, \hE1} -> code
      [] prev_scancode = \hE0 -> 0
      [] prev_scancode = \hE1 /\ code % \h80 = \h1D -> \h100
      [] prev_scancode = \h100 /\ code % \h80 = \h45 -> 0
      [] OTHER -> prev_scancode

set_shift_state(k, up) ==
    IF k \notin ShiftKeys THEN shift_state ELSE IF up THEN shift_state \ {k} ELSE shift_state \cup {k}

\* cook_keycode(): the string for a key.
cook_keycode(k, shift, caps) ==
    CASE k = "a" -> IF caps # ("left_shift" \in shift) THEN <<"A">> ELSE <<"a">>
      [] k = "home" -> <<"^", "[", "H">>
      [] k \in {"plus", "minus"} -> <<k>>
      [] OTHER -> <<>>

\* Mutant: the reader is not woken.
cooked_use_key_asleep(t, k, shift) ==
    /\ ring' = [ring EXCEPT ![t] = @ \o cook_keycode(k, shift, lock_state[t])]
    /\ UNCHANGED <<lock_state, lights, clash_k, receiver, reader>>

\* cooked_use_key(), for a key that is pressed.
cooked_use_key(t, k, shift) ==
    LET caps == IF k = "caps" THEN ~lock_state[t] ELSE lock_state[t]
        str == cook_keycode(k, shift, caps)
        fit == COOKED_BUFSIZ - 1 - Len(ring[t])
        wakes == str # <<>> /\ receiver[t]
    IN  /\ lock_state' = [lock_state EXCEPT ![t] = caps]
        /\ lights' = IF k = "caps" THEN caps ELSE lights
        /\ ring' = [ring EXCEPT ![t] = @ \o SubSeq(str, 1, Min({Len(str), fit}))]
        /\ clash_k' = IF Len(str) > fit /\ fit > 0 THEN "cut" ELSE clash_k
        /\ receiver' = IF wakes THEN [receiver EXCEPT ![t] = FALSE] ELSE receiver
        /\ reader' = IF wakes /\ reader[t] = "asleep" THEN [reader EXCEPT ![t] = ""] ELSE reader

\* Alt with a key of the keypad changes the terminal; the rest goes to the one in front.
kbd_handler ==
    LET code == Head(wire)
        k == IF code \in {\hE0, \hE1} THEN None ELSE Decoded(code)
        up == code >= \h80
        switches == k \in {"plus", "minus"} /\ {"left_alt", "right_alt"} \cap shift_state # {}
        shift == set_shift_state(k, up)
    IN  /\ clash_k = "none" /\ wire # <<>> /\ wire' = Tail(wire)
        /\ prev_scancode' = Remembered(code)
        /\ IF switches THEN UNCHANGED shift_state ELSE shift_state' = shift
        /\ IF switches /\ ~up
           THEN Set(IF k = "plus" THEN next_tty(Now) ELSE prev_tty(Now))
           ELSE UNCHANGED <<tty_list, current_tty, kbd_focus, in_focus>>
        /\ IF k # None /\ ~switches /\ ~up /\ kbd_focus # None
           THEN cooked_use_key(kbd_focus, k, shift)
           ELSE UNCHANGED <<lock_state, ring, receiver, reader, clash_k>> /\ (~(switches /\ ~up) => UNCHANGED lights)
        /\ UNCHANGED <<down, strokes, opened, fronting>>

-----------------------------------------------------------------------------
(* cooked_read_char(), by the task of each terminal.                        *)

Reads(t, step) == clash_k = "none" /\ t \in ToSet(tty_list) /\ reader[t] = step
Rest == <<wire, down, shift_state, prev_scancode, Foreground, lock_state, strokes, opened, fronting>>

read_test(t) ==
    /\ Reads(t, "")
    /\ IF ring[t] # <<>> THEN ring' = [ring EXCEPT ![t] = Tail(@)] /\ UNCHANGED reader
       ELSE reader' = [reader EXCEPT ![t] = "empty"] /\ UNCHANGED ring
    /\ UNCHANGED <<Rest, receiver, clash_k>>

read_store(t) ==
    /\ Reads(t, "empty")
    /\ receiver' = [receiver EXCEPT ![t] = TRUE] /\ reader' = [reader EXCEPT ![t] = "stored"]
    /\ UNCHANGED <<Rest, ring, clash_k>>

read_suspend(t) ==
    /\ Reads(t, "stored")
    /\ reader' = [reader EXCEPT ![t] = "asleep"]
    /\ clash_k' = IF ring[t] # <<>> THEN "asleep" ELSE clash_k
    /\ UNCHANGED <<Rest, ring, receiver>>

-----------------------------------------------------------------------------
KInit ==
    /\ wire = <<>> /\ down = {} /\ shift_state = {} /\ prev_scancode = 0
    /\ tty_list = <<>> /\ current_tty = None /\ kbd_focus = None /\ in_focus = {} /\ lights = FALSE
    /\ fronting = {}
    /\ lock_state = [t \in Ttys |-> FALSE] /\ ring = [t \in Ttys |-> <<>>]
    /\ receiver = [t \in Ttys |-> FALSE] /\ reader = [t \in Ttys |-> ""]
    /\ strokes = 0 /\ opened = 0 /\ clash_k = "none"

KNext ==
    \/ \E k \in PhysicalKeys : stroke(k)
    \/ kbd_handler
    \/ \E t \in Ttys : open_tty(t) \/ close_tty(t)
    \/ \E t \in Ttys \ Readers : to_front_begins(t) \/ to_front_ends(t)
    \/ \E t \in Readers : read_test(t) \/ read_store(t) \/ read_suspend(t)

KSpec == KInit /\ [][KNext]_kvars

-----------------------------------------------------------------------------
\* However terminals are opened, closed, cycled through and brought to the front,
\* the first of the list is the current one and has the keyboard with its lights,
\* or its task has yet to move it there, and no other terminal believes to have it
\* (tty_to_front, next_tty, prev_tty, close_tty, kbd_switch); and once all codes are
\* read, the shift state is that of the keys held down, also of keys whose codes
\* begin with another key's or are wrapped in a fake shift.
KeyboardFollows ==
    clash_k = "none" =>
        /\ IF tty_list = <<>> THEN current_tty = None /\ kbd_focus = None
           ELSE /\ current_tty = Head(tty_list) /\ kbd_focus \in ToSet(tty_list) /\ in_focus = {kbd_focus}
                /\ kbd_focus = current_tty \/ current_tty \in fronting
                /\ lights = lock_state[kbd_focus]
        /\ IsInjective(tty_list)
        /\ wire = <<>> => shift_state = down \cap ShiftKeys /\ prev_scancode = 0

\* A task that sleeps for a key has none waiting, and the next key wakes it
\* (cooked_read_char, cooked_use_key).
ReaderIsWoken ==
    clash_k = "none" => \A t \in Ttys : reader[t] = "asleep" => ring[t] = <<>> /\ receiver[t]
=============================================================================
