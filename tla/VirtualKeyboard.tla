---------------------------- MODULE VirtualKeyboard ----------------------------
(***************************************************************************)
(* The keyboard of a virtual machine (drivers/virtual/vkbd/vkbd.c): a ring *)
(* of scan codes between the task that handles the real keyboard and the   *)
(* guest, which reads it through the ports of an 8042 or lets the BIOS do  *)
(* so.  The guest must know which shift keys are held although it only     *)
(* sees keys while its console is in front.                                *)
(*                                                                         *)
(* Exceptions of the guest are not preempted, and the keyboard's task has  *)
(* a higher priority, so each handler is one step; the BIOS handler sleeps *)
(* while it beeps.  The flags of a code say that the BIOS passes over it:  *)
(* the tables hold signed characters, so there every code from 80 on has   *)
(* them.  The enable bits (of the command byte and of port 61) are not     *)
(* modelled: nothing looks at them.                                        *)
(*                                                                         *)
(* The model stops, with clash_b, where the code                           *)
(*   "lost"    drops codes: the ring is full, or a command empties it;     *)
(*   "arrow"   sends K_E0_UP with num lock or a shift key: its sequences   *)
(*             press or release a real shift key and never undo it;        *)
(*   "ralt"    announces the right alt key as E0 18 in vkbd_switch_to();   *)
(*   "phantom" puts a shift key, or the release of one, into the BIOS'     *)
(*             buffer as if it had been typed;                             *)
(*   "resend"  steps back in the ring: the flags do not follow, and from   *)
(*             position 0 it steps to -1;                                  *)
(*   "masked"  raises no interrupt for the codes that waited while the     *)
(*             guest had disabled them;                                    *)
(*   "port"    takes the guest's value for the flag in the output port.    *)
(***************************************************************************)
EXTENDS Integers, Sequences, SequencesExt, FiniteSets

CONSTANTS
    Keys,               \* key codes of the keys that are used
    Ring,               \* 16 in the code
    BiosRoom,           \* keys that the BIOS' buffer holds
    MaxKeys, MaxWrites  \* keys pressed or released, consoles switched; commands of the guest

VARIABLES
    vk,                 \* struct vkbd, see VInit
    held,               \* keys that are down; the shift keys among them are kbd.c's shift_state
    focus, leds,        \* whether its console is in front; the lights of the real keyboard
    pending,            \* IRQ 1 waits in the machine's vpic
    gate,               \* its A20 gate
    guest,              \* what it makes of the codes
    turns,              \* [keys, writes]: what may still happen
    clash_b

bvars == <<vk, held, focus, leds, pending, gate, guest, turns, clash_b>>

-----------------------------------------------------------------------------
(* Keys and scan codes.                                                     *)

LeftShift == \h2A
RightShift == \h36
LeftAlt == \h38
RightAlt == \h64
LeftCtrl == \h1D
RightCtrl == \h61
NumLock == \h45
Up == \h67
ShiftKeys == {LeftShift, RightShift, LeftAlt, RightAlt, LeftCtrl, RightCtrl}
Locks == {\h3A, NumLock, \h46}

shift_state(down) == down \cap ShiftKeys

\* The code after E0, for the keys from 60 on.
Extended(k) ==
    CASE k = \h60 -> \h1C [] k = \h61 -> \h1D [] k = \h62 -> \h35 [] k = \h63 -> \h37 [] k = \h64 -> \h38
      [] k \in \h66..\h68 -> \h47 + (k - \h66) [] k = \h69 -> \h4B [] k = \h6A -> \h4D
      [] OTHER -> \h4F + (k - \h6B)

\* Which tables vkbd_use_key() takes.
Mode(shift, lock) ==
    CASE NumLock \in lock -> IF {LeftShift, RightShift} \cap shift # {} THEN "plain" ELSE "num"
      [] OTHER -> IF LeftShift \in shift THEN "left" ELSE IF RightShift \in shift THEN "right" ELSE "plain"

\* The key that the tables pretend to be pressed or released around a key.
Fake(mode) == CASE mode = "num" -> LeftShift [] mode = "left" -> LeftShift + \h80 [] OTHER -> RightShift + \h80
Opposite(code) == (code + \h80) % \h100
Wrapped(k, mode) == mode # "plain" /\ (k \in \h66..\h6F \/ (k = \h62 /\ mode # "num"))

down_remap(k, mode) ==
    CASE k = \h63 -> <<\hE0, \h2A, \hE0, \h37>>
      [] k = \h65 -> <<\hE0, \h46, \hE0, \hC6>>
      [] k = \h7B -> <<\hE1, \h1D, \h45, \hE1, \h9D, \hC5>>
      [] k = Up /\ mode # "plain" -> <<Fake(mode), \h48, \hE0, \h48>>
      [] OTHER -> (IF Wrapped(k, mode) THEN <<\hE0, Fake(mode)>> ELSE <<>>) \o <<\hE0, Extended(k)>>

up_remap(k, mode) ==
    CASE k \in {\h65, \h7B} -> <<>>
      [] k = \h63 -> <<\hE0, \hAA, \hE0, \hB7>>
      [] OTHER -> <<\hE0, Extended(k) + \h80>> \o (IF Wrapped(k, mode) THEN <<\hE0, Opposite(Fake(mode))>> ELSE <<>>)

-----------------------------------------------------------------------------
(* The ring.  A code is [code, skip]: skip stands for VK_BUF_UP_KEY and     *)
(* VK_BUF_SHIFT.                                                            *)

Code(c, skip) == [code |-> c, skip |-> skip]
Plain(s) == [i \in DOMAIN s |-> Code(s[i], FALSE)]
\* Answers to commands: what they are is left out, a guest knows that they are none of its keys.
Answer == \hFA
Answers(n) == [i \in 1..n |-> Code(Answer, FALSE)]
Fits(v, s) == Len(v.buf) + Len(s) < Ring

\* vkbd_in(), for each code of s in turn: what does not fit is dropped.
vkbd_in(v, s) ==
    LET n == IF Fits(v, s) THEN Len(s) ELSE Ring - 1 - Len(v.buf)
    IN  IF n = 0 THEN v
        ELSE [v EXCEPT !.buf = @ \o SubSeq(s, 1, n), !.full = TRUE, !.port_full = TRUE]

\* make_vkbd_irq()
make_irq(v) == v.interrupt

\* Mutant: no interrupt for the codes that are left.
vkbd_out_silent(v) ==
    [vk |-> [v EXCEPT !.buf = Tail(@), !.full = Len(v.buf) > 1, !.port_full = Len(v.buf) > 1],
     irq |-> FALSE]

vkbd_out(v) ==
    LET more == Len(v.buf) > 1
    IN  [vk |-> [v EXCEPT !.buf = Tail(@), !.full = more, !.port_full = more],
         irq |-> more /\ make_irq(v)]

vkbd_empty(v) == [v EXCEPT !.buf = <<>>, !.full = FALSE, !.port_full = FALSE]

\* The codes of s enter the ring.
Enter(v, s, why) ==
    /\ vk' = vkbd_in(v, s)
    /\ pending' = (pending \/ (s # <<>> /\ Len(v.buf) < Ring - 1 /\ make_irq(v)))
    /\ clash_b' = IF why # "none" THEN why ELSE IF Fits(v, s) THEN clash_b ELSE "lost"

-----------------------------------------------------------------------------
(* The task of the real keyboard.                                           *)

Turn == clash_b = "none" /\ turns.keys > 0 /\ turns' = [turns EXCEPT !.keys = @ - 1]

\* vkbd_use_key(): also keeps its own lock state, to choose the sequences.
vkbd_use_key(k, up, shift) ==
    LET lock == IF ~up /\ k \in Locks THEN SymDiff(vk.lock, {k}) ELSE vk.lock
        skip == up \/ k \in Locks \cup ShiftKeys
        codes == IF k < \h60 THEN <<Code(IF up THEN k + \h80 ELSE k, skip)>>
                 ELSE LET s == IF up THEN up_remap(k, Mode(shift, lock)) ELSE down_remap(k, Mode(shift, lock))
                      IN  [i \in DOMAIN s |-> Code(s[i], skip \/ s[i] >= \h80)]
    IN  Enter([vk EXCEPT !.shift = shift, !.lock = lock], codes,
              IF k = Up /\ ~up /\ Mode(shift, lock) # "plain" THEN "arrow" ELSE "none")

\* A key is pressed or released: kbd_handler() keeps the shift state and passes
\* the key on to the console in front.
key(k) ==
    LET down == SymDiff(held, {k})
    IN  /\ Turn /\ held' = down
        /\ IF focus THEN vkbd_use_key(k, k \in held, shift_state(down)) ELSE UNCHANGED <<vk, pending, clash_b>>
        /\ UNCHANGED <<focus, leds, gate, guest>>

\* The codes that vkbd_switch_from() and vkbd_switch_to() send for the shift keys.
Released(shift) ==
    (IF LeftShift \in shift THEN <<\hAA>> ELSE <<>>) \o (IF RightShift \in shift THEN <<\hB6>> ELSE <<>>)
    \o (IF LeftAlt \in shift THEN <<\hB8>> ELSE <<>>) \o (IF RightAlt \in shift THEN <<\hE0, \hB8>> ELSE <<>>)
    \o (IF LeftCtrl \in shift THEN <<\h9D>> ELSE <<>>) \o (IF RightCtrl \in shift THEN <<\hE0, \h9D>> ELSE <<>>)

Pressed(shift) ==
    (IF LeftShift \in shift THEN <<\h2A>> ELSE <<>>) \o (IF RightShift \in shift THEN <<\h36>> ELSE <<>>)
    \o (IF LeftAlt \in shift THEN <<\h38>> ELSE <<>>) \o (IF RightAlt \in shift THEN <<\hE0, \h18>> ELSE <<>>)
    \o (IF LeftCtrl \in shift THEN <<\h1D>> ELSE <<>>) \o (IF RightCtrl \in shift THEN <<\hE0, \h1D>> ELSE <<>>)


vkbd_switch_from ==
    /\ focus /\ Turn
    /\ Enter(vk, Plain(Released(shift_state(held))), "none")
    /\ focus' = FALSE /\ \E l \in {{}, {NumLock}} : leds' = l
    /\ UNCHANGED <<held, gate, guest>>

SwitchTo ==
    /\ Enter(vk, Plain(Pressed(shift_state(held))), IF RightAlt \in held THEN "ralt" ELSE "none")
    /\ focus' = TRUE /\ leds' = vk.led

vkbd_switch_to == ~focus /\ Turn /\ SwitchTo /\ UNCHANGED <<held, gate, guest>>

-----------------------------------------------------------------------------
(* The guest.                                                               *)

Runs == clash_b = "none" /\ guest.at = ""
Write == Runs /\ turns.writes > 0 /\ turns' = [turns EXCEPT !.writes = @ - 1]

\* How a guest that reads the ports follows the shift keys: E0 2A and its like
\* only wrap another key.
Follow(g, c) ==
    LET code == c % \h80
        wide == g.prefix = \hE0
        k == CASE code = \h2A /\ ~wide -> LeftShift [] code = \h36 /\ ~wide -> RightShift
               [] code = \h38 -> IF wide THEN RightAlt ELSE LeftAlt
               [] code = \h1D -> IF wide THEN RightCtrl ELSE LeftCtrl
               [] OTHER -> 0
    IN  CASE c \in {\hE0, \hE1} -> [g EXCEPT !.prefix = c]
          [] c = Answer -> g
          [] k = 0 \/ g.prefix = \hE1 -> [g EXCEPT !.prefix = 0]
          [] OTHER -> [g EXCEPT !.prefix = 0, !.down = IF c >= \h80 THEN @ \ {k} ELSE @ \cup {k}]

\* vkbd_read_port(0x60), in the guest's interrupt handler.
vkbd_read_data ==
    LET r == vkbd_out(vk)
    IN  /\ Runs /\ guest.kind = "own" /\ pending
        /\ IF vk.buf = <<>> THEN pending' = FALSE /\ UNCHANGED <<vk, guest>>
           ELSE vk' = r.vk /\ pending' = r.irq /\ guest' = Follow(guest, Head(vk.buf).code)
        /\ UNCHANGED <<held, focus, leds, gate, turns, clash_b>>

\* Port 64: commands of the 8042.
vkbd_command(c) ==
    /\ Write /\ c \in {"write_cmd", "self_test", "read_port", "write_port"}
    /\ Enter([vk EXCEPT !.half = IF c \in {"write_cmd", "write_port"} THEN c ELSE ""],
             IF c \in {"self_test", "read_port"} THEN Answers(1) ELSE <<>>, "none")
    /\ UNCHANGED <<held, focus, leds, gate, guest>>

\* Port 60, the second half of a command: the command byte, or the output port.
vkbd_second(on, set) ==
    LET v == [vk EXCEPT !.half = ""]
    IN  /\ Write /\ vk.half # ""
        /\ IF vk.half = "write_cmd"
           THEN /\ vk' = [v EXCEPT !.interrupt = on] /\ ~set /\ UNCHANGED gate
                /\ clash_b' = IF on /\ ~vk.interrupt /\ vk.buf # <<>> THEN "masked" ELSE clash_b
           ELSE /\ vk' = [v EXCEPT !.port_gate = on, !.port_full = set]
                /\ gate' = IF on # vk.port_gate THEN on ELSE gate
                /\ clash_b' = IF set # vk.port_full THEN "port" ELSE clash_b
        /\ UNCHANGED <<pending, held, focus, leds, guest>>

\* Port 60, commands of the keyboard and the second half of one.
vkbd_data(c) ==
    LET v == [vk EXCEPT !.set_leds = c = "set_leds"]
    IN  /\ Write /\ vk.half = "" /\ c \in {"set_leds", "echo", "send_id", "reset", "enable"}
        /\ CASE c = "send_id" -> Enter(v, Answers(2), "none")
             [] c \in {"reset", "enable"} ->
                    Enter(vkbd_empty(v), Answers(IF c = "reset" THEN 2 ELSE 1),
                          IF vk.buf # <<>> THEN "lost" ELSE "none")
             [] OTHER -> Enter(v, Answers(1), "none")
        /\ UNCHANGED <<held, focus, leds, gate, guest>>

vkbd_leds(new) ==
    /\ Write /\ vk.half = "" /\ vk.set_leds
    /\ Enter([vk EXCEPT !.set_leds = FALSE, !.led = new], Answers(1), "none")
    /\ leds' = IF focus THEN new ELSE leds
    /\ UNCHANGED <<held, focus, gate, guest>>

\* vkbd_unout(); in a full ring the last code is gone.
vkbd_unout ==
    /\ Write /\ vk.half = "" /\ ~vk.set_leds
    /\ IF Len(vk.buf) = Ring - 1 THEN Enter(vk, Answers(1), "none")
       ELSE clash_b' = "resend" /\ UNCHANGED <<vk, pending>>
    /\ UNCHANGED <<held, focus, leds, gate, guest>>

\* Port 61: the speaker's console comes to the front.
vkbd_speaker(on) ==
    /\ Write /\ on # vk.speaker
    /\ LET v == [vk EXCEPT !.speaker = on]
           s == Plain(Pressed(shift_state(held)))
       IN  IF on /\ ~focus
           THEN /\ focus' = TRUE /\ leds' = vk.led
                /\ Enter(v, s, IF RightAlt \in held THEN "ralt" ELSE "none")
           ELSE vk' = v /\ UNCHANGED <<focus, leds, pending, clash_b>>
    /\ UNCHANGED <<held, gate, guest>>

-----------------------------------------------------------------------------
(* The BIOS' handler of IRQ 1, vkbd_arpl_handler(), takes all codes.        *)

Typed(s) == SelectSeq(s, LAMBDA c : ~c.skip)
Phantom(c) == c.code >= \h80 \/ c.code \in {\h2A, \h36, \h38, \h1D}

\* The flags in the BIOS' data and the lights.
Finish(v) ==
    /\ guest' = [guest EXCEPT !.at = "", !.flags = <<v.shift, v.lock>>]
    /\ vk' = [v EXCEPT !.led = v.lock]
    /\ leds' = IF v.led # v.lock /\ focus THEN v.lock ELSE leds

\* With no room for a key it drops that key, beeps, and leaves the others.
vkbd_arpl_handler ==
    LET room == BiosRoom - guest.typed
        new == Typed(vk.buf)
        stop == CHOOSE i \in DOMAIN vk.buf : ~vk.buf[i].skip /\ Len(Typed(SubSeq(vk.buf, 1, i))) = room + 1
        rest == SubSeq(vk.buf, stop + 1, Len(vk.buf))
    IN  /\ Runs /\ guest.kind = "bios" /\ pending
        /\ clash_b' = IF \E c \in ToSet(vk.buf) : ~c.skip /\ Phantom(c) THEN "phantom" ELSE clash_b
        /\ IF Len(new) <= room
           THEN /\ vk' = [vkbd_empty(vk) EXCEPT !.led = vk.lock]
                /\ leds' = IF vk.led # vk.lock /\ focus THEN vk.lock ELSE leds
                /\ guest' = [guest EXCEPT !.typed = @ + Len(new), !.flags = <<vk.shift, vk.lock>>]
                /\ pending' = FALSE
           ELSE /\ vk' = [vk EXCEPT !.buf = rest, !.full = rest # <<>>, !.port_full = rest # <<>>]
                /\ guest' = [guest EXCEPT !.typed = BiosRoom, !.at = "beep"]
                /\ pending' = (rest # <<>> /\ make_irq(vk)) /\ UNCHANGED leds
        /\ UNCHANGED <<held, focus, gate, turns>>

beeped ==
    /\ clash_b = "none" /\ guest.at = "beep"
    /\ Finish(vk)
    /\ UNCHANGED <<held, focus, pending, gate, turns, clash_b>>

\* A program takes a key from the BIOS' buffer.
bios_read ==
    /\ Runs /\ guest.typed > 0 /\ guest' = [guest EXCEPT !.typed = @ - 1]
    /\ UNCHANGED <<vk, held, focus, leds, pending, gate, turns, clash_b>>

-----------------------------------------------------------------------------
\* init_vkbd(); open_tty() brings the console to the front.
BInit ==
    /\ vk = [buf |-> <<>>, full |-> FALSE, port_full |-> FALSE, port_gate |-> FALSE,
             interrupt |-> TRUE, half |-> "", set_leds |-> FALSE, speaker |-> FALSE,
             shift |-> {}, lock |-> {}, led |-> {}]
    /\ held = {} /\ focus = TRUE /\ leds = {} /\ pending = FALSE /\ gate = FALSE
    /\ guest \in {[kind |-> k, prefix |-> 0, down |-> {}, typed |-> 0, flags |-> <<{}, {}>>, at |-> ""] :
                    k \in {"own", "bios"}}
    /\ turns = [keys |-> MaxKeys, writes |-> MaxWrites]
    /\ clash_b = "none"

Commands == {"write_cmd", "self_test", "read_port", "write_port", "set_leds", "echo", "send_id", "reset", "enable"}

BNext ==
    \/ \E k \in Keys : key(k)
    \/ vkbd_switch_from \/ vkbd_switch_to
    \/ vkbd_read_data \/ vkbd_arpl_handler \/ beeped \/ bios_read \/ vkbd_unout
    \/ \E c \in Commands : vkbd_command(c) \/ vkbd_data(c)
    \/ \E on, set \in BOOLEAN : vkbd_second(on, set)
    \/ \E l \in {{}, {NumLock}} : vkbd_leds(l)
    \/ \E on \in BOOLEAN : vkbd_speaker(on)

BSpec == BInit /\ [][BNext]_bvars

-----------------------------------------------------------------------------
\* A guest that polls the status port or waits for IRQ 1 misses nothing: the
\* status byte and the output port say that there is a code exactly when the
\* ring holds one, and unless the guest has disabled it the interrupt is pending
\* until the last code is read (vkbd_in, vkbd_out).
CodesAnnounced ==
    clash_b = "none" =>
        /\ vk.full = (vk.buf # <<>>) /\ vk.port_full = vk.full
        /\ Len(vk.buf) < Ring
        /\ vk.buf # <<>> /\ vk.interrupt => pending

\* Once it has read all codes, the guest believes exactly those shift keys down
\* that are: the ones held while its console is in front, and none when it is
\* not, whatever was pressed or released while another console had the keyboard
\* and whichever keys are wrapped in fake shift codes; the BIOS' flags are those
\* of the last key; the lights are the guest's while it is in front, and the A20
\* gate is the one in the output port.
GuestKnowsKeys ==
    clash_b = "none" =>
        /\ guest.kind = "own" /\ vk.buf = <<>> => guest.down = IF focus THEN shift_state(held) ELSE {}
        /\ guest.kind = "bios" /\ vk.buf = <<>> /\ ~pending /\ guest.at = "" => guest.flags = <<vk.shift, vk.lock>>
        /\ focus => leds = vk.led
        /\ gate = vk.port_gate
=============================================================================
