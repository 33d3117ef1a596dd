---------------------------------- MODULE Mouse ----------------------------------
(***************************************************************************)
(* The mouse's packets (kernel/mouse.c): the handler is called with a byte *)
(* at a time, and every three of them, or four from a mouse with a wheel,  *)
(* make a report.  Bytes are numbers, of eight bits.                       *)
(*                                                                         *)
(* Next to some definitions stands a variant with a slip in it; nothing    *)
(* uses the variants except the runs that show a property would notice.    *)
(***************************************************************************)
EXTENDS Integers, Sequences, SequencesExt

Flag(byte, k) == (byte \div 2 ^ k) % 2 = 1

(* packet, mouse_x, mouse_y, mouse_buttons and mouse_wheel_delta; reports  *)
(* is history: the position and the buttons after each whole packet.       *)
Fresh(size) ==
    [size |-> size, w |-> 320, h |-> 200, packet |-> <<>>, x |-> 160, y |-> 100,
     buttons |-> 0, wheel |-> 0, reports |-> <<>>]

(* mouse_install: what the device answers after the three sample rates     *)
packet_size(device_id) == IF device_id = 3 THEN 4 ELSE 3

Signed(byte, negative) == IF negative THEN byte - 256 ELSE byte
Clamp(v, n) == CASE v < 0 -> 0 [] v >= n -> n - 1 [] OTHER -> v

Report(m) ==
    LET flags == m.packet[1]
        x == Clamp(m.x + Signed(m.packet[2], Flag(flags, 4)), m.w)
        y == Clamp(m.y - Signed(m.packet[3], Flag(flags, 5)), m.h)
    IN  [m EXCEPT !.packet = <<>>, !.x = x, !.y = y, !.buttons = flags % 8,
                  !.wheel = IF m.size = 4 THEN @ + Signed(m.packet[4], Flag(m.packet[4], 7)) ELSE @,
                  !.reports = Append(@, <<x, y, flags % 8>>)]

(* Only bit 3 tells the first byte of a packet from the others.            *)
AnyByteFirst(m, byte) == TRUE
MayBe(m, byte) == m.packet = <<>> => Flag(byte, 3)

mouse_callback(m, byte) ==
    IF ~MayBe(m, byte) THEN m
    ELSE LET got == [m EXCEPT !.packet = Append(@, byte)]
         IN  IF Len(got.packet) = m.size THEN Report(got) ELSE got

mouse_set_bounds(m, w, h) ==
    [m EXCEPT !.w = w, !.h = h, !.x = IF @ >= w THEN w - 1 ELSE @, !.y = IF @ >= h THEN h - 1 ELSE @]
=============================================================================
