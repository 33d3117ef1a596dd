-------------------------------- MODULE Input --------------------------------
(***************************************************************************)
(* Interrupt handlers against the code they interrupt: the timer           *)
(* (kernel/timer.c), the keyboard's ring (kernel/keyboard.c), the mouse    *)
(* wheel (kernel/mouse.c), and the code that waits for them: the shell,    *)
(* the end of a desktop frame (kernel/wm.c) and the blocking system calls  *)
(* (kernel/syscall.c).                                                     *)
(*                                                                         *)
(* A handler runs to its end once it has started (its gate clears the      *)
(* interrupt flag) and is one step.  The code it interrupts takes a step   *)
(* per access to a shared variable.  A system call enters through the same *)
(* kind of gate, so that it runs with interrupts off.                      *)
(*                                                                         *)
(* Keys are numbered in the order in which they are typed.  The bytes that *)
(* only change a modifier put nothing into the ring and are left out.      *)
(*                                                                         *)
(* Next to some definitions stands a variant with a slip in it; nothing    *)
(* uses the variants except the runs that show a property would notice.    *)
(***************************************************************************)
EXTENDS Integers, FiniteSets

CONSTANTS
    RingSize,  \* KBD_BUFFER_SIZE
    TickBits,  \* the width of tick: 32 in the code
    Waits,     \* bound: the ticks a caller waits for
    Calls,     \* bound: what the interrupted code does
    MaxKeys,   \* bound: how many keys are typed
    MaxRolls   \* bound: how often the wheel is turned

Syscalls == {"read", "haskey", "sleep"}
AllCalls == {"getline", "pause", "frame"} \cup Syscalls

(* That a power of two is positive is said because the provers do not know. *)
ASSUME InputAssumption ==
    /\ RingSize \in Nat \ {0} /\ TickBits \in Nat /\ 2 ^ TickBits \in Nat \ {0}
    /\ Waits \subseteq Nat /\ Calls \subseteq AllCalls
    /\ MaxKeys \in Nat /\ MaxRolls \in Nat

VARIABLES
    tick,     \* tick
    due,      \* the timer has interrupted since the last step of the code
    buf,      \* kbd_buffer[]
    head,     \* kbd_head: the next place to fill
    tail,     \* kbd_tail: the next place to read
    wheel,    \* mouse_wheel_delta
    pc,       \* where the interrupted code stands
    call,     \* what it is doing
    c,        \* its local c, of keyboard_getchar_blocking
    delta,    \* its local delta, of mouse_get_wheel_delta
    end,      \* its local end, of timer_wait
    waited,   \* history: ticks since timer_wait was called
    typed,    \* keys the user has pressed
    seen,     \* keys keyboard_callback has been called for
    dropped,  \* history: the keys that found the ring full
    read,     \* history: the keys handed to a caller
    rolled,   \* history: wheel steps the mouse has reported
    scrolled  \* history: wheel steps handed to the desktop

thread == <<pc, call, c, delta, end, scrolled>>
ring == <<buf, head, tail>>
keys == <<typed, seen, dropped, read>>
vars == <<tick, due, ring, wheel, thread, waited, keys, rolled>>

TickMod == 2 ^ TickBits
Places == 0 .. RingSize - 1
After(p) == (p + 1) % RingSize

NoCall == [op |-> "none", n |-> 0]

(* Inside a system call the interrupt flag is clear.                       *)
InterruptsOn == call.op \notin Syscalls

-----------------------------------------------------------------------------
(* The handlers.  An interrupt ends a hlt; the loop around it tests again. *)

Awake(p) == IF p = "kasleep" THEN "ktest" ELSE IF p = "wasleep" THEN "wtest" ELSE p

(* The timer's interrupt ends a wait for a key as well.                    *)
StillAsleep(p) == IF p = "kasleep" THEN p ELSE Awake(p)
AfterTick(p) == Awake(p)

(* timer_callback.  A processor that does not sleep takes at least one     *)
(* step per tick.                                                          *)
TimerIrq ==
    /\ InterruptsOn /\ (due => pc \in {"kasleep", "wasleep"}) /\ due' = TRUE
    /\ tick' = (tick + 1) % TickMod
    /\ waited' = IF pc \in {"wtest", "whlt", "wasleep"} /\ waited < call.n
                 THEN waited + 1 ELSE waited
    /\ pc' = AfterTick(pc)
    /\ UNCHANGED <<ring, wheel, call, c, delta, end, scrolled, keys, rolled>>

(* The keyboard holds what is typed until its interrupt is taken.          *)
TypeKey ==
    /\ typed < MaxKeys /\ typed' = typed + 1
    /\ UNCHANGED <<tick, due, ring, wheel, thread, waited, seen, dropped, read, rolled>>

(* kbd_buffer_push: there is room *)
RoomAlways == TRUE
HasRoom == After(head) # tail

(* keyboard_callback *)
KeyIrq ==
    /\ InterruptsOn /\ seen < typed /\ seen' = seen + 1
    /\ \/ /\ HasRoom
          /\ buf' = [buf EXCEPT ![head] = seen + 1] /\ head' = After(head)
          /\ UNCHANGED dropped
       \/ /\ ~HasRoom
          /\ dropped' = dropped \cup {seen + 1} /\ UNCHANGED <<buf, head>>
    /\ pc' = Awake(pc)
    /\ UNCHANGED <<tick, due, tail, wheel, call, c, delta, end, scrolled, waited,
                   typed, read, rolled>>

(* mouse_callback with the last byte of a packet that turns the wheel      *)
MouseIrq ==
    /\ InterruptsOn /\ rolled < MaxRolls /\ rolled' = rolled + 1
    /\ wheel' = wheel + 1
    /\ pc' = Awake(pc)
    /\ UNCHANGED <<tick, due, ring, call, c, delta, end, scrolled, waited, keys>>

-----------------------------------------------------------------------------
(* The code that is interrupted *)

Step(p) == pc' = p /\ due' = FALSE
Done == Step("idle") /\ call' = NoCall

(* getline of the shell, a pause of the login screen, the end of a frame   *)
(* of the desktop, and three system calls                                  *)
Begin ==
    /\ pc = "idle"
    /\ \E op \in Calls, n \in Waits :
          /\ call' = [op |-> op, n |-> IF op = "frame" THEN 1
                                       ELSE IF op \in {"pause", "sleep"} THEN n ELSE 0]
          /\ Step(CASE op = "frame" -> "wheel"
                    [] op \in {"pause", "sleep"} -> "wait"
                    [] op = "haskey" -> "poll"
                    [] op \in {"getline", "read"} -> "ktest")
    /\ UNCHANGED <<tick, ring, wheel, c, delta, end, scrolled, waited, keys, rolled>>

(* mouse_get_wheel_delta: delta = mouse_wheel_delta; mouse_wheel_delta = 0 *)
ReadWheel ==
    /\ pc = "wheel" /\ delta' = wheel /\ Step("clear")
    /\ UNCHANGED <<tick, ring, wheel, call, c, end, scrolled, waited, keys, rolled>>

NotReset == wheel
AfterReset == 0

ClearWheel ==
    /\ pc = "clear" /\ wheel' = AfterReset /\ Step("wait")
    /\ scrolled' = scrolled + delta /\ delta' = 0
    /\ UNCHANGED <<tick, ring, call, c, end, waited, keys, rolled>>

(* timer_wait: end = tick + ticks, in 32 bits *)
EndOneShort == (tick + call.n - 1) % TickMod
EndOfWait == (tick + call.n) % TickMod

SetEnd ==
    /\ pc = "wait" /\ end' = EndOfWait /\ waited' = 0 /\ Step("wtest")
    /\ UNCHANGED <<tick, ring, wheel, call, c, delta, scrolled, keys, rolled>>

(* while (tick < end) hlt *)
TestTick ==
    /\ pc = "wtest"
    /\ \/ tick < end /\ Step("whlt") /\ UNCHANGED <<call, end>>
       \/ /\ ~(tick < end) /\ end' = 0
          /\ IF call.op = "frame" THEN Step("poll") /\ UNCHANGED call ELSE Done
    /\ UNCHANGED <<tick, ring, wheel, c, delta, scrolled, waited, keys, rolled>>

(* keyboard_has_key, of the frame loop and of SYS_HAS_KEY *)
HeadMoved == head # 0
has_key == head # tail

PollKey ==
    /\ pc = "poll"
    /\ IF call.op = "frame" /\ has_key THEN Step("ktest") /\ UNCHANGED call ELSE Done
    /\ UNCHANGED <<tick, ring, wheel, c, delta, end, scrolled, waited, keys, rolled>>

(* keyboard_getchar_blocking: while (kbd_head == kbd_tail) hlt *)
TestRing ==
    /\ pc = "ktest" /\ Step(IF head = tail THEN "khlt" ELSE "take")
    /\ UNCHANGED <<tick, ring, wheel, call, c, delta, end, scrolled, waited, keys, rolled>>

Halt ==
    /\ pc \in {"khlt", "whlt"}
    /\ Step(IF pc = "khlt" THEN "kasleep" ELSE "wasleep")
    /\ UNCHANGED <<tick, ring, wheel, call, c, delta, end, scrolled, waited, keys, rolled>>

(* c = kbd_buffer[kbd_tail], then kbd_tail moves on *)
TakeKey ==
    /\ pc = "take" /\ c' = buf[tail] /\ Step("advance")
    /\ UNCHANGED <<tick, ring, wheel, call, delta, end, scrolled, waited, keys, rolled>>

Advance ==
    /\ pc = "advance" /\ Done
    /\ tail' = After(tail)
    /\ read' = read \cup {c} /\ c' = 0
    /\ UNCHANGED <<tick, buf, head, wheel, delta, end, scrolled, waited, typed, seen,
                   dropped, rolled>>

-----------------------------------------------------------------------------
Init ==
    /\ tick = 0 /\ due = FALSE
    /\ buf = [p \in Places |-> 0] /\ head = 0 /\ tail = 0 /\ wheel = 0
    /\ pc = "idle" /\ call = NoCall /\ c = 0 /\ delta = 0 /\ end = 0
    /\ waited = 0 /\ typed = 0 /\ seen = 0 /\ dropped = {} /\ read = {}
    /\ rolled = 0 /\ scrolled = 0

Code == ReadWheel \/ ClearWheel \/ SetEnd \/ TestTick \/ PollKey \/ TestRing
        \/ Halt \/ TakeKey \/ Advance
Irq == TimerIrq \/ KeyIrq \/ MouseIrq

Next == Begin \/ Code \/ Irq \/ TypeKey

(* The processor executes the code, the timer runs, and an interrupt that  *)
(* is pending and allowed is taken.                                        *)
Spec == Init /\ [][Next]_vars
FairSpec == Spec /\ WF_vars(Code) /\ WF_vars(TimerIrq) /\ WF_vars(KeyIrq)

-----------------------------------------------------------------------------
(* Properties *)

TypeOK ==
    /\ tick \in 0 .. TickMod - 1 /\ end \in 0 .. TickMod - 1 /\ due \in BOOLEAN
    /\ buf \in [Places -> 0 .. MaxKeys] /\ head \in Places /\ tail \in Places
    /\ pc \in {"idle", "wheel", "clear", "wait", "wtest", "whlt", "wasleep",
               "poll", "ktest", "khlt", "kasleep", "take", "advance"}
    /\ call.op \in AllCalls \cup {"none"} /\ call.n \in Nat
    /\ c \in 0 .. MaxKeys /\ waited \in Nat
    /\ typed \in 0 .. MaxKeys /\ seen \in 0 .. typed
    /\ dropped \subseteq 1 .. MaxKeys /\ read \subseteq 1 .. MaxKeys
    /\ rolled \in 0 .. MaxRolls
    /\ wheel \in 0 .. MaxRolls /\ delta \in 0 .. MaxRolls /\ scrolled \in Nat

Offset(p) == (p - tail) % RingSize
Filled == {p \in Places : Offset(p) < Offset(head)}

(* However the keyboard's handler interrupts keyboard_getchar_blocking,    *)
(* every key it was called for is in exactly one of three places: handed   *)
(* to a caller, waiting in the ring, or refused because the ring was full. *)
(* Keys are handed out in the order in which they were typed, none twice.  *)
(* (And every variable has its type.)                                      *)
KeysOnceInOrder ==
    /\ TypeOK
    /\ 1 .. seen = read \cup dropped \cup {buf[p] : p \in Filled}
    /\ dropped \cap read = {}
    /\ \A p \in Filled : buf[p] \notin dropped /\ \A k \in read : k < buf[p]
    /\ \A p, q \in Filled : Offset(p) < Offset(q) => buf[p] < buf[q]
    /\ pc = "advance" => tail \in Filled /\ c = buf[tail]

(* The frame loop calls keyboard_getchar_blocking only after it has seen a *)
(* key, and never sleeps in it: the desktop does not freeze on the user.   *)
FrameNeverBlocks == call.op = "frame" => pc \notin {"khlt", "kasleep"}

(* No wake-up is lost: code that waits with interrupts on for a tick goes  *)
(* on, and so does code that waits for a key once one is typed - even if   *)
(* the key's interrupt comes between the test of the ring and the hlt.     *)
(* (Nothing is said of a wait during which tick reaches its largest value: *)
(* such a wait can miss its end.)                                          *)
WaitsEnd ==
    /\ pc = "wait" /\ InterruptsOn ~> pc \in {"idle", "poll"} \/ tick = TickMod - 1
    /\ pc = "ktest" /\ InterruptsOn ~>
          pc = "idle" \/ (head = tail /\ seen = typed)

(* SYS_READ_CHAR "Blocks until a key is pressed, then returns its          *)
(* character code" and SYS_SLEEP_TICKS "Blocks the calling program for the *)
(* given number of timer ticks": both return.                              *)
SyscallsReturn ==
    call.op \in Syscalls /\ (call.op = "read" => seen < typed) ~> pc = "idle"

(* timer_wait lets at least as many ticks go by as it was asked for, with  *)
(* an interrupt between any two of its steps - unless the sum of tick and  *)
(* ticks wrapped around in 32 bits, which makes it return at once.         *)
EndWrapped == end < call.n
WaitsLongEnough ==
    [][pc = "wtest" /\ pc' \in {"idle", "poll"} => waited >= call.n \/ EndWrapped]_vars

(* A wait ends, and does not end early.                                    *)
WaitsKept == WaitsEnd /\ WaitsLongEnough

(* No turn of the wheel is handed to the desktop twice, wherever the       *)
(* mouse's handler interrupts mouse_get_wheel_delta.  (One that comes      *)
(* between the read and the reset is lost: rolled may be larger.)          *)
WheelAtMostOnce == scrolled + wheel <= rolled
=============================================================================
