--------------------------------- MODULE Apps ---------------------------------
(***************************************************************************)
(* Loaded programs on the desktop: fibers (kernel/fiber.c), program slots  *)
(* and their event queues (kernel/apploader.c), the window table and the   *)
(* frame loop (kernel/wm.c), the system calls that yield                   *)
(* (kernel/syscall.c) and the handling of a faulting program               *)
(* (kernel/idt.c).                                                         *)
(*                                                                         *)
(* Everything is one thread of control that changes hands: the frame loop  *)
(* handles a click, a turn of the wheel, paints every window from back to  *)
(* front - which resumes the fiber of a loaded program - and handles a     *)
(* key.  A program runs until it yields, exits or faults.                  *)
(*                                                                         *)
(* Geometry is abstracted: any visible window may be hit by a click.  The  *)
(* search panel is abstracted to what it does: open or raise a built-in    *)
(* application.  The number 0 stands for "none" (the code's -1).           *)
(*                                                                         *)
(* Next to some definitions stands a variant with a slip in it; nothing    *)
(* uses the variants except the runs that show a property would notice.    *)
(***************************************************************************)
EXTENDS Integers, Sequences, FiniteSets

CONSTANTS
    MaxWindows,  \* MAX_WINDOWS
    NumSlots,    \* APP_SLOTS
    NumFibers,   \* FIBER_MAX
    QueueLen,    \* APP_EVENT_QUEUE_LEN
    Builtins,    \* the names in the application registry
    Gestures     \* bound: what the user, and a program, may do

AllGestures == {"search", "taskbar", "close", "minimize", "fullscreen",
                "content", "wheel", "quit", "exit", "launch", "fault"}

ASSUME AppsAssumption ==
    /\ MaxWindows \in Nat \ {0} /\ NumSlots \in Nat \ {0}
    /\ NumFibers \in Nat \ {0} /\ QueueLen \in Nat \ {0}
    /\ "none" \notin Builtins /\ "loaded" \notin Builtins
    /\ Gestures \subseteq AllGestures

VARIABLES
    fiber,    \* fibers[]
    current,  \* [fiber, slot]: current_fiber and current_app_slot
    running,  \* apploader_program_running
    slot,     \* app_slots[]
    win,      \* windows[]
    owner,    \* apploader_window_slot[]
    order,    \* window_order[0 .. window_count - 1]
    buttons,  \* the windows that have one of taskbar_buttons[]
    topmost,  \* topmost_visible of wm_run
    phase,    \* where the kernel stands
    pos,      \* how far wm_run's painting loop has come
    loading   \* the slot apploader_load is working on

vars == <<fiber, current, running, slot, win, owner, order, buttons, topmost,
          phase, pos, loading>>

Windows == 1 .. MaxWindows
Slots == 1 .. NumSlots
Fibers == 1 .. NumFibers

-----------------------------------------------------------------------------
(* Fibers *)

(* at is where a fiber's saved stack would continue: in fiber_trampoline,  *)
(* in the program's code, or in the loop that parks it.  slot is the local *)
(* slot_idx of apploader_fiber_entry.                                      *)
NoFiber == [state |-> "unused", at |-> "fresh", slot |-> 0]

FiberType == [state : {"unused", "ready", "running"},
              at : {"fresh", "code", "parked"}, slot : Slots \cup {0}]

(* fiber_spawn takes the first unused fiber.                               *)
AnyIdleFiber(f) ==
    /\ fiber[f].state # "running"
    /\ \A g \in Fibers : g < f => fiber[g].state = "running"
FirstUnusedFiber(f) ==
    /\ fiber[f].state = "unused"
    /\ \A g \in Fibers : g < f => fiber[g].state # "unused"

(* fiber_resume(f) on behalf of slot s, with table fs: it refuses a fiber  *)
(* that is not ready, and a parked one yields at once.                     *)
fiber_resume(fs, f, s, otherwise) ==
    IF f \in Fibers /\ fs[f].state = "ready" /\ fs[f].at # "parked"
    THEN /\ fiber' = [fs EXCEPT ![f].state = "running"]
         /\ current' = [fiber |-> f, slot |-> s]
         /\ phase' = "slice"
    ELSE /\ fiber' = fs /\ UNCHANGED current /\ phase' = otherwise

(* fiber_yield: back to whoever resumed the fiber, and current_app_slot is *)
(* cleared there.                                                          *)
SlotNotCleared(at) ==
    /\ fiber' = [fiber EXCEPT ![current.fiber].state = "ready",
                              ![current.fiber].at = at]
    /\ current' = [current EXCEPT !.fiber = 0]
    /\ phase' = IF loading # 0 THEN "load" ELSE "paint"
fiber_yield(at) ==
    /\ fiber' = [fiber EXCEPT ![current.fiber].state = "ready",
                              ![current.fiber].at = at]
    /\ current' = [fiber |-> 0, slot |-> 0]
    /\ phase' = IF loading # 0 THEN "load" ELSE "paint"

-----------------------------------------------------------------------------
(* Program slots *)

EmptySlot == [state |-> "unused", fiber |-> 0, win |-> 0, asked |-> FALSE,
              queue |-> <<>>]

(* An event is identified by the program that was in the slot when it was  *)
(* queued (0: none): all the properties need to know of it.                *)
SlotType == [state : {"unused", "awaiting", "running"},
             fiber : Fibers \cup {0}, win : Windows \cup {0},
             asked : BOOLEAN, queue : Seq(Fibers \cup {0})]

(* apploader_reset_slot *)
QueueKept(s) == [EmptySlot EXCEPT !.queue = slot[s].queue]
Reset(s) == EmptySlot

Alive(s) == s \in Slots /\ slot[s].state = "running"

(* apploader_push_event: a full ring drops the event.                      *)
Push(s) ==
    IF s \in Slots /\ Len(slot[s].queue) < QueueLen - 1
    THEN [slot EXCEPT ![s].queue = Append(@, slot[s].fiber)]
    ELSE slot

-----------------------------------------------------------------------------
(* The window table *)

(* program is history: the fiber the window was opened for.  Where a       *)
(* window is and how large, full screen included, changes only its look.   *)
NoWindow == [used |-> FALSE, min |-> FALSE, app |-> "none", program |-> 0]
NewWindow(a, f) == [NoWindow EXCEPT !.used = TRUE, !.app = a, !.program = f]

WindowType == [used : BOOLEAN, min : BOOLEAN,
               app : Builtins \cup {"none", "loaded"},
               program : Fibers \cup {0}]

Shown(w) == win[w].used /\ ~win[w].min

IsFirstAt(o, w, p) == p \in 1 .. Len(o) /\ o[p] = w /\ \A q \in 1 .. p - 1 : o[q] # w

(* raise_window *)
RaiseShiftsTooFar(o, w) ==
    IF \E p \in 1 .. Len(o) : o[p] = w
    THEN LET p == CHOOSE q \in 1 .. Len(o) : IsFirstAt(o, w, q)
         IN  [k \in 1 .. Len(o) |-> IF k = Len(o) THEN w
                                    ELSE IF k + 1 < p THEN o[k] ELSE o[k + 1]]
    ELSE o
Raised(o, w) ==
    IF \E p \in 1 .. Len(o) : o[p] = w
    THEN LET p == CHOOSE q \in 1 .. Len(o) : IsFirstAt(o, w, q)
         IN  [k \in 1 .. Len(o) |-> IF k = Len(o) THEN w
                                    ELSE IF k < p THEN o[k] ELSE o[k + 1]]
    ELSE o

(* The close button removes the first mention of the window.               *)
Dropped(o, w) ==
    LET p == CHOOSE q \in 1 .. Len(o) : IsFirstAt(o, w, q)
    IN  [k \in 1 .. Len(o) - 1 |-> IF k < p THEN o[k] ELSE o[k + 1]]

(* w is the front-most window that is visible, or none is.                 *)
IsTopmost(w) ==
    IF \E k \in 1 .. Len(order) : Shown(order[k])
    THEN \E k \in 1 .. Len(order) :
            /\ w = order[k] /\ Shown(w)
            /\ \A j \in k + 1 .. Len(order) : ~Shown(order[j])
    ELSE w = 0

(* create_window takes the first unused entry and appends it to the order, *)
(* for which there may be no room.                                         *)
FirstUnusedWindow(w) ==
    /\ ~win[w].used
    /\ \A v \in Windows : v < w => win[v].used

RoomInOrder == Len(order) < MaxWindows

(* find_open_window_by_name *)
IsOpenAs(w, a) ==
    /\ win[w].used /\ win[w].app = a
    /\ \A v \in Windows : v < w => ~(win[v].used /\ win[v].app = a)

(* launch_or_focus_app *)
launch_or_focus_app(a, next) ==
    \/ \E w \in Windows :
          /\ IsOpenAs(w, a)
          /\ win' = [win EXCEPT ![w].min = FALSE]
          /\ order' = Raised(order, w) /\ phase' = next
    \/ \E w \in Windows :
          /\ \A v \in Windows : ~IsOpenAs(v, a)
          /\ FirstUnusedWindow(w) /\ RoomInOrder
          /\ win' = [win EXCEPT ![w] = NewWindow(a, 0)]
          /\ order' = Raised(Append(order, w), w) /\ phase' = next
    \/ /\ \A v \in Windows : ~IsOpenAs(v, a)
       /\ \E w \in Windows : FirstUnusedWindow(w)
       /\ ~RoomInOrder
       /\ phase' = "overrun" /\ UNCHANGED <<win, order>>

-----------------------------------------------------------------------------
(* The shell starts the desktop: wm_init.  Slots, fibers and the cached    *)
(* taskbar buttons are left as they are.                                   *)
StartGui ==
    /\ phase = "shell" /\ phase' = "click"
    /\ win' = [w \in Windows |-> NoWindow]
    /\ owner' = [w \in Windows |-> 0]
    /\ order' = <<>>
    /\ UNCHANGED <<fiber, current, running, slot, buttons, topmost, pos, loading>>

(* handle_click *)
NoClick ==
    /\ phase = "click" /\ phase' = "wheel"
    /\ UNCHANGED <<fiber, current, running, slot, win, owner, order, buttons,
                   topmost, pos, loading>>

ClickSearch ==
    /\ phase = "click" /\ "search" \in Gestures
    /\ \E a \in Builtins : launch_or_focus_app(a, "wheel")
    /\ UNCHANGED <<fiber, current, running, slot, owner, buttons, topmost, pos,
                   loading>>

ClickTaskbar ==
    /\ phase = "click" /\ phase' = "wheel" /\ "taskbar" \in Gestures
    /\ \E w \in buttons :
          \/ /\ win[w].min
             /\ win' = [win EXCEPT ![w].min = FALSE]
             /\ order' = Raised(order, w)
          \/ /\ ~win[w].min /\ IsTopmost(w)
             /\ win' = [win EXCEPT ![w].min = TRUE]
             /\ UNCHANGED order
          \/ /\ ~win[w].min /\ ~IsTopmost(w)
             /\ order' = Raised(order, w)
             /\ UNCHANGED win
    /\ UNCHANGED <<fiber, current, running, slot, owner, buttons, topmost, pos,
                   loading>>

(* topmost_window_at found w: it is raised, then one of its title bar      *)
(* buttons or its contents get the click.                                  *)
ClickWindow ==
    /\ phase = "click" /\ phase' = "wheel"
    /\ \E k \in 1 .. Len(order) :
          LET w == order[k] IN
          /\ Shown(w)
          /\ \/ /\ "close" \in Gestures
                /\ win' = [win EXCEPT ![w].used = FALSE]
                /\ order' = Dropped(Raised(order, w), w) /\ UNCHANGED slot
             \/ /\ "minimize" \in Gestures
                /\ win' = [win EXCEPT ![w].min = TRUE]
                /\ order' = Raised(order, w) /\ UNCHANGED slot
             \/ /\ "fullscreen" \in Gestures
                /\ order' = Raised(order, w) /\ UNCHANGED <<win, slot>>
             \/ /\ "content" \in Gestures
                /\ order' = Raised(order, w)
                /\ slot' = IF win[w].app = "loaded" THEN Push(owner[w]) ELSE slot
                /\ UNCHANGED win
    /\ UNCHANGED <<fiber, current, running, owner, buttons, topmost, pos, loading>>

(* The wheel, and then the choice of the focused window for this frame.    *)
Wheel ==
    /\ phase = "wheel" /\ phase' = "paint" /\ pos' = 1
    /\ \E w \in Windows \cup {0} : IsTopmost(w) /\ topmost' = w
    /\ \/ UNCHANGED slot
       \/ /\ "wheel" \in Gestures
          /\ \E k \in 1 .. Len(order) :
                /\ Shown(order[k]) /\ win[order[k]].app = "loaded"
                /\ slot' = Push(owner[order[k]])
    /\ UNCHANGED <<fiber, current, running, win, owner, order, buttons, loading>>

-----------------------------------------------------------------------------
(* Painting, window after window in window_order *)

(* The condition of the painting loop *)
LastNotPainted == pos < Len(order)
MoreToPaint == pos <= Len(order)

Painted == MoreToPaint /\ pos' = pos + 1

PaintPlain ==
    /\ phase = "paint" /\ Painted
    /\ ~(Shown(order[pos]) /\ win[order[pos]].app = "loaded")
    /\ UNCHANGED <<fiber, current, running, slot, win, owner, order, buttons,
                   topmost, phase, loading>>

(* paint_apploader closes the window of a program that has gone.           *)
PaintGone ==
    /\ phase = "paint" /\ Painted
    /\ Shown(order[pos]) /\ win[order[pos]].app = "loaded"
    /\ ~Alive(owner[order[pos]])
    /\ win' = [win EXCEPT ![order[pos]].used = FALSE]
    /\ UNCHANGED <<fiber, current, running, slot, owner, order, buttons,
                   topmost, phase, loading>>

(* apploader_resume *)
PaintAlive ==
    /\ phase = "paint" /\ Painted
    /\ Shown(order[pos]) /\ win[order[pos]].app = "loaded"
    /\ Alive(owner[order[pos]])
    /\ fiber_resume(fiber, slot[owner[order[pos]]].fiber, owner[order[pos]], "paint")
    /\ UNCHANGED <<running, slot, win, owner, order, buttons, topmost, loading>>

(* draw_taskbar comes last.                                                *)
PaintDone ==
    /\ phase = "paint" /\ phase' = "key" /\ ~MoreToPaint /\ pos' = 0
    /\ buttons' = {w \in Windows : win[w].used /\ \E k \in 1 .. Len(order) : order[k] = w}
    /\ UNCHANGED <<fiber, current, running, slot, win, owner, order, topmost, loading>>

-----------------------------------------------------------------------------
(* A program's slice *)

InProgram == phase = "slice" /\ fiber[current.fiber].at = "code"

(* fiber_trampoline and apploader_fiber_entry up to the program's code     *)
Start ==
    /\ phase = "slice" /\ fiber[current.fiber].at = "fresh"
    /\ fiber' = [fiber EXCEPT ![current.fiber].at = "code",
                              ![current.fiber].slot = current.slot]
    /\ running' = TRUE
    /\ UNCHANGED <<current, slot, win, owner, order, buttons, topmost, phase,
                   pos, loading>>

(* SYS_WM_POLL_EVENT *)
Poll ==
    /\ InProgram /\ slot[current.slot].queue # <<>>
    /\ slot' = [slot EXCEPT ![current.slot].queue = Tail(@)]
    /\ UNCHANGED <<fiber, current, running, win, owner, order, buttons, topmost,
                   phase, pos, loading>>

(* SYS_YIELD, and SYS_WM_CREATE_WINDOW once the program has its window     *)
Yield ==
    /\ InProgram /\ fiber_yield("code")
    /\ UNCHANGED <<running, slot, win, owner, order, buttons, topmost, pos, loading>>

(* SYS_WM_CREATE_WINDOW *)
AskForWindow ==
    /\ InProgram /\ ~slot[current.slot].asked
    /\ slot' = [slot EXCEPT ![current.slot].asked = TRUE]
    /\ fiber_yield("code")
    /\ UNCHANGED <<running, win, owner, order, buttons, topmost, pos, loading>>

(* The rest of apploader_fiber_entry, and fiber_trampoline: the fiber is   *)
(* marked unused, and the yield that follows marks it ready again.         *)
Leave ==
    /\ running' = FALSE
    /\ slot' = [slot EXCEPT ![fiber[current.fiber].slot] = Reset(fiber[current.fiber].slot)]
    /\ fiber_yield("parked")

Exit ==
    /\ InProgram /\ Leave
    /\ UNCHANGED <<win, owner, order, buttons, topmost, pos, loading>>

(* isr_handler: a fault is the program's if the flag says that one runs,   *)
(* and the kernel's, which stops, if not.                                  *)
Fault ==
    /\ InProgram /\ "fault" \in Gestures
    /\ \/ running /\ Leave
       \/ ~running /\ phase' = "halted" /\ UNCHANGED <<fiber, current, running, slot>>
    /\ UNCHANGED <<win, owner, order, buttons, topmost, pos, loading>>

-----------------------------------------------------------------------------
(* The key at the end of a frame goes to the window that was topmost when  *)
(* the frame began.                                                        *)
NoKey ==
    /\ phase = "key" /\ phase' = "click"
    /\ UNCHANGED <<fiber, current, running, slot, win, owner, order, buttons,
                   topmost, pos, loading>>

KeyQuit ==
    /\ phase = "key" /\ phase' = "shell" /\ "quit" \in Gestures
    /\ UNCHANGED <<fiber, current, running, slot, win, owner, order, buttons,
                   topmost, pos, loading>>

KeySearch ==
    /\ phase = "key" /\ "search" \in Gestures
    /\ \E a \in Builtins : launch_or_focus_app(a, "click")
    /\ UNCHANGED <<fiber, current, running, slot, owner, buttons, topmost, pos,
                   loading>>

Focused(a) == topmost \in Windows /\ win[topmost].app = a

KeyToProgram ==
    /\ phase = "key" /\ phase' = "click" /\ Focused("loaded")
    /\ slot' = Push(owner[topmost])
    /\ UNCHANGED <<fiber, current, running, win, owner, order, buttons, topmost,
                   pos, loading>>

(* terminal_submit_line: exit *)
TerminalExit ==
    /\ phase = "key" /\ phase' = "click" /\ Focused("Terminal")
    /\ "exit" \in Gestures
    /\ win' = [win EXCEPT ![topmost].used = FALSE]
    /\ UNCHANGED <<fiber, current, running, slot, owner, order, buttons, topmost,
                   pos, loading>>

(* apploader_load *)
FirstUnusedSlot(s) ==
    /\ slot[s].state = "unused"
    /\ \A t \in Slots : t < s => slot[t].state # "unused"

(* The file cannot be read, or there is no fiber: the slot has been reset. *)
LoadRefused ==
    /\ phase = "key" /\ phase' = "click" /\ Focused("Terminal")
    /\ "launch" \in Gestures
    /\ \E s \in Slots : FirstUnusedSlot(s) /\ slot' = [slot EXCEPT ![s] = Reset(s)]
    /\ UNCHANGED <<fiber, current, running, win, owner, order, buttons, topmost,
                   pos, loading>>

LoadStart ==
    /\ phase = "key" /\ Focused("Terminal") /\ "launch" \in Gestures
    /\ \E s \in Slots, f \in Fibers :
          /\ FirstUnusedSlot(s) /\ FirstUnusedFiber(f)
          /\ slot' = [slot EXCEPT ![s] = [Reset(s) EXCEPT !.state = "awaiting",
                                                          !.fiber = f]]
          /\ loading' = s
          /\ fiber_resume([fiber EXCEPT ![f] = [NoFiber EXCEPT !.state = "ready"]],
                          f, s, "load")
    /\ UNCHANGED <<running, win, owner, order, buttons, topmost, pos>>

(* Back from the first resume, the program exited or never asked.          *)
LoadFailed ==
    /\ phase = "load" /\ phase' = "click" /\ loading' = 0
    /\ \/ slot[loading].state = "unused" /\ UNCHANGED slot
       \/ /\ slot[loading].state # "unused" /\ ~slot[loading].asked
          /\ slot' = [slot EXCEPT ![loading] = Reset(loading)]
    /\ UNCHANGED <<fiber, current, running, win, owner, order, buttons, topmost, pos>>

(* wm_launch_app and apploader_attach_window; the slot keeps waiting when  *)
(* there is no window for it.                                              *)
LoadDone ==
    /\ phase = "load" /\ slot[loading].state # "unused" /\ slot[loading].asked
    /\ loading' = 0
    /\ \/ /\ \A w \in Windows : win[w].used
          /\ phase' = "click" /\ UNCHANGED <<slot, win, owner, order>>
       \/ \E w \in Windows :
          /\ FirstUnusedWindow(w) /\ RoomInOrder
          /\ win' = [win EXCEPT ![w] = NewWindow("loaded", slot[loading].fiber)]
          /\ order' = Raised(Append(order, w), w)
          /\ owner' = [owner EXCEPT ![w] = loading]
          /\ slot' = [slot EXCEPT ![loading].win = w, ![loading].state = "running"]
          /\ phase' = "click"
       \/ /\ \E w \in Windows : FirstUnusedWindow(w)
          /\ ~RoomInOrder
          /\ phase' = "overrun" /\ UNCHANGED <<slot, win, owner, order>>
    /\ UNCHANGED <<fiber, current, running, buttons, topmost, pos>>

-----------------------------------------------------------------------------
Init ==
    /\ fiber = [f \in Fibers |-> NoFiber]
    /\ current = [fiber |-> 0, slot |-> 0] /\ running = FALSE
    /\ slot = [s \in Slots |-> EmptySlot]
    /\ win = [w \in Windows |-> NoWindow] /\ owner = [w \in Windows |-> 0]
    /\ order = <<>> /\ buttons = {} /\ topmost = 0
    /\ phase = "shell" /\ pos = 0 /\ loading = 0

Mouse == NoClick \/ ClickSearch \/ ClickTaskbar \/ ClickWindow \/ Wheel
Paint == PaintPlain \/ PaintGone \/ PaintAlive \/ PaintDone
Program == Start \/ Poll \/ Yield \/ AskForWindow \/ Exit \/ Fault
Key == NoKey \/ KeyQuit \/ KeySearch \/ KeyToProgram \/ TerminalExit
       \/ LoadRefused \/ LoadStart
Load == LoadFailed \/ LoadDone

Desktop == Mouse \/ Paint \/ Program \/ Key \/ Load
Next == StartGui \/ Desktop

(* The frame loop waits for nothing but the next timer tick, and a program *)
(* gives the processor back in the end (fibers are cooperative).           *)
Spec == Init /\ [][Next]_vars
FairSpec == Spec /\ WF_vars(Desktop)

-----------------------------------------------------------------------------
(* Properties *)

TypeOK ==
    /\ fiber \in [Fibers -> FiberType]
    /\ current \in [fiber : Fibers \cup {0}, slot : Slots \cup {0}]
    /\ running \in BOOLEAN
    /\ slot \in [Slots -> SlotType]
    /\ win \in [Windows -> WindowType]
    /\ owner \in [Windows -> Slots \cup {0}]
    /\ order \in Seq(Windows) /\ Len(order) <= MaxWindows
    /\ buttons \subseteq Windows /\ topmost \in Windows \cup {0}
    /\ phase \in {"shell", "click", "wheel", "paint", "slice", "key", "load",
                  "halted", "overrun"}
    /\ pos \in 0 .. MaxWindows + 1
    /\ loading \in Slots \cup {0}
    /\ \A s \in Slots : Len(slot[s].queue) < QueueLen

(* No two programs share a stack, and the stack a slot names is that of    *)
(* the program loaded into it, never one that has exited: apploader_resume *)
(* always continues the program whose window is being painted.             *)
ProgramsApart ==
    \A s \in Slots : slot[s].state # "unused" =>
        /\ slot[s].fiber \in Fibers
        /\ fiber[slot[s].fiber].state # "unused"
        /\ fiber[slot[s].fiber].at # "parked"
        /\ fiber[slot[s].fiber].at = "code" => fiber[slot[s].fiber].slot = s
        /\ \A t \in Slots \ {s} : slot[t].fiber # slot[s].fiber

(* While a program runs, its system calls act on its own slot: exactly one *)
(* fiber is marked running, it is the current one, and current_app_slot    *)
(* names the slot it was loaded into.  While none runs, none is marked.    *)
SyscallsLandInCaller ==
    /\ {f \in Fibers : fiber[f].state = "running"} = {current.fiber} \ {0}
    /\ phase \in {"slice", "halted"} =>
          /\ current.slot \in Slots
          /\ slot[current.slot].fiber = current.fiber
          /\ InProgram => fiber[current.fiber].slot = current.slot
    /\ phase \notin {"slice", "halted"} => current = [fiber |-> 0, slot |-> 0]

(* A program polls only events that were queued for it, never what was     *)
(* typed or clicked for an earlier program of the same slot - whose window *)
(* may still have had the focus after the program had gone.                *)
OwnEventsOnly ==
    \A s \in Slots : slot[s].state # "unused" =>
        \A k \in 1 .. Len(slot[s].queue) : slot[s].queue[k] = slot[s].fiber

(* Every window in use is in window_order, so that it is painted, has a    *)
(* taskbar button and can be closed.  It may be there twice: an entry that *)
(* paint_apploader left behind names the next window that takes its place. *)
(* (And every variable has its type.)                                      *)
UsedIsOrdered ==
    /\ TypeOK
    /\ \A w \in Windows : win[w].used => \E k \in 1 .. Len(order) : order[k] = w

(* A program whose window is visible gets the processor again, whatever    *)
(* the user and the other programs do.                                     *)
OnShow(s) ==
    /\ phase \notin {"shell", "halted", "overrun"}
    /\ slot[s].state = "running" /\ Shown(slot[s].win) /\ owner[slot[s].win] = s
ShownProgramsRun ==
    \A s \in Slots : OnShow(s) ~> ~OnShow(s) \/ current.slot = s

(* "A single flag (not per-slot) is correct even with several resident     *)
(* apps": a fault in a program never stops the kernel.                     *)
FaultsRecovered == phase # "halted"

(* "wm.c notices window_id's owning slot is UNUSED again next frame and    *)
(* tears the window down": a window never shows another program than the   *)
(* one it was opened for.                                                  *)
WindowShowsItsProgram ==
    \A w \in Windows : win[w].used /\ win[w].app = "loaded" /\ Alive(owner[w]) =>
        slot[owner[w]].fiber = win[w].program
=============================================================================
