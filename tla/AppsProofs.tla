------------------------------ MODULE AppsProofs ------------------------------
(***************************************************************************)
(* For any number of windows, slots, fibers and events in a queue: no two  *)
(* programs share a stack, a program's system calls act on its own slot,   *)
(* it polls only its own events, and a window in use stays in the order in *)
(* which windows are painted.                                              *)
(***************************************************************************)
EXTENDS Apps, WellFoundedInduction, SequenceTheorems, TLAPS

(* Where the frame loop, apploader_load and a program stand                *)
PhaseOK ==
    /\ phase = "load" => loading \in Slots
    /\ phase \notin {"slice", "load", "halted"} => loading = 0
    /\ phase = "paint" \/ (phase = "slice" /\ loading = 0) => pos >= 1

(* The program that has the processor                                      *)
NoCurrent == [fiber |-> 0, slot |-> 0]
CallerOK ==
    /\ \A f \in Fibers : fiber[f].state = "running" <=> f = current.fiber
    /\ phase \in {"slice", "halted"} =>
          /\ current.fiber \in Fibers /\ current.slot \in Slots
          /\ slot[current.slot].fiber = current.fiber
          /\ slot[current.slot].state # "unused"
    /\ phase \notin {"slice", "halted"} => current = NoCurrent

(* A slot without a program names no fiber.                                *)
FreeSlots == \A s \in Slots : slot[s].state = "unused" => slot[s].fiber = 0

Listed(o, w) == \E k \in 1 .. Len(o) : o[k] = w
Ordered == \A w \in Windows : win[w].used => Listed(order, w)

Inv == TypeOK /\ PhaseOK /\ CallerOK /\ FreeSlots /\ ProgramsApart /\ OwnEventsOnly /\ Ordered

-----------------------------------------------------------------------------
(* Lemmas about window_order *)

(* A set of numbers has a least one.                                       *)
LEMMA LeastNumber ==
    ASSUME NEW T, T \subseteq Nat, T # {} PROVE \E x \in T : \A y \in T : x <= y
<1> DEFINE R == OpToRel(<, Nat)
<1>1. IsWellFoundedOn(R, Nat)
  BY NatLessThanWellFounded
<1>2. PICK x \in T : \A y \in T : ~(<<y, x>> \in R)
  <2> HIDE DEF R
  <2> QED
    BY <1>1, WFMin
<1>3. \A y \in T : ~(y < x)
  BY <1>2 DEF OpToRel
<1> QED
  BY <1>3

(* The loop that looks for a window in the order finds its first mention.  *)
LEMMA FirstMention ==
    ASSUME NEW o \in Seq(Windows), NEW w, Listed(o, w)
    PROVE  IsFirstAt(o, w, CHOOSE q \in 1 .. Len(o) : IsFirstAt(o, w, q))
<1> DEFINE T == {q \in 1 .. Len(o) : o[q] = w}
<1>1. T \subseteq Nat /\ T # {}
  BY DEF Listed
<1>2. PICK p \in T : \A q \in T : p <= q
  <2> HIDE DEF T
  <2> QED
    BY <1>1, LeastNumber
<1>3. p \in 1 .. Len(o) /\ IsFirstAt(o, w, p)
  BY <1>2 DEF IsFirstAt
<1> QED
  BY <1>3, Zenon

(* raise_window keeps every window in the order, and its length.           *)
LEMMA RaisedKeeps ==
    ASSUME NEW o \in Seq(Windows), NEW w \in Windows
    PROVE  /\ Raised(o, w) \in Seq(Windows) /\ Len(Raised(o, w)) = Len(o)
           /\ \A v : Listed(o, v) => Listed(Raised(o, w), v)
           /\ Listed(o, w) => Listed(Raised(o, w), w)
<1>1. CASE ~Listed(o, w)
  BY <1>1 DEF Raised, Listed
<1>2. CASE Listed(o, w)
  <2> DEFINE p == CHOOSE q \in 1 .. Len(o) : IsFirstAt(o, w, q)
             r == [k \in 1 .. Len(o) |-> IF k = Len(o) THEN w
                                         ELSE IF k < p THEN o[k] ELSE o[k + 1]]
  <2>1. p \in 1 .. Len(o) /\ o[p] = w
    BY <1>2, FirstMention DEF IsFirstAt
  <2>2. Raised(o, w) = r
    BY <1>2 DEF Raised, Listed
  <2> HIDE DEF p
  <2>3. Len(o) \in Nat /\ \A k \in 1 .. Len(o) : o[k] \in Windows
    OBVIOUS
  <2>4. \A k \in 1 .. Len(o) : r[k] \in Windows
    BY <2>1, <2>3
  <2>5. r \in Seq(Windows) /\ Len(r) = Len(o)
    BY <2>3, <2>4
  <2>6. ASSUME NEW v, Listed(o, v) PROVE Listed(r, v)
    <3>1. PICK k \in 1 .. Len(o) : o[k] = v
      BY <2>6 DEF Listed
    <3>2. CASE k < p
      <4>1. k # Len(o) /\ r[k] = v
        BY <2>1, <2>3, <3>1, <3>2
      <4> QED
        BY <2>5, <4>1 DEF Listed
    <3>3. CASE k = p
      <4>1. r[Len(o)] = v /\ Len(o) \in 1 .. Len(o)
        BY <2>1, <2>3, <3>1, <3>3
      <4> QED
        BY <2>5, <4>1 DEF Listed
    <3>4. CASE k > p
      <4>1. k - 1 \in 1 .. Len(o) /\ r[k - 1] = v
        BY <2>1, <2>3, <3>1, <3>4
      <4> QED
        BY <2>5, <4>1 DEF Listed
    <3> QED
      BY <2>1, <2>3, <3>2, <3>3, <3>4
  <2> QED
    BY <1>2, <2>2, <2>5, <2>6
<1> QED
  BY <1>1, <1>2

(* Closing a window drops one mention of it, and no other window.          *)
LEMMA DroppedKeeps ==
    ASSUME NEW o \in Seq(Windows), NEW w \in Windows, Listed(o, w)
    PROVE  /\ Dropped(o, w) \in Seq(Windows) /\ Len(Dropped(o, w)) = Len(o) - 1
           /\ \A v : v # w /\ Listed(o, v) => Listed(Dropped(o, w), v)
<1> DEFINE p == CHOOSE q \in 1 .. Len(o) : IsFirstAt(o, w, q)
           r == [k \in 1 .. Len(o) - 1 |-> IF k < p THEN o[k] ELSE o[k + 1]]
<1>1. p \in 1 .. Len(o) /\ o[p] = w
  BY FirstMention DEF IsFirstAt
<1>2. Dropped(o, w) = r
  BY DEF Dropped
<1> HIDE DEF p
<1>3. Len(o) - 1 \in Nat /\ \A k \in 1 .. Len(o) : o[k] \in Windows
  BY <1>1
<1>4. \A k \in 1 .. Len(o) - 1 : r[k] \in Windows
  BY <1>1, <1>3
<1>5. r \in Seq(Windows) /\ Len(r) = Len(o) - 1
  BY <1>3, <1>4
<1>6. ASSUME NEW v, v # w, Listed(o, v) PROVE Listed(r, v)
  <2>1. PICK k \in 1 .. Len(o) : o[k] = v
    BY <1>6 DEF Listed
  <2>2. CASE k < p
    <3>1. k \in 1 .. Len(o) - 1 /\ r[k] = v
      BY <1>1, <1>3, <2>1, <2>2
    <3> QED
      BY <1>5, <3>1 DEF Listed
  <2>3. CASE k > p
    <3>1. k - 1 \in 1 .. Len(o) - 1 /\ r[k - 1] = v
      BY <1>1, <1>3, <2>1, <2>3
    <3> QED
      BY <1>5, <3>1 DEF Listed
  <2> QED
    BY <1>1, <1>6, <2>1, <2>2, <2>3
<1> QED
  BY <1>2, <1>5, <1>6

(* A new window is appended behind the others.                             *)
LEMMA AppendKeeps ==
    ASSUME NEW o \in Seq(Windows), NEW w \in Windows
    PROVE  /\ Append(o, w) \in Seq(Windows) /\ Len(Append(o, w)) = Len(o) + 1
           /\ \A v : Listed(o, v) => Listed(Append(o, w), v)
           /\ Listed(Append(o, w), w)
<1>1. /\ Append(o, w) \in Seq(Windows) /\ Len(Append(o, w)) = Len(o) + 1
      /\ \A k \in 1 .. Len(o) : Append(o, w)[k] = o[k]
      /\ Append(o, w)[Len(o) + 1] = w
  OBVIOUS
<1>2. \A v : Listed(o, v) => Listed(Append(o, w), v)
  BY <1>1 DEF Listed
<1>3. Listed(Append(o, w), w)
  BY <1>1 DEF Listed
<1> QED
  BY <1>1, <1>2, <1>3

-----------------------------------------------------------------------------
(* Lemmas about slots and the window table *)

(* What a slot's program is, whatever else changes in the slot             *)
SameSlots ==
    \A s \in Slots : slot'[s].state = slot[s].state /\ slot'[s].fiber = slot[s].fiber

(* An event is queued for the program that is in the slot, or dropped.     *)
LEMMA PushKeeps ==
    ASSUME TypeOK, OwnEventsOnly, NEW s, slot' = Push(s)
    PROVE  /\ slot' \in [Slots -> SlotType] /\ \A t \in Slots : Len(slot'[t].queue) < QueueLen
           /\ SameSlots /\ OwnEventsOnly'
<1>1. CASE slot' = slot
  BY <1>1 DEF TypeOK, SameSlots, OwnEventsOnly
<1>2. CASE slot' # slot
  <2> DEFINE q == Append(slot[s].queue, slot[s].fiber)
  <2>1. /\ s \in Slots /\ Len(slot[s].queue) < QueueLen - 1
        /\ slot' = [slot EXCEPT ![s].queue = q]
    BY <1>2 DEF Push
  <2>2. slot[s] \in SlotType /\ slot[s].queue \in Seq(Fibers \cup {0})
        /\ slot[s].fiber \in Fibers \cup {0}
    BY <2>1 DEF TypeOK, SlotType
  <2>3. /\ q \in Seq(Fibers \cup {0}) /\ Len(q) = Len(slot[s].queue) + 1
        /\ \A k \in 1 .. Len(slot[s].queue) : q[k] = slot[s].queue[k]
        /\ q[Len(slot[s].queue) + 1] = slot[s].fiber
    BY <2>2
  <2> HIDE DEF q
  <2>4. /\ slot' \in [Slots -> SlotType] /\ slot'[s] = [slot[s] EXCEPT !.queue = q]
        /\ \A t \in Slots \ {s} : slot'[t] = slot[t]
    <3>1. [slot[s] EXCEPT !.queue = q] \in SlotType
      BY <2>2, <2>3 DEF SlotType
    <3>2. slot \in [Slots -> SlotType]
      BY DEF TypeOK
    <3> QED
      BY <2>1, <3>1, <3>2
  <2>5. slot'[s].queue = q /\ slot'[s].state = slot[s].state /\ slot'[s].fiber = slot[s].fiber
    BY <2>2, <2>4 DEF SlotType
  <2>6. \A t \in Slots : Len(slot'[t].queue) < QueueLen
    BY <2>1, <2>2, <2>3, <2>4, <2>5, AppsAssumption DEF TypeOK
  <2>7. SameSlots
    BY <2>4, <2>5 DEF SameSlots
  <2>8. OwnEventsOnly'
    <3> SUFFICES ASSUME NEW t \in Slots, slot'[t].state # "unused",
                        NEW k \in 1 .. Len(slot'[t].queue)
                 PROVE  slot'[t].queue[k] = slot'[t].fiber
      BY DEF OwnEventsOnly
    <3>1. CASE t # s
      BY <3>1, <2>4 DEF OwnEventsOnly
    <3>2. CASE t = s
      <4>1. k \in 1 .. Len(slot[s].queue) \/ k = Len(slot[s].queue) + 1
        BY <3>2, <2>2, <2>3, <2>5
      <4> QED
        BY <3>2, <4>1, <2>1, <2>3, <2>5 DEF OwnEventsOnly
    <3> QED
      BY <3>1, <3>2
  <2> QED
    BY <2>4, <2>6, <2>7, <2>8
<1> QED
  BY <1>1, <1>2

(* What is said of the slots depends on their programs and the fibers.     *)
LEMMA ProgramsFrame ==
    ASSUME FreeSlots, ProgramsApart, SameSlots, fiber' = fiber
    PROVE  FreeSlots' /\ ProgramsApart'
<1>1. FreeSlots'
  BY DEF FreeSlots, SameSlots
<1>2. ProgramsApart'
  BY DEF ProgramsApart, SameSlots
<1> QED
  BY <1>1, <1>2

(* While no program runs, steps that leave fibers alone leave it so.       *)
Resting == {"shell", "click", "wheel", "paint", "key", "overrun"}
LEMMA RestFrame ==
    ASSUME CallerOK, FreeSlots, ProgramsApart, SameSlots, UNCHANGED <<fiber, current>>,
           phase \in Resting \cup {"load"}, phase' \in Resting \cup {"load"}
    PROVE  CallerOK' /\ FreeSlots' /\ ProgramsApart'
<1>1. CallerOK'
  BY DEF CallerOK, Resting
<1> QED
  BY <1>1, ProgramsFrame

(* Changing windows that stay in the order                                 *)
LEMMA WindowTyped ==
    ASSUME TypeOK, NEW w \in Windows
    PROVE  /\ win[w] \in WindowType
           /\ \A u, m \in BOOLEAN : [win EXCEPT ![w].min = m] \in [Windows -> WindowType]
                                    /\ [win EXCEPT ![w].used = u] \in [Windows -> WindowType]
           /\ \A a \in Builtins \cup {"loaded"}, f \in Fibers \cup {0} :
                 /\ NewWindow(a, f) \in WindowType
                 /\ [win EXCEPT ![w] = NewWindow(a, f)] \in [Windows -> WindowType]
<1>1. win \in [Windows -> WindowType]
  BY DEF TypeOK
<1>2. win[w] \in WindowType
  BY <1>1
<1>3. ASSUME NEW u \in BOOLEAN, NEW m \in BOOLEAN
      PROVE  [win[w] EXCEPT !.min = m] \in WindowType /\ [win[w] EXCEPT !.used = u] \in WindowType
  BY <1>2 DEF WindowType
<1>4. ASSUME NEW a \in Builtins \cup {"loaded"}, NEW f \in Fibers \cup {0}
      PROVE  NewWindow(a, f) \in WindowType
  BY <1>4 DEF NewWindow, NoWindow, WindowType
<1> QED
  BY <1>1, <1>2, <1>3, <1>4

(* launch_or_focus_app opens or raises a window of the order, or stops.    *)
LEMMA LaunchKeeps ==
    ASSUME TypeOK, Ordered, NEW a \in Builtins, NEW next, launch_or_focus_app(a, next)
    PROVE  /\ win' \in [Windows -> WindowType] /\ Ordered'
           /\ order' \in Seq(Windows) /\ Len(order') <= MaxWindows
           /\ phase' \in {next, "overrun"}
<1>1. order \in Seq(Windows) /\ Len(order) <= MaxWindows /\ win \in [Windows -> WindowType]
      /\ MaxWindows \in Nat
  BY AppsAssumption DEF TypeOK
<1>2. ASSUME NEW w \in Windows, win' = [win EXCEPT ![w].min = FALSE],
             order' = Raised(order, w), phase' = next
      PROVE  /\ win' \in [Windows -> WindowType] /\ Ordered'
             /\ order' \in Seq(Windows) /\ Len(order') <= MaxWindows
  <2>1. win' \in [Windows -> WindowType]
    BY <1>2, WindowTyped
  <2>2. \A v \in Windows : win'[v].used = win[v].used
    BY <1>1, <1>2 DEF WindowType
  <2> QED
    BY <1>1, <1>2, <2>1, <2>2, RaisedKeeps DEF Ordered
<1>3. ASSUME NEW w \in Windows, RoomInOrder, win' = [win EXCEPT ![w] = NewWindow(a, 0)],
             order' = Raised(Append(order, w), w), phase' = next
      PROVE  /\ win' \in [Windows -> WindowType] /\ Ordered'
             /\ order' \in Seq(Windows) /\ Len(order') <= MaxWindows
  <2>1. win' \in [Windows -> WindowType]
    BY <1>3, WindowTyped
  <2>2. \A v \in Windows \ {w} : win'[v] = win[v]
    BY <1>1, <1>3
  <2>3. /\ Append(order, w) \in Seq(Windows) /\ Len(Append(order, w)) = Len(order) + 1
        /\ \A v : Listed(order, v) => Listed(Append(order, w), v)
        /\ Listed(Append(order, w), w)
    BY <1>1, <1>3, AppendKeeps
  <2>4. /\ order' \in Seq(Windows) /\ Len(order') = Len(order) + 1
        /\ \A v : Listed(Append(order, w), v) => Listed(order', v)
    BY <1>3, <2>3, RaisedKeeps
  <2>5. Len(order') <= MaxWindows
    BY <1>1, <1>3, <2>4 DEF RoomInOrder
  <2> QED
    BY <1>1, <2>1, <2>2, <2>3, <2>4, <2>5 DEF Ordered
<1>4. CASE phase' = "overrun" /\ UNCHANGED <<win, order>>
  BY <1>1, <1>4 DEF Ordered
<1> QED
  BY <1>2, <1>3, <1>4 DEF launch_or_focus_app

-----------------------------------------------------------------------------
(* The invariant is inductive: the first state, then one lemma per action *)

(* Nothing is loaded, no window is open.                                   *)
LEMMA InitHolds == ASSUME Init PROVE Inv
<1> USE DEF Init
<1>1. TypeOK
  <2>1. NoFiber \in FiberType /\ EmptySlot \in SlotType /\ NoWindow \in WindowType
    BY DEF NoFiber, FiberType, EmptySlot, SlotType, NoWindow, WindowType
  <2>2. order \in Seq(Windows) /\ Len(order) = 0
    OBVIOUS
  <2>3. \A s \in Slots : Len(slot[s].queue) < QueueLen
    BY AppsAssumption DEF EmptySlot
  <2>4. running \in BOOLEAN
    BY Zenon
  <2> QED
    BY <2>1, <2>2, <2>3, <2>4, AppsAssumption DEF TypeOK
<1>2. PhaseOK /\ FreeSlots /\ ProgramsApart /\ OwnEventsOnly /\ Ordered
  BY DEF PhaseOK, FreeSlots, ProgramsApart, OwnEventsOnly, Ordered, EmptySlot, NoWindow
<1>3. CallerOK
  BY DEF CallerOK, NoCurrent, NoFiber, Fibers
<1> QED
  BY <1>1, <1>2, <1>3 DEF Inv

(* The desktop starts with an empty order and an unused window table.      *)
LEMMA StartGuiHolds == ASSUME Inv, StartGui PROVE Inv'
<1> USE DEF Inv
<1>1. /\ UNCHANGED <<fiber, current, running, slot, buttons, topmost, pos, loading>>
      /\ phase = "shell" /\ phase' = "click" /\ order' = <<>>
      /\ win' = [w \in Windows |-> NoWindow] /\ owner' = [w \in Windows |-> 0]
  BY DEF StartGui
<1>2. TypeOK'
  <2>1. NoWindow \in WindowType
    BY DEF NoWindow, WindowType
  <2>2. order' \in Seq(Windows) /\ Len(order') <= MaxWindows
    BY <1>1, AppsAssumption
  <2> QED
    BY <1>1, <2>1, <2>2 DEF TypeOK
<1>3. CallerOK' /\ FreeSlots' /\ ProgramsApart'
  BY <1>1, RestFrame DEF SameSlots, Resting
<1>4. PhaseOK'
  BY <1>1 DEF PhaseOK
<1>5. OwnEventsOnly' /\ Ordered'
  BY <1>1 DEF OwnEventsOnly, Ordered, NoWindow
<1> QED
  BY <1>2, <1>3, <1>4, <1>5

(* No click                                                                *)
LEMMA NoClickHolds == ASSUME Inv, NoClick PROVE Inv'
<1> USE DEF Inv
<1>1. /\ UNCHANGED <<fiber, current, running, slot, win, owner, order, buttons, topmost,
                     pos, loading>>
      /\ phase = "click" /\ phase' = "wheel"
  BY DEF NoClick
<1>2. TypeOK' /\ PhaseOK' /\ OwnEventsOnly' /\ Ordered'
  BY <1>1 DEF TypeOK, PhaseOK, OwnEventsOnly, Ordered
<1>3. CallerOK' /\ FreeSlots' /\ ProgramsApart'
  BY <1>1, RestFrame DEF SameSlots, Resting
<1> QED
  BY <1>2, <1>3

(* A built-in application from the search panel, by mouse or by key        *)
LEMMA SearchHolds ==
    ASSUME Inv, phase \in {"click", "key"}, NEW a \in Builtins, NEW next \in {"wheel", "click"},
           launch_or_focus_app(a, next),
           UNCHANGED <<fiber, current, running, slot, owner, buttons, topmost, pos, loading>>
    PROVE  Inv'
<1> USE DEF Inv
<1>1. /\ win' \in [Windows -> WindowType] /\ Ordered'
      /\ order' \in Seq(Windows) /\ Len(order') <= MaxWindows
      /\ phase' \in {next, "overrun"}
  BY LaunchKeeps
<1>2. TypeOK' /\ PhaseOK' /\ OwnEventsOnly'
  BY <1>1 DEF TypeOK, PhaseOK, OwnEventsOnly
<1>3. CallerOK' /\ FreeSlots' /\ ProgramsApart'
  BY <1>1, RestFrame DEF SameSlots, Resting
<1> QED
  BY <1>1, <1>2, <1>3

(* From the search panel, by mouse                                         *)
LEMMA ClickSearchHolds == ASSUME Inv, ClickSearch PROVE Inv'
  BY SearchHolds DEF ClickSearch

(* From the search panel, by key                                           *)
LEMMA KeySearchHolds == ASSUME Inv, KeySearch PROVE Inv'
  BY SearchHolds DEF KeySearch

(* A taskbar button minimises or raises its window.                        *)
LEMMA ClickTaskbarHolds == ASSUME Inv, ClickTaskbar PROVE Inv'
<1> USE DEF Inv
<1>1. PICK w \in buttons : \/ /\ win' = [win EXCEPT ![w].min = FALSE]
                              /\ order' = Raised(order, w)
                           \/ /\ win' = [win EXCEPT ![w].min = TRUE]
                              /\ order' = order
                           \/ /\ order' = Raised(order, w)
                              /\ win' = win
  BY DEF ClickTaskbar
<1>2. /\ UNCHANGED <<fiber, current, running, slot, owner, buttons, topmost, pos, loading>>
      /\ phase = "click" /\ phase' = "wheel"
  BY DEF ClickTaskbar
<1>3. w \in Windows /\ order \in Seq(Windows) /\ Len(order) <= MaxWindows
      /\ win \in [Windows -> WindowType]
  BY DEF TypeOK
<1>4. win' \in [Windows -> WindowType]
  BY <1>1, <1>3, WindowTyped
<1>5. \A v \in Windows : win'[v].used = win[v].used
  BY <1>1, <1>3 DEF WindowType
<1>6. order' \in Seq(Windows) /\ Len(order') <= MaxWindows /\ Ordered'
  BY <1>1, <1>3, <1>5, RaisedKeeps DEF Ordered
<1>7. TypeOK' /\ PhaseOK' /\ OwnEventsOnly'
  BY <1>2, <1>4, <1>6 DEF TypeOK, PhaseOK, OwnEventsOnly
<1>8. CallerOK' /\ FreeSlots' /\ ProgramsApart'
  BY <1>2, RestFrame DEF SameSlots, Resting
<1> QED
  BY <1>6, <1>7, <1>8

(* A window is raised; then it is closed, minimised, made to fill the      *)
(* screen, or its program gets the click.                                  *)
LEMMA ClickWindowHolds == ASSUME Inv, ClickWindow PROVE Inv'
<1> USE DEF Inv
<1>1. PICK k \in 1 .. Len(order) :
          \/ /\ win' = [win EXCEPT ![order[k]].used = FALSE]
             /\ order' = Dropped(Raised(order, order[k]), order[k]) /\ slot' = slot
          \/ /\ win' = [win EXCEPT ![order[k]].min = TRUE]
             /\ order' = Raised(order, order[k]) /\ slot' = slot
          \/ /\ order' = Raised(order, order[k]) /\ win' = win
             /\ slot' = slot \/ slot' = Push(owner[order[k]])
  BY DEF ClickWindow
<1>2. /\ UNCHANGED <<fiber, current, running, owner, buttons, topmost, pos, loading>>
      /\ phase = "click" /\ phase' = "wheel"
  BY DEF ClickWindow
<1> DEFINE w == order[k]
<1>3. w \in Windows /\ order \in Seq(Windows) /\ Len(order) <= MaxWindows
      /\ win \in [Windows -> WindowType] /\ Listed(order, w)
  BY DEF TypeOK, Listed
<1> HIDE DEF w
<1>4. win' \in [Windows -> WindowType]
  <2>1. /\ [win EXCEPT ![w].used = FALSE] \in [Windows -> WindowType]
        /\ [win EXCEPT ![w].min = TRUE] \in [Windows -> WindowType]
    BY <1>3, WindowTyped
  <2> QED
    BY <1>1, <1>3, <2>1, Zenon DEF w
<1>5. order' \in Seq(Windows) /\ Len(order') <= MaxWindows /\ Ordered'
  <2>1. /\ Raised(order, w) \in Seq(Windows) /\ Len(Raised(order, w)) = Len(order)
        /\ \A v : Listed(order, v) => Listed(Raised(order, w), v)
    BY <1>3, RaisedKeeps
  <2>2. CASE win' = [win EXCEPT ![w].used = FALSE] /\ order' = Dropped(Raised(order, w), w)
    <3>1. /\ order' \in Seq(Windows) /\ Len(order') = Len(order) - 1
          /\ \A v : v # w /\ Listed(Raised(order, w), v) => Listed(order', v)
      BY <1>3, <2>1, <2>2, DroppedKeeps
    <3>2. Len(order) \in Nat /\ Len(order') <= MaxWindows
      BY <1>3, <3>1, AppsAssumption
    <3>3. win'[w].used = FALSE /\ \A v \in Windows \ {w} : win'[v] = win[v]
      BY <1>3, <2>2 DEF WindowType
    <3> QED
      BY <2>1, <3>1, <3>2, <3>3 DEF Ordered
  <2>3. CASE win' = [win EXCEPT ![w].min = TRUE] /\ order' = Raised(order, w)
    <3>1. \A v \in Windows : win'[v].used = win[v].used
      BY <1>3, <2>3 DEF WindowType
    <3> QED
      BY <1>3, <2>1, <2>3, <3>1 DEF Ordered
  <2>4. CASE win' = win /\ order' = Raised(order, w)
    BY <1>3, <2>1, <2>4 DEF Ordered
  <2> QED
    BY <1>1, <2>2, <2>3, <2>4 DEF w
<1>6. /\ slot' \in [Slots -> SlotType] /\ \A t \in Slots : Len(slot'[t].queue) < QueueLen
      /\ SameSlots /\ OwnEventsOnly'
  <2>1. CASE slot' = slot
    BY <2>1 DEF TypeOK, SameSlots, OwnEventsOnly
  <2>2. CASE slot' = Push(owner[w])
    BY <2>2, PushKeeps
  <2> QED
    BY <1>1, <2>1, <2>2 DEF w
<1>7. TypeOK' /\ PhaseOK'
  BY <1>2, <1>4, <1>5, <1>6 DEF TypeOK, PhaseOK
<1>8. CallerOK' /\ FreeSlots' /\ ProgramsApart'
  BY <1>2, <1>6, RestFrame DEF Resting
<1> QED
  BY <1>5, <1>6, <1>7, <1>8

(* The wheel turns over a program's window or not; painting begins.        *)
LEMMA WheelHolds == ASSUME Inv, Wheel PROVE Inv'
<1> USE DEF Inv
<1>1. /\ UNCHANGED <<fiber, current, running, win, owner, order, buttons, loading>>
      /\ phase = "wheel" /\ phase' = "paint" /\ pos' = 1
      /\ topmost' \in Windows \cup {0}
      /\ slot' = slot \/ \E s : slot' = Push(s)
  BY DEF Wheel
<1>2. /\ slot' \in [Slots -> SlotType] /\ \A t \in Slots : Len(slot'[t].queue) < QueueLen
      /\ SameSlots /\ OwnEventsOnly'
  <2>1. CASE slot' = slot
    BY <2>1 DEF TypeOK, SameSlots, OwnEventsOnly
  <2>2. CASE slot' # slot
    BY <1>1, <2>2, PushKeeps
  <2> QED
    BY <2>1, <2>2
<1>3. TypeOK' /\ PhaseOK' /\ Ordered'
  BY <1>1, <1>2, AppsAssumption DEF TypeOK, PhaseOK, Ordered
<1>4. CallerOK' /\ FreeSlots' /\ ProgramsApart'
  BY <1>1, <1>2, RestFrame DEF Resting
<1> QED
  BY <1>2, <1>3, <1>4

(* A window without a program is painted, or one that is not shown.        *)
LEMMA PaintPlainHolds == ASSUME Inv, PaintPlain PROVE Inv'
<1> USE DEF Inv
<1>1. /\ UNCHANGED <<fiber, current, running, slot, win, owner, order, buttons, topmost,
                     phase, loading>>
      /\ phase = "paint" /\ pos <= Len(order) /\ pos' = pos + 1
  BY DEF PaintPlain, Painted, MoreToPaint
<1>2. pos \in Nat /\ Len(order) \in Nat /\ Len(order) <= MaxWindows /\ MaxWindows \in Nat
  BY AppsAssumption DEF TypeOK
<1>3. TypeOK' /\ PhaseOK' /\ OwnEventsOnly' /\ Ordered'
  BY <1>1, <1>2 DEF TypeOK, PhaseOK, OwnEventsOnly, Ordered
<1>4. CallerOK' /\ FreeSlots' /\ ProgramsApart'
  BY <1>1, RestFrame DEF SameSlots, Resting
<1> QED
  BY <1>3, <1>4

(* The window of a program that has gone is no longer in use.              *)
LEMMA PaintGoneHolds == ASSUME Inv, PaintGone PROVE Inv'
<1> USE DEF Inv
<1>1. /\ UNCHANGED <<fiber, current, running, slot, owner, order, buttons, topmost,
                     phase, loading>>
      /\ phase = "paint" /\ pos <= Len(order) /\ pos' = pos + 1
      /\ win' = [win EXCEPT ![order[pos]].used = FALSE]
  BY DEF PaintGone, Painted, MoreToPaint
<1>2. pos \in Nat /\ Len(order) \in Nat /\ Len(order) <= MaxWindows /\ MaxWindows \in Nat
  BY AppsAssumption DEF TypeOK
<1>3. pos \in 1 .. Len(order) /\ order[pos] \in Windows
  BY <1>1, <1>2 DEF PhaseOK, TypeOK
<1>4. win' \in [Windows -> WindowType]
  BY <1>1, <1>3, WindowTyped
<1>5. \A v \in Windows : win'[v].used = TRUE => win[v].used = TRUE
  <2>1. win \in [Windows -> WindowType]
    BY DEF TypeOK
  <2>2. win'[order[pos]].used = FALSE /\ \A v \in Windows \ {order[pos]} : win'[v] = win[v]
    BY <1>1, <1>3, <2>1 DEF WindowType
  <2> QED
    BY <2>2
<1>6. Ordered'
  BY <1>1, <1>4, <1>5 DEF Ordered, WindowType
<1>7. TypeOK' /\ PhaseOK' /\ OwnEventsOnly'
  BY <1>1, <1>2, <1>4 DEF TypeOK, PhaseOK, OwnEventsOnly
<1>8. CallerOK' /\ FreeSlots' /\ ProgramsApart'
  BY <1>1, RestFrame DEF SameSlots, Resting
<1> QED
  BY <1>6, <1>7, <1>8

(* A fiber that is continued has the processor, on behalf of its slot.     *)
LEMMA ResumeKeeps ==
    ASSUME NEW fs \in [Fibers -> FiberType], NEW f, NEW s, NEW otherwise,
           fiber_resume(fs, f, s, otherwise)
    PROVE  \/ /\ f \in Fibers /\ fs[f].at # "parked"
              /\ fiber' \in [Fibers -> FiberType]
              /\ fiber'[f].state = "running"
              /\ \A g \in Fibers : fiber'[g].at = fs[g].at /\ fiber'[g].slot = fs[g].slot
              /\ \A g \in Fibers \ {f} : fiber'[g].state = fs[g].state
              /\ current' = [fiber |-> f, slot |-> s] /\ phase' = "slice"
           \/ /\ ~(f \in Fibers /\ fs[f].state = "ready" /\ fs[f].at # "parked")
              /\ fiber' = fs /\ current' = current /\ phase' = otherwise
<1>1. CASE f \in Fibers /\ fs[f].state = "ready" /\ fs[f].at # "parked"
  <2>1. /\ fiber' = [fs EXCEPT ![f].state = "running"]
        /\ current' = [fiber |-> f, slot |-> s] /\ phase' = "slice"
    BY <1>1 DEF fiber_resume
  <2>2. fs[f] \in FiberType /\ [fs[f] EXCEPT !.state = "running"] \in FiberType
    BY <1>1 DEF FiberType
  <2>3. fiber' \in [Fibers -> FiberType] /\ \A g \in Fibers \ {f} : fiber'[g] = fs[g]
    BY <1>1, <2>1, <2>2
  <2>4. fiber'[f] = [fs[f] EXCEPT !.state = "running"]
    BY <1>1, <2>1
  <2>5. fiber'[f].state = "running" /\ fiber'[f].at = fs[f].at /\ fiber'[f].slot = fs[f].slot
    BY <2>2, <2>4 DEF FiberType
  <2> QED
    BY <1>1, <2>1, <2>3, <2>5
<1>2. CASE ~(f \in Fibers /\ fs[f].state = "ready" /\ fs[f].at # "parked")
  BY <1>2 DEF fiber_resume
<1> QED
  BY <1>1, <1>2

(* The program of the window that is painted runs on.                      *)
LEMMA PaintAliveHolds == ASSUME Inv, PaintAlive PROVE Inv'
<1> USE DEF Inv
<1> DEFINE s == owner[order[pos]]
<1>1. /\ UNCHANGED <<running, slot, win, owner, order, buttons, topmost, loading>>
      /\ phase = "paint" /\ pos <= Len(order) /\ pos' = pos + 1
      /\ s \in Slots /\ slot[s].state = "running"
      /\ fiber_resume(fiber, slot[s].fiber, s, "paint")
  BY DEF PaintAlive, Painted, MoreToPaint, Alive
<1> HIDE DEF s
<1>2. pos \in Nat /\ Len(order) \in Nat /\ Len(order) <= MaxWindows /\ MaxWindows \in Nat
      /\ fiber \in [Fibers -> FiberType]
  BY AppsAssumption DEF TypeOK
<1> DEFINE f == slot[s].fiber
<1>3. \/ /\ f \in Fibers /\ fiber[f].at # "parked"
         /\ fiber' \in [Fibers -> FiberType]
         /\ fiber'[f].state = "running"
         /\ \A g \in Fibers : fiber'[g].at = fiber[g].at /\ fiber'[g].slot = fiber[g].slot
         /\ \A g \in Fibers \ {f} : fiber'[g].state = fiber[g].state
         /\ current' = [fiber |-> f, slot |-> s] /\ phase' = "slice"
      \/ fiber' = fiber /\ current' = current /\ phase' = "paint"
  BY <1>1, <1>2, ResumeKeeps
<1>4. CASE phase' = "paint"
  <2>1. fiber' = fiber /\ current' = current
    BY <1>3, <1>4
  <2>2. TypeOK' /\ PhaseOK' /\ OwnEventsOnly' /\ Ordered'
    BY <1>1, <1>2, <1>4, <2>1 DEF TypeOK, PhaseOK, OwnEventsOnly, Ordered
  <2>3. CallerOK' /\ FreeSlots' /\ ProgramsApart'
    BY <1>1, <1>4, <2>1, RestFrame DEF SameSlots, Resting
  <2> QED
    BY <2>2, <2>3
<1>5. CASE phase' = "slice"
  <2>1. /\ f \in Fibers /\ fiber[f].at # "parked"
        /\ fiber' \in [Fibers -> FiberType]
        /\ fiber'[f].state = "running"
        /\ \A g \in Fibers : fiber'[g].at = fiber[g].at /\ fiber'[g].slot = fiber[g].slot
        /\ \A g \in Fibers \ {f} : fiber'[g].state = fiber[g].state
        /\ current' = [fiber |-> f, slot |-> s]
    BY <1>3, <1>5
  <2>2. TypeOK'
    <3>1. current' \in [fiber : Fibers \cup {0}, slot : Slots \cup {0}]
      BY <1>1, <2>1
    <3> QED
      BY <1>1, <1>2, <1>5, <2>1, <3>1 DEF TypeOK
  <2>3. PhaseOK' /\ OwnEventsOnly' /\ Ordered' /\ FreeSlots'
    BY <1>1, <1>2, <1>5 DEF PhaseOK, OwnEventsOnly, Ordered, FreeSlots
  <2>4. CallerOK'
    <3>1. \A g \in Fibers : fiber[g].state # "running"
      BY <1>1 DEF CallerOK, NoCurrent, Fibers
    <3>2. current'.fiber = f /\ current'.slot = s
      BY <2>1
    <3> QED
      BY <1>1, <1>5, <2>1, <3>1, <3>2 DEF CallerOK
  <2>5. ProgramsApart'
    BY <1>1, <2>1 DEF ProgramsApart
  <2> QED
    BY <2>2, <2>3, <2>4, <2>5
<1> QED
  BY <1>3, <1>4, <1>5

(* The taskbar is drawn.                                                   *)
LEMMA PaintDoneHolds == ASSUME Inv, PaintDone PROVE Inv'
<1> USE DEF Inv
<1>1. /\ UNCHANGED <<fiber, current, running, slot, win, owner, order, topmost, loading>>
      /\ phase = "paint" /\ phase' = "key" /\ pos' = 0 /\ buttons' \subseteq Windows
  BY DEF PaintDone
<1>2. TypeOK' /\ PhaseOK' /\ OwnEventsOnly' /\ Ordered'
  BY <1>1, AppsAssumption DEF TypeOK, PhaseOK, OwnEventsOnly, Ordered
<1>3. CallerOK' /\ FreeSlots' /\ ProgramsApart'
  BY <1>1, RestFrame DEF SameSlots, Resting
<1> QED
  BY <1>2, <1>3

(* The program that has the processor, its fiber and its slot              *)
LEMMA TheCaller ==
    ASSUME Inv, phase = "slice"
    PROVE  /\ current.fiber \in Fibers /\ current.slot \in Slots
           /\ slot[current.slot].fiber = current.fiber
           /\ slot[current.slot].state # "unused"
           /\ fiber[current.fiber].at # "parked"
           /\ fiber[current.fiber].at = "code" => fiber[current.fiber].slot = current.slot
           /\ \A t \in Slots \ {current.slot} : slot[t].fiber # current.fiber
  BY DEF Inv, CallerOK, ProgramsApart

(* After fiber_yield no program runs, and only the caller's fiber changed. *)
LEMMA YieldKeeps ==
    ASSUME Inv, phase = "slice", NEW at \in {"code", "parked"}, fiber_yield(at)
    PROVE  /\ fiber' \in [Fibers -> FiberType]
           /\ fiber'[current.fiber].state = "ready" /\ fiber'[current.fiber].at = at
           /\ fiber'[current.fiber].slot = fiber[current.fiber].slot
           /\ \A g \in Fibers \ {current.fiber} : fiber'[g] = fiber[g]
           /\ current' = NoCurrent
           /\ (loading # 0 /\ phase' = "load") \/ (loading = 0 /\ phase' = "paint")
<1> DEFINE c == current.fiber
<1>1. /\ fiber' = [fiber EXCEPT ![c].state = "ready", ![c].at = at]
      /\ current' = NoCurrent /\ phase' = IF loading # 0 THEN "load" ELSE "paint"
  BY DEF fiber_yield, NoCurrent
<1>2. c \in Fibers
  BY TheCaller
<1> HIDE DEF c
<1>3. fiber \in [Fibers -> FiberType]
  BY DEF Inv, TypeOK
<1>4. fiber' = [fiber EXCEPT ![c] = [fiber[c] EXCEPT !.state = "ready", !.at = at]]
  BY <1>1, <1>2, <1>3
<1>5. fiber[c] \in FiberType /\ [fiber[c] EXCEPT !.state = "ready", !.at = at] \in FiberType
  BY <1>2, <1>3 DEF FiberType
<1>6. /\ fiber' \in [Fibers -> FiberType] /\ \A g \in Fibers \ {c} : fiber'[g] = fiber[g]
      /\ fiber'[c] = [fiber[c] EXCEPT !.state = "ready", !.at = at]
  BY <1>2, <1>3, <1>4, <1>5
<1>7. fiber'[c].state = "ready" /\ fiber'[c].at = at /\ fiber'[c].slot = fiber[c].slot
  BY <1>5, <1>6 DEF FiberType
<1> QED
  BY <1>1, <1>6, <1>7 DEF c

(* So a yield restores what is said of the time no program runs.           *)
LEMMA YieldRests ==
    ASSUME Inv, phase = "slice", NEW at \in {"code", "parked"}, fiber_yield(at),
           UNCHANGED <<pos, loading>>
    PROVE  CallerOK' /\ PhaseOK'
<1>1. CallerOK'
  <2>1. \A g \in Fibers : fiber'[g].state # "running"
    BY YieldKeeps, TheCaller DEF Inv, CallerOK
  <2>2. current' = NoCurrent /\ phase' \in {"load", "paint"}
    BY YieldKeeps
  <2> QED
    BY <2>1, <2>2 DEF CallerOK, NoCurrent, Fibers
<1>2. PhaseOK'
  <2>1. loading \in Slots \cup {0}
    BY DEF Inv, TypeOK
  <2> QED
    BY <2>1, YieldKeeps DEF Inv, PhaseOK
<1> QED
  BY <1>1, <1>2

(* A program's first slice begins.                                         *)
LEMMA StartHolds == ASSUME Inv, Start PROVE Inv'
<1> USE DEF Inv
<1> DEFINE c == current.fiber
<1>1. /\ UNCHANGED <<current, slot, win, owner, order, buttons, topmost, phase, pos, loading>>
      /\ phase = "slice" /\ fiber[c].at = "fresh"
      /\ fiber' = [fiber EXCEPT ![c].at = "code", ![c].slot = current.slot]
      /\ running' = TRUE
  BY DEF Start
<1>2. /\ c \in Fibers /\ current.slot \in Slots /\ slot[current.slot].fiber = c
      /\ \A t \in Slots \ {current.slot} : slot[t].fiber # c
  BY <1>1, TheCaller
<1> HIDE DEF c
<1>3. fiber \in [Fibers -> FiberType]
  BY DEF TypeOK
<1>4. fiber' = [fiber EXCEPT ![c] = [fiber[c] EXCEPT !.at = "code", !.slot = current.slot]]
  BY <1>1, <1>2, <1>3
<1>5. fiber[c] \in FiberType /\ [fiber[c] EXCEPT !.at = "code", !.slot = current.slot] \in FiberType
  BY <1>2, <1>3 DEF FiberType
<1>6. /\ fiber' \in [Fibers -> FiberType] /\ \A g \in Fibers \ {c} : fiber'[g] = fiber[g]
      /\ fiber'[c] = [fiber[c] EXCEPT !.at = "code", !.slot = current.slot]
  BY <1>2, <1>3, <1>4, <1>5
<1>7. fiber'[c].state = fiber[c].state /\ fiber'[c].at = "code" /\ fiber'[c].slot = current.slot
  BY <1>5, <1>6 DEF FiberType
<1>8. TypeOK'
  <2>1. running' \in BOOLEAN
    BY <1>1, Zenon
  <2> QED
    BY <1>1, <1>6, <2>1 DEF TypeOK
<1>9. PhaseOK' /\ OwnEventsOnly' /\ Ordered' /\ FreeSlots'
  BY <1>1 DEF PhaseOK, OwnEventsOnly, Ordered, FreeSlots
<1>10. CallerOK'
  BY <1>1, <1>2, <1>6, <1>7 DEF CallerOK
<1>11. ProgramsApart'
  BY <1>1, <1>2, <1>6, <1>7 DEF ProgramsApart
<1> QED
  BY <1>8, <1>9, <1>10, <1>11

(* The caller takes the first event of its queue.                          *)
LEMMA PollHolds == ASSUME Inv, Poll PROVE Inv'
<1> USE DEF Inv
<1> DEFINE s == current.slot
           q == slot[s].queue
<1>1. /\ UNCHANGED <<fiber, current, running, win, owner, order, buttons, topmost, phase,
                     pos, loading>>
      /\ phase = "slice" /\ q # <<>>
      /\ slot' = [slot EXCEPT ![s].queue = Tail(q)]
  BY DEF Poll, InProgram
<1>2. s \in Slots
  BY <1>1, TheCaller
<1> HIDE DEF s
<1>3. slot \in [Slots -> SlotType] /\ slot[s] \in SlotType /\ q \in Seq(Fibers \cup {0})
  BY <1>2 DEF TypeOK, SlotType
<1>4. /\ Tail(q) \in Seq(Fibers \cup {0}) /\ Len(Tail(q)) = Len(q) - 1
      /\ \A k \in 1 .. Len(q) - 1 : Tail(q)[k] = q[k + 1]
  BY <1>1, <1>3
<1> DEFINE r == Tail(q)
<1> HIDE DEF r
<1>5. [slot[s] EXCEPT !.queue = r] \in SlotType
  BY <1>3, <1>4 DEF SlotType, r
<1>6. /\ slot' \in [Slots -> SlotType] /\ slot'[s] = [slot[s] EXCEPT !.queue = r]
      /\ \A t \in Slots \ {s} : slot'[t] = slot[t]
  BY <1>1, <1>2, <1>3, <1>5 DEF r
<1>7. slot'[s].queue = r /\ slot'[s].state = slot[s].state /\ slot'[s].fiber = slot[s].fiber
  BY <1>3, <1>6 DEF SlotType
<1>8. SameSlots
  BY <1>6, <1>7 DEF SameSlots
<1>9. \A t \in Slots : Len(slot'[t].queue) < QueueLen
  <2>1. Len(q) < QueueLen /\ Len(q) \in Nat /\ QueueLen \in Nat
    BY <1>2, <1>3, AppsAssumption DEF TypeOK
  <2>2. Len(slot'[s].queue) < QueueLen
    BY <1>4, <1>7, <2>1 DEF r
  <2> QED
    BY <1>6, <2>2 DEF TypeOK
<1>10. TypeOK' /\ PhaseOK' /\ Ordered'
  BY <1>1, <1>6, <1>9 DEF TypeOK, PhaseOK, Ordered
<1>11. CallerOK' /\ FreeSlots' /\ ProgramsApart'
  <2>1. CallerOK'
    BY <1>1, <1>8 DEF CallerOK, SameSlots
  <2> QED
    BY <1>1, <1>8, <2>1, ProgramsFrame
<1>12. OwnEventsOnly'
  <2> SUFFICES ASSUME NEW t \in Slots, slot'[t].state # "unused",
                      NEW k \in 1 .. Len(slot'[t].queue)
               PROVE  slot'[t].queue[k] = slot'[t].fiber
    BY DEF OwnEventsOnly
  <2>1. CASE t # s
    BY <2>1, <1>6 DEF OwnEventsOnly
  <2>2. CASE t = s
    <3>1. k \in 1 .. Len(q) - 1 /\ k + 1 \in 1 .. Len(q) /\ slot'[t].queue[k] = q[k + 1]
      BY <2>2, <1>3, <1>4, <1>7 DEF r
    <3> QED
      BY <2>2, <3>1, <1>7 DEF OwnEventsOnly
  <2> QED
    BY <2>1, <2>2
<1> QED
  BY <1>10, <1>11, <1>12

(* A program gives the processor back.                                     *)
LEMMA YieldHolds == ASSUME Inv, Yield PROVE Inv'
<1> USE DEF Inv
<1>1. /\ UNCHANGED <<running, slot, win, owner, order, buttons, topmost, pos, loading>>
      /\ phase = "slice" /\ fiber[current.fiber].at = "code" /\ fiber_yield("code")
  BY DEF Yield, InProgram
<1>2. CallerOK' /\ PhaseOK'
  BY <1>1, YieldRests
<1>3. /\ fiber' \in [Fibers -> FiberType] /\ current' = NoCurrent
      /\ phase' \in {"load", "paint"}
      /\ fiber'[current.fiber].state = "ready" /\ fiber'[current.fiber].at = "code"
      /\ fiber'[current.fiber].slot = fiber[current.fiber].slot
      /\ \A g \in Fibers \ {current.fiber} : fiber'[g] = fiber[g]
  BY <1>1, YieldKeeps
<1>4. TypeOK'
  <2>1. current' \in [fiber : Fibers \cup {0}, slot : Slots \cup {0}]
    BY <1>3 DEF NoCurrent
  <2> QED
    BY <1>1, <1>3, <2>1 DEF TypeOK
<1>5. OwnEventsOnly' /\ Ordered' /\ FreeSlots'
  BY <1>1 DEF OwnEventsOnly, Ordered, FreeSlots
<1>6. ProgramsApart'
  BY <1>1, <1>3 DEF ProgramsApart
<1> QED
  BY <1>2, <1>4, <1>5, <1>6

(* It asks for a window first.                                             *)
LEMMA AskForWindowHolds == ASSUME Inv, AskForWindow PROVE Inv'
<1> USE DEF Inv
<1> DEFINE s == current.slot
<1>1. /\ UNCHANGED <<running, win, owner, order, buttons, topmost, pos, loading>>
      /\ phase = "slice" /\ fiber[current.fiber].at = "code" /\ fiber_yield("code")
      /\ slot' = [slot EXCEPT ![s].asked = TRUE]
  BY DEF AskForWindow, InProgram
<1>2. CallerOK' /\ PhaseOK'
  BY <1>1, YieldRests
<1>3. /\ fiber' \in [Fibers -> FiberType] /\ current' = NoCurrent
      /\ phase' \in {"load", "paint"}
      /\ fiber'[current.fiber].state = "ready" /\ fiber'[current.fiber].at = "code"
      /\ fiber'[current.fiber].slot = fiber[current.fiber].slot
      /\ \A g \in Fibers \ {current.fiber} : fiber'[g] = fiber[g]
  BY <1>1, YieldKeeps
<1>4. s \in Slots
  BY <1>1, TheCaller
<1> HIDE DEF s
<1>5. slot \in [Slots -> SlotType] /\ slot[s] \in SlotType
      /\ [slot[s] EXCEPT !.asked = TRUE] \in SlotType
  BY <1>4 DEF TypeOK, SlotType
<1>6. /\ slot' \in [Slots -> SlotType] /\ slot'[s] = [slot[s] EXCEPT !.asked = TRUE]
      /\ \A t \in Slots \ {s} : slot'[t] = slot[t]
  BY <1>1, <1>4, <1>5
<1>7. /\ slot'[s].queue = slot[s].queue /\ slot'[s].state = slot[s].state
      /\ slot'[s].fiber = slot[s].fiber
  BY <1>5, <1>6 DEF SlotType
<1>8. SameSlots /\ \A t \in Slots : slot'[t].queue = slot[t].queue
  BY <1>6, <1>7 DEF SameSlots
<1>9. TypeOK'
  <2>1. current' \in [fiber : Fibers \cup {0}, slot : Slots \cup {0}]
    BY <1>3 DEF NoCurrent
  <2>2. \A t \in Slots : Len(slot'[t].queue) < QueueLen
    BY <1>8 DEF TypeOK
  <2> QED
    BY <1>1, <1>3, <1>6, <2>1, <2>2 DEF TypeOK
<1>10. OwnEventsOnly' /\ Ordered' /\ FreeSlots'
  BY <1>1, <1>8 DEF OwnEventsOnly, Ordered, FreeSlots, SameSlots
<1>11. ProgramsApart'
  <2>1. \A g \in Fibers : /\ fiber'[g].at = fiber[g].at /\ fiber'[g].slot = fiber[g].slot
                          /\ fiber[g].state # "unused" => fiber'[g].state # "unused"
    BY <1>1, <1>3
  <2> QED
    BY <1>8, <2>1 DEF ProgramsApart, SameSlots
<1> QED
  BY <1>2, <1>9, <1>10, <1>11

(* A slot is reset: its program and its events are gone, the others stay.  *)
LEMMA ResetKeeps ==
    ASSUME Inv, NEW s \in Slots, slot' = [slot EXCEPT ![s] = Reset(s)],
           \A t \in Slots \ {s} : slot[t].state # "unused" =>
               fiber'[slot[t].fiber] = fiber[slot[t].fiber]
    PROVE  /\ slot' \in [Slots -> SlotType] /\ \A t \in Slots : Len(slot'[t].queue) < QueueLen
           /\ FreeSlots' /\ ProgramsApart' /\ OwnEventsOnly'
<1> USE DEF Inv
<1>1. slot \in [Slots -> SlotType] /\ EmptySlot \in SlotType
  BY DEF TypeOK, SlotType, EmptySlot
<1>2. /\ slot' \in [Slots -> SlotType] /\ slot'[s] = EmptySlot
      /\ \A t \in Slots \ {s} : slot'[t] = slot[t]
  BY <1>1 DEF Reset
<1>3. slot'[s].state = "unused" /\ slot'[s].fiber = 0 /\ Len(slot'[s].queue) = 0
  BY <1>2 DEF EmptySlot
<1>4. \A t \in Slots : Len(slot'[t].queue) < QueueLen
  BY <1>2, <1>3, AppsAssumption DEF TypeOK
<1>5. FreeSlots' /\ OwnEventsOnly'
  BY <1>2, <1>3 DEF FreeSlots, OwnEventsOnly
<1>6. ProgramsApart'
  <2>1. 0 \notin Fibers
    BY DEF Fibers
  <2> QED
    BY <1>2, <1>3, <2>1 DEF ProgramsApart
<1> QED
  BY <1>2, <1>4, <1>5, <1>6

(* A program ends: its fiber is parked, its slot free.                     *)
LEMMA LeaveHolds ==
    ASSUME Inv, phase = "slice", fiber[current.fiber].at = "code", Leave,
           UNCHANGED <<win, owner, order, buttons, topmost, pos, loading>>
    PROVE  Inv'
<1> USE DEF Inv
<1>1. /\ current.fiber \in Fibers /\ current.slot \in Slots
      /\ fiber[current.fiber].slot = current.slot
      /\ \A t \in Slots \ {current.slot} : slot[t].fiber # current.fiber
  BY TheCaller
<1>2. /\ running' = FALSE /\ fiber_yield("parked")
      /\ slot' = [slot EXCEPT ![current.slot] = Reset(current.slot)]
  BY <1>1 DEF Leave
<1>3. CallerOK' /\ PhaseOK'
  BY <1>2, YieldRests
<1>4. /\ fiber' \in [Fibers -> FiberType] /\ current' = NoCurrent
      /\ phase' \in {"load", "paint"}
      /\ \A g \in Fibers \ {current.fiber} : fiber'[g] = fiber[g]
  BY <1>2, YieldKeeps
<1>5. \A t \in Slots \ {current.slot} : slot[t].state # "unused" =>
          fiber'[slot[t].fiber] = fiber[slot[t].fiber]
  BY <1>1, <1>4 DEF ProgramsApart
<1>6. /\ slot' \in [Slots -> SlotType] /\ \A t \in Slots : Len(slot'[t].queue) < QueueLen
      /\ FreeSlots' /\ ProgramsApart' /\ OwnEventsOnly'
  BY <1>1, <1>2, <1>5, ResetKeeps
<1>7. TypeOK'
  <2>1. current' \in [fiber : Fibers \cup {0}, slot : Slots \cup {0}]
    BY <1>4 DEF NoCurrent
  <2>2. running' \in BOOLEAN
    BY <1>2, Zenon
  <2> QED
    BY <1>4, <1>6, <2>1, <2>2 DEF TypeOK
<1>8. Ordered'
  BY DEF Ordered
<1> QED
  BY <1>3, <1>6, <1>7, <1>8

(* A program exits.                                                        *)
LEMMA ExitHolds == ASSUME Inv, Exit PROVE Inv'
  BY LeaveHolds DEF Exit, InProgram

(* A fault ends the program, or stops the kernel.                          *)
LEMMA FaultHolds == ASSUME Inv, Fault PROVE Inv'
<1> USE DEF Inv
<1>1. /\ phase = "slice" /\ fiber[current.fiber].at = "code"
      /\ UNCHANGED <<win, owner, order, buttons, topmost, pos, loading>>
      /\ Leave \/ (phase' = "halted" /\ UNCHANGED <<fiber, current, running, slot>>)
  BY DEF Fault, InProgram
<1>2. CASE Leave
  BY <1>1, <1>2, LeaveHolds
<1>3. CASE phase' = "halted" /\ UNCHANGED <<fiber, current, running, slot>>
  <2>1. TypeOK' /\ PhaseOK' /\ OwnEventsOnly' /\ Ordered'
    BY <1>1, <1>3 DEF TypeOK, PhaseOK, OwnEventsOnly, Ordered
  <2>2. CallerOK' /\ FreeSlots' /\ ProgramsApart'
    BY <1>1, <1>3 DEF CallerOK, FreeSlots, ProgramsApart
  <2> QED
    BY <2>1, <2>2
<1> QED
  BY <1>1, <1>2, <1>3

(* No key, or the key that leaves the desktop                              *)
LEMMA NoKeyHolds == ASSUME Inv, NoKey \/ KeyQuit PROVE Inv'
<1> USE DEF Inv
<1>1. /\ UNCHANGED <<fiber, current, running, slot, win, owner, order, buttons, topmost,
                     pos, loading>>
      /\ phase = "key" /\ phase' \in {"click", "shell"}
  BY DEF NoKey, KeyQuit
<1>2. TypeOK' /\ PhaseOK' /\ OwnEventsOnly' /\ Ordered'
  BY <1>1 DEF TypeOK, PhaseOK, OwnEventsOnly, Ordered
<1>3. CallerOK' /\ FreeSlots' /\ ProgramsApart'
  BY <1>1, RestFrame DEF SameSlots, Resting
<1> QED
  BY <1>2, <1>3

(* A key for the program of the focused window                             *)
LEMMA KeyToProgramHolds == ASSUME Inv, KeyToProgram PROVE Inv'
<1> USE DEF Inv
<1>1. /\ UNCHANGED <<fiber, current, running, win, owner, order, buttons, topmost,
                     pos, loading>>
      /\ phase = "key" /\ phase' = "click" /\ slot' = Push(owner[topmost])
  BY DEF KeyToProgram
<1>2. /\ slot' \in [Slots -> SlotType] /\ \A t \in Slots : Len(slot'[t].queue) < QueueLen
      /\ SameSlots /\ OwnEventsOnly'
  BY <1>1, PushKeeps
<1>3. TypeOK' /\ PhaseOK' /\ Ordered'
  BY <1>1, <1>2 DEF TypeOK, PhaseOK, Ordered
<1>4. CallerOK' /\ FreeSlots' /\ ProgramsApart'
  BY <1>1, <1>2, RestFrame DEF Resting
<1> QED
  BY <1>2, <1>3, <1>4

(* The terminal's window is closed by exit.                                *)
LEMMA TerminalExitHolds == ASSUME Inv, TerminalExit PROVE Inv'
<1> USE DEF Inv
<1>1. /\ UNCHANGED <<fiber, current, running, slot, owner, order, buttons, topmost,
                     pos, loading>>
      /\ phase = "key" /\ phase' = "click" /\ topmost \in Windows
      /\ win' = [win EXCEPT ![topmost].used = FALSE]
  BY DEF TerminalExit, Focused
<1>2. win' \in [Windows -> WindowType]
  BY <1>1, WindowTyped
<1>3. \A v \in Windows : win'[v].used = TRUE => win[v].used = TRUE
  <2>1. win \in [Windows -> WindowType]
    BY DEF TypeOK
  <2>2. win'[topmost].used = FALSE /\ \A v \in Windows \ {topmost} : win'[v] = win[v]
    BY <1>1, <2>1 DEF WindowType
  <2> QED
    BY <2>2
<1>4. Ordered'
  BY <1>1, <1>2, <1>3 DEF Ordered, WindowType
<1>5. TypeOK' /\ PhaseOK' /\ OwnEventsOnly'
  BY <1>1, <1>2 DEF TypeOK, PhaseOK, OwnEventsOnly
<1>6. CallerOK' /\ FreeSlots' /\ ProgramsApart'
  BY <1>1, RestFrame DEF SameSlots, Resting
<1> QED
  BY <1>4, <1>5, <1>6

(* apploader_load resets a slot and gives up, at once or after the first   *)
(* slice of the program.                                                   *)
LEMMA GivesUpHolds ==
    ASSUME Inv, phase \in {"key", "load"}, phase' = "click", loading' = 0, NEW s \in Slots,
           slot' = slot \/ slot' = [slot EXCEPT ![s] = Reset(s)],
           UNCHANGED <<fiber, current, running, win, owner, order, buttons, topmost, pos>>
    PROVE  Inv'
<1> USE DEF Inv
<1>1. /\ slot' \in [Slots -> SlotType] /\ \A t \in Slots : Len(slot'[t].queue) < QueueLen
      /\ FreeSlots' /\ ProgramsApart' /\ OwnEventsOnly'
  <2>1. CASE slot' = slot
    BY <2>1 DEF TypeOK, FreeSlots, ProgramsApart, OwnEventsOnly
  <2>2. CASE slot' = [slot EXCEPT ![s] = Reset(s)]
    BY <2>2, ResetKeeps
  <2> QED
    BY <2>1, <2>2
<1>2. TypeOK' /\ PhaseOK' /\ Ordered'
  BY <1>1 DEF TypeOK, PhaseOK, Ordered
<1>3. CallerOK'
  BY DEF CallerOK
<1> QED
  BY <1>1, <1>2, <1>3

(* A program is not loaded.                                                *)
LEMMA LoadRefusedHolds == ASSUME Inv, LoadRefused PROVE Inv'
<1>1. loading = 0
  BY DEF LoadRefused, Inv, PhaseOK
<1> QED
  BY <1>1, GivesUpHolds DEF LoadRefused

(* A program has gone, or asked for no window, in its first slice.         *)
LEMMA LoadFailedHolds == ASSUME Inv, LoadFailed PROVE Inv'
<1>1. loading \in Slots
  BY DEF LoadFailed, Inv, PhaseOK
<1> QED
  BY <1>1, GivesUpHolds DEF LoadFailed

(* A program gets a slot and a fiber nothing else uses, and runs.          *)
LEMMA LoadStartHolds == ASSUME Inv, LoadStart PROVE Inv'
<1> USE DEF Inv
<1>1. /\ UNCHANGED <<running, win, owner, order, buttons, topmost, pos>> /\ phase = "key"
      /\ loading' \in Slots
  BY DEF LoadStart
<1> DEFINE new(f) == [EmptySlot EXCEPT !.state = "awaiting", !.fiber = f]
           table(f) == [fiber EXCEPT ![f] = [NoFiber EXCEPT !.state = "ready"]]
           s == loading'
<1>2. PICK f \in Fibers : /\ fiber[f].state = "unused" /\ slot[s].state = "unused"
                          /\ slot' = [slot EXCEPT ![s] = new(f)]
                          /\ fiber_resume(table(f), f, s, "load")
  BY DEF LoadStart, FirstUnusedFiber, FirstUnusedSlot, Reset
<1>3. /\ new(f).state = "awaiting" /\ new(f).fiber = f /\ Len(new(f).queue) = 0
      /\ new(f) \in SlotType
  <2>1. EmptySlot \in SlotType /\ EmptySlot.queue = <<>>
    BY DEF EmptySlot, SlotType
  <2>2. /\ new(f) \in SlotType /\ new(f).queue = EmptySlot.queue
        /\ new(f).state = "awaiting" /\ new(f).fiber = f
    BY <2>1 DEF SlotType
  <2> HIDE DEF new
  <2> QED
    BY <2>1, <2>2
<1>4. fiber \in [Fibers -> FiberType] /\ slot \in [Slots -> SlotType]
  BY DEF TypeOK
<1>5. table(f) \in [Fibers -> FiberType] /\ table(f)[f].state = "ready"
      /\ table(f)[f].at = "fresh" /\ \A g \in Fibers \ {f} : table(f)[g] = fiber[g]
  <2>1. NoFiber \in FiberType /\ [NoFiber EXCEPT !.state = "ready"] \in FiberType
        /\ [NoFiber EXCEPT !.state = "ready"].at = "fresh"
        /\ [NoFiber EXCEPT !.state = "ready"].state = "ready"
    BY DEF NoFiber, FiberType
  <2> QED
    BY <1>4, <2>1
<1> HIDE DEF new, table, s
<1>6. /\ slot' \in [Slots -> SlotType] /\ slot'[s] = new(f)
      /\ \A t \in Slots \ {s} : slot'[t] = slot[t]
  BY <1>1, <1>2, <1>3, <1>4 DEF s
<1>7. /\ fiber' \in [Fibers -> FiberType] /\ fiber'[f].state = "running"
      /\ fiber'[f].at = "fresh" /\ phase' = "slice"
      /\ current' = [fiber |-> f, slot |-> s]
      /\ \A g \in Fibers \ {f} : /\ fiber'[g].state = fiber[g].state
                                 /\ fiber'[g].at = fiber[g].at /\ fiber'[g].slot = fiber[g].slot
  BY <1>2, <1>5, ResumeKeeps
<1>8. \A t \in Slots : slot[t].fiber # f
  BY <1>2 DEF FreeSlots, ProgramsApart, Fibers
<1>9. s \in Slots /\ current'.fiber = f /\ current'.slot = s
  BY <1>1, <1>7 DEF s
<1>10. TypeOK'
  <2>1. current' \in [fiber : Fibers \cup {0}, slot : Slots \cup {0}]
    BY <1>7, <1>9
  <2>2. \A t \in Slots : Len(slot'[t].queue) < QueueLen
    BY <1>3, <1>6, AppsAssumption DEF TypeOK
  <2> QED
    BY <1>1, <1>6, <1>7, <2>1, <2>2 DEF TypeOK
<1>11. PhaseOK' /\ Ordered'
  <2>1. 0 \notin Slots
    BY DEF Slots
  <2> QED
    BY <1>1, <1>7, <2>1 DEF PhaseOK, Ordered
<1>12. CallerOK'
  <2>1. \A g \in Fibers : fiber[g].state # "running"
    BY <1>1 DEF CallerOK, NoCurrent, Fibers
  <2> QED
    BY <1>3, <1>6, <1>7, <1>9, <2>1 DEF CallerOK
<1>13. FreeSlots' /\ OwnEventsOnly'
  BY <1>3, <1>6, <1>9 DEF FreeSlots, OwnEventsOnly
<1>14. ProgramsApart'
  BY <1>3, <1>6, <1>7, <1>8, <1>9 DEF ProgramsApart
<1> QED
  BY <1>10, <1>11, <1>12, <1>13, <1>14

(* The program gets its window, which becomes the first of the order.      *)
LEMMA LoadDoneHolds == ASSUME Inv, LoadDone PROVE Inv'
<1> USE DEF Inv
<1>1. /\ UNCHANGED <<fiber, current, running, buttons, topmost, pos>>
      /\ phase = "load" /\ phase' \in {"click", "overrun"}
      /\ slot[loading].state # "unused" /\ loading' = 0
  BY DEF LoadDone
<1>2. loading \in Slots
  BY <1>1 DEF PhaseOK
<1>3. CASE UNCHANGED <<slot, win, owner, order>>
  <2>1. TypeOK' /\ PhaseOK' /\ OwnEventsOnly' /\ Ordered'
    BY <1>1, <1>3 DEF TypeOK, PhaseOK, OwnEventsOnly, Ordered
  <2>2. CallerOK' /\ FreeSlots' /\ ProgramsApart'
    BY <1>1, <1>3, RestFrame DEF SameSlots, Resting
  <2> QED
    BY <2>1, <2>2
<1>4. CASE ~UNCHANGED <<slot, win, owner, order>>
  <2>1. PICK w \in Windows :
          /\ RoomInOrder
          /\ win' = [win EXCEPT ![w] = NewWindow("loaded", slot[loading].fiber)]
          /\ order' = Raised(Append(order, w), w)
          /\ owner' = [owner EXCEPT ![w] = loading]
          /\ slot' = [slot EXCEPT ![loading].win = w, ![loading].state = "running"]
    BY <1>4 DEF LoadDone
  <2>2. /\ slot \in [Slots -> SlotType] /\ win \in [Windows -> WindowType]
        /\ owner \in [Windows -> Slots \cup {0}]
        /\ order \in Seq(Windows) /\ Len(order) <= MaxWindows /\ MaxWindows \in Nat
    BY AppsAssumption DEF TypeOK
  <2>3. slot[loading] \in SlotType /\ slot[loading].fiber \in Fibers \cup {0}
    BY <1>2, <2>2 DEF SlotType
  <2> DEFINE new == [slot[loading] EXCEPT !.win = w, !.state = "running"]
  <2>4. /\ new \in SlotType /\ new.state = "running" /\ new.fiber = slot[loading].fiber
        /\ new.queue = slot[loading].queue
    BY <2>3 DEF SlotType
  <2>5. slot' = [slot EXCEPT ![loading] = new]
    BY <1>2, <2>1, <2>2
  <2> HIDE DEF new
  <2>6. /\ slot' \in [Slots -> SlotType] /\ slot'[loading] = new
        /\ \A t \in Slots \ {loading} : slot'[t] = slot[t]
    BY <1>2, <2>2, <2>4, <2>5
  <2>7. win' \in [Windows -> WindowType] /\ \A v \in Windows \ {w} : win'[v] = win[v]
    <3>1. win' \in [Windows -> WindowType]
      BY <2>1, <2>3, WindowTyped
    <3> QED
      BY <2>1, <2>2, <3>1
  <2>8. /\ order' \in Seq(Windows) /\ Len(order') <= MaxWindows
        /\ Listed(order', w) /\ \A v : Listed(order, v) => Listed(order', v)
    <3>1. /\ Append(order, w) \in Seq(Windows) /\ Len(Append(order, w)) = Len(order) + 1
          /\ \A v : Listed(order, v) => Listed(Append(order, w), v)
          /\ Listed(Append(order, w), w)
      BY <2>2, AppendKeeps
    <3>2. /\ order' \in Seq(Windows) /\ Len(order') = Len(Append(order, w))
          /\ \A v : Listed(Append(order, w), v) => Listed(order', v)
      BY <2>1, <3>1, RaisedKeeps
    <3>3. Len(order') <= MaxWindows
      BY <2>1, <2>2, <3>1, <3>2 DEF RoomInOrder
    <3> QED
      BY <3>1, <3>2, <3>3
  <2>9. TypeOK'
    <3>1. \A t \in Slots : Len(slot'[t].queue) < QueueLen
      BY <2>4, <2>6 DEF TypeOK
    <3>2. owner' \in [Windows -> Slots \cup {0}]
      BY <1>2, <2>1, <2>2
    <3> QED
      BY <1>1, <2>6, <2>7, <2>8, <3>1, <3>2 DEF TypeOK
  <2>10. PhaseOK' /\ Ordered'
    BY <1>1, <2>7, <2>8 DEF PhaseOK, Ordered
  <2>11. OwnEventsOnly' /\ FreeSlots'
    BY <1>1, <1>2, <2>4, <2>6 DEF OwnEventsOnly, FreeSlots
  <2>12. CallerOK'
    BY <1>1 DEF CallerOK
  <2>13. ProgramsApart'
    BY <1>1, <1>2, <2>4, <2>6 DEF ProgramsApart
  <2> QED
    BY <2>9, <2>10, <2>11, <2>12, <2>13
<1> QED
  BY <1>3, <1>4

(* Whatever step the desktop or a program takes, the invariant survives.   *)
LEMMA StepHolds == ASSUME Inv, [Next]_vars PROVE Inv'
<1>1. CASE UNCHANGED vars
  BY <1>1 DEF vars, Inv, TypeOK, PhaseOK, CallerOK, FreeSlots, ProgramsApart, OwnEventsOnly, Ordered
<1>2. CASE StartGui
  BY <1>2, StartGuiHolds
<1>3. CASE Mouse
  BY <1>3, NoClickHolds, ClickSearchHolds, ClickTaskbarHolds, ClickWindowHolds, WheelHolds
     DEF Mouse
<1>4. CASE Paint
  BY <1>4, PaintPlainHolds, PaintGoneHolds, PaintAliveHolds, PaintDoneHolds DEF Paint
<1>5. CASE Program
  BY <1>5, StartHolds, PollHolds, YieldHolds, AskForWindowHolds, ExitHolds, FaultHolds
     DEF Program
<1>6. CASE Key
  BY <1>6, NoKeyHolds, KeySearchHolds, KeyToProgramHolds, TerminalExitHolds, LoadRefusedHolds,
     LoadStartHolds DEF Key
<1>7. CASE Load
  BY <1>7, LoadFailedHolds, LoadDoneHolds DEF Load
<1> QED
  BY <1>1, <1>2, <1>3, <1>4, <1>5, <1>6, <1>7 DEF Next, Desktop

(* The invariant holds in every state of every behaviour.                  *)
LEMMA AlwaysInv == Spec => []Inv
<1>1. Init => Inv
  BY InitHolds
<1>2. Inv /\ [Next]_vars => Inv'
  BY StepHolds
<1> QED
  BY <1>1, <1>2, PTL DEF Spec

-----------------------------------------------------------------------------
(* What follows *)

(* No two programs share a stack, and apploader_resume never continues a   *)
(* program that has exited or that belongs to another slot.                *)
THEOREM ProgramsHaveTheirOwnStack == Spec => []ProgramsApart
<1>1. Inv => ProgramsApart
  BY DEF Inv
<1> QED
  BY <1>1, AlwaysInv, PTL

(* A system call acts on the slot of the program that made it, and         *)
(* current_app_slot is cleared whenever no program runs.                   *)
THEOREM CallsReachTheCaller == Spec => []SyscallsLandInCaller
<1>1. ASSUME Inv PROVE SyscallsLandInCaller
  <2>1. {f \in Fibers : fiber[f].state = "running"} = {current.fiber} \ {0}
    <3>1. \A f \in Fibers : fiber[f].state = "running" <=> f = current.fiber
      BY <1>1 DEF Inv, CallerOK
    <3>2. current.fiber \in Fibers \cup {0} /\ 0 \notin Fibers
      BY <1>1 DEF Inv, TypeOK, Fibers
    <3> QED
      BY <3>1, <3>2
  <2>2. ASSUME phase \in {"slice", "halted"}
        PROVE  /\ current.slot \in Slots /\ slot[current.slot].fiber = current.fiber
               /\ InProgram => fiber[current.fiber].slot = current.slot
    BY <1>1, <2>2 DEF Inv, CallerOK, ProgramsApart, InProgram
  <2>3. phase \notin {"slice", "halted"} => current = [fiber |-> 0, slot |-> 0]
    BY <1>1 DEF Inv, CallerOK, NoCurrent
  <2> QED
    BY <2>1, <2>2, <2>3 DEF SyscallsLandInCaller
<1>2. Inv => SyscallsLandInCaller
  BY <1>1
<1> QED
  BY <1>2, AlwaysInv, PTL

(* A program polls only what was queued for it, never the events of an     *)
(* earlier program of its slot.                                            *)
THEOREM ProgramsPollTheirEvents == Spec => []OwnEventsOnly
<1>1. Inv => OwnEventsOnly
  BY DEF Inv
<1> QED
  BY <1>1, AlwaysInv, PTL

(* A window in use is never lost from window_order: it is there at least   *)
(* once, through raising, closing and launching.                           *)
THEOREM WindowsStayInOrder == Spec => []UsedIsOrdered
<1>1. Inv => UsedIsOrdered
  BY DEF Inv, Ordered, Listed, UsedIsOrdered
<1> QED
  BY <1>1, AlwaysInv, PTL
=============================================================================
