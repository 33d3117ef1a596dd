------------------------------ MODULE InputProofs ------------------------------
(***************************************************************************)
(* For every size of the ring, every width of the tick and any number of   *)
(* keys and turns of the wheel: what the interrupt handlers and the code   *)
(* they interrupt do to the ring, to the wheel and to a wait.              *)
(***************************************************************************)
EXTENDS Input, TLAPS

(* KeysOnceInOrder without the types, one statement per place a key can be *)
RingOK ==
    /\ read \subseteq 1 .. seen /\ dropped \subseteq 1 .. seen
    /\ \A p \in Filled : buf[p] \in 1 .. seen
    /\ \A k \in 1 .. seen : k \in read \/ k \in dropped \/ \E p \in Filled : buf[p] = k
    /\ \A k \in dropped : k \notin read
    /\ \A p \in Filled : buf[p] \notin dropped /\ \A k \in read : k < buf[p]
    /\ \A p, q \in Filled : Offset(p) < Offset(q) => buf[p] < buf[q]

(* What the interrupted code knows of the ring, by where it stands: only   *)
(* it moves the tail, and a handler's push never makes the ring empty.     *)
TakeOK ==
    /\ pc \in {"take", "advance"} => head # tail
    /\ pc = "advance" => c = buf[tail]
    /\ call.op = "frame" => pc \notin {"khlt", "kasleep"}
    /\ call.op = "frame" /\ pc = "ktest" => head # tail

(* delta is a copy of the wheel, which only grows until it is reset.       *)
WheelOK ==
    /\ pc = "clear" => delta <= wheel
    /\ pc # "clear" => delta = 0
    /\ scrolled + wheel <= rolled

(* A wait whose end did not wrap around counts its ticks exactly until it  *)
(* has had as many as it asked for.                                        *)
InWait == pc \in {"wtest", "whlt", "wasleep"}
WaitOK == InWait /\ ~EndWrapped /\ waited < call.n => tick = end - call.n + waited

Inv == TypeOK /\ RingOK /\ TakeOK /\ WheelOK /\ WaitOK

-----------------------------------------------------------------------------
(* Lemmas about the ring's places *)

(* Going round the ring *)
LEMMA RingPlaces ==
    ASSUME NEW p \in Places, NEW q \in Places
    PROVE  /\ After(p) = IF p = RingSize - 1 THEN 0 ELSE p + 1
           /\ After(p) \in Places
           /\ (p - q) % RingSize = IF q <= p THEN p - q ELSE p - q + RingSize
<1>1. RingSize \in Nat \ {0} /\ p \in 0 .. RingSize - 1 /\ q \in 0 .. RingSize - 1
  BY InputAssumption DEF Places
<1>2. CASE p = RingSize - 1
  BY <1>1, <1>2 DEF After, Places
<1>3. CASE p # RingSize - 1
  BY <1>1, <1>3 DEF After, Places
<1>4. (p - q) % RingSize = IF q <= p THEN p - q ELSE p - q + RingSize
  BY <1>1
<1> QED
  BY <1>2, <1>3, <1>4

(* A push fills the place at head, which was not filled, and no other.     *)
LEMMA PushFills ==
    ASSUME head \in Places, tail \in Places, HasRoom, head' = After(head), tail' = tail
    PROVE  /\ \A p \in Places : Offset(p)' = Offset(p)
           /\ head \notin Filled
           /\ Filled' = Filled \cup {head}
           /\ \A p \in Filled : Offset(p) < Offset(head)
           /\ head' \in Places /\ head' # tail
<1>1. RingSize \in Nat \ {0}
  BY InputAssumption
<1>2. \A p \in Places : Offset(p)' = Offset(p)
  BY DEF Offset
<1>3. head' \in Places /\ head' # tail /\ head' = IF head = RingSize - 1 THEN 0 ELSE head + 1
  BY RingPlaces DEF HasRoom
<1>4. \A p \in Places : Offset(p) = IF tail <= p THEN p - tail ELSE p - tail + RingSize
  BY RingPlaces DEF Offset
<1>5. Offset(head)' = Offset(head) + 1
  <2>1. Offset(head)' = (head' - tail) % RingSize
    BY DEF Offset
  <2>2. Offset(head)' = IF tail <= head' THEN head' - tail ELSE head' - tail + RingSize
    BY <2>1, <1>3, RingPlaces
  <2> QED
    BY <1>1, <1>3, <1>4, <2>2 DEF Places
<1>6. \A p, q \in Places : Offset(p) \in Nat /\ (Offset(p) = Offset(q) => p = q)
  BY <1>1, <1>4 DEF Places
<1>7. \A p \in Places : Offset(p) < Offset(head) + 1 <=> Offset(p) < Offset(head) \/ p = head
  BY <1>6
<1>8. Filled' = {p \in Places : Offset(p) < Offset(head) + 1}
  BY <1>2, <1>5 DEF Filled
<1>9. Filled' = Filled \cup {head}
  BY <1>7, <1>8 DEF Filled
<1>10. head \notin Filled /\ \A p \in Filled : Offset(p) < Offset(head)
  BY <1>6 DEF Filled
<1> QED
  BY <1>2, <1>3, <1>9, <1>10

(* Moving the tail empties the place it was at, the first of those filled. *)
LEMMA AdvanceEmpties ==
    ASSUME head \in Places, tail \in Places, head # tail, tail' = After(tail), head' = head
    PROVE  /\ tail \in Filled /\ tail' \in Places
           /\ Filled' = Filled \ {tail}
           /\ \A p \in Filled \ {tail} : Offset(tail) < Offset(p)
           /\ \A p, q \in Filled \ {tail} : Offset(p)' < Offset(q)' => Offset(p) < Offset(q)
<1>1. RingSize \in Nat \ {0}
  BY InputAssumption
<1>2. tail' \in Places /\ tail' = IF tail = RingSize - 1 THEN 0 ELSE tail + 1
  BY RingPlaces
<1>3. \A p \in Places : Offset(p) = IF tail <= p THEN p - tail ELSE p - tail + RingSize
  BY RingPlaces DEF Offset
<1>4. \A p \in Places : Offset(p)' = IF tail' <= p THEN p - tail' ELSE p - tail' + RingSize
  BY <1>2, RingPlaces DEF Offset
<1>5. \A p \in Places : Offset(p)' = IF p = tail THEN RingSize - 1 ELSE Offset(p) - 1
  BY <1>1, <1>2, <1>3, <1>4 DEF Places
<1>6. /\ Offset(tail) = 0
      /\ \A p \in Places \ {tail} : Offset(p) \in 1 .. RingSize - 1
  BY <1>1, <1>3 DEF Places
<1>7. \A p \in Places : Offset(p)' < Offset(head) - 1 <=> Offset(p) < Offset(head) /\ p # tail
  BY <1>1, <1>5, <1>6
<1>8. Filled' = {p \in Places : Offset(p)' < Offset(head) - 1}
  BY <1>5 DEF Filled
<1>9. Filled' = Filled \ {tail}
  BY <1>7, <1>8 DEF Filled
<1> QED
  BY <1>1, <1>2, <1>5, <1>6, <1>9 DEF Filled

(* tick counts modulo its width.                                           *)
LEMMA TickRange ==
    /\ TickMod \in Nat \ {0}
    /\ \A t \in Int : t % TickMod \in 0 .. TickMod - 1
    /\ \A t \in 0 .. TickMod - 1 : t % TickMod = t
  BY InputAssumption DEF TickMod

(* An interrupt ends a hlt and moves the interrupted code nowhere else.    *)
LEMMA AwakePlaces ==
    ASSUME NEW p
    PROVE  /\ Awake(p) = p \/ (p = "kasleep" /\ Awake(p) = "ktest")
                           \/ (p = "wasleep" /\ Awake(p) = "wtest")
           /\ AfterTick(p) = Awake(p)
  BY DEF Awake, AfterTick

-----------------------------------------------------------------------------
(* The invariant is inductive: the first state, then one lemma per action *)

(* The ring is empty, nothing is typed and nobody waits.                   *)
LEMMA InitHolds == ASSUME Init PROVE Inv
<1> USE DEF Init
<1>1. TypeOK
  <2>1. 0 \in Places /\ 0 \in 0 .. TickMod - 1 /\ 0 \in 0 .. MaxKeys /\ 0 \in 0 .. MaxRolls
    BY InputAssumption, TickRange DEF Places
  <2>2. buf \in [Places -> 0 .. MaxKeys]
    BY <2>1
  <2>3. call.op = "none" /\ call.n = 0 /\ due \in BOOLEAN
    BY Zenon DEF NoCall
  <2>4. seen \in 0 .. typed
    OBVIOUS
  <2> QED
    BY <2>1, <2>2, <2>3, <2>4 DEF TypeOK
<1>2. RingOK
  <2>1. Offset(head) = 0 /\ \A p \in Places : Offset(p) \in Nat
    <3>1. tail \in Places /\ head = tail /\ RingSize \in Nat \ {0}
      BY InputAssumption DEF Places
    <3> QED
      BY <3>1, RingPlaces DEF Offset, Places
  <2>2. Filled = {}
    BY <2>1 DEF Filled
  <2> QED
    BY <2>2 DEF RingOK
<1>3. TakeOK /\ WheelOK /\ WaitOK
  BY DEF TakeOK, WheelOK, WaitOK, InWait, NoCall
<1> QED
  BY <1>1, <1>2, <1>3 DEF Inv

(* What is said of the ring depends on the ring and the keys alone.        *)
LEMMA RingFrame ==
    ASSUME RingOK, buf' = buf, head' = head, tail' = tail, seen' = seen,
           read' = read, dropped' = dropped
    PROVE  RingOK'
  BY DEF RingOK, Filled, Offset

(* A tick                                                                  *)
LEMMA TimerHolds == ASSUME Inv, TimerIrq PROVE Inv'
<1> USE DEF Inv
<1>1. /\ UNCHANGED <<buf, head, tail, wheel, call, c, delta, end, scrolled, typed, seen,
                     dropped, read, rolled>>
      /\ due' = TRUE /\ tick' = (tick + 1) % TickMod
      /\ waited' = IF InWait /\ waited < call.n THEN waited + 1 ELSE waited
      /\ pc' = pc \/ (pc = "kasleep" /\ pc' = "ktest") \/ (pc = "wasleep" /\ pc' = "wtest")
  BY AwakePlaces DEF TimerIrq, ring, keys, InWait
<1>2. TypeOK'
  <2>1. tick' \in 0 .. TickMod - 1
    <3>1. tick + 1 \in Int
      BY DEF TypeOK
    <3> QED
      BY <1>1, <3>1, TickRange
  <2>2. waited' \in Nat
    BY <1>1 DEF TypeOK
  <2> QED
    BY <1>1, <2>1, <2>2 DEF TypeOK
<1>3. RingOK'
  BY <1>1, RingFrame
<1>4. TakeOK'
  BY <1>1 DEF TakeOK
<1>5. WheelOK'
  BY <1>1 DEF WheelOK
<1>6. WaitOK'
  <2>1. SUFFICES ASSUME InWait', end >= call.n, waited' < call.n
                 PROVE  tick' = end - call.n + waited'
    BY <1>1 DEF WaitOK, EndWrapped, TypeOK
  <2>2. InWait
    BY <1>1, <2>1 DEF InWait
  <2>3. waited < call.n /\ waited' = waited + 1
    BY <1>1, <2>1, <2>2 DEF TypeOK
  <2>4. tick = end - call.n + waited
    BY <2>1, <2>2, <2>3 DEF WaitOK, EndWrapped, TypeOK
  <2>5. tick + 1 \in 0 .. TickMod - 1
    <3>1. /\ end \in 0 .. TickMod - 1 /\ tick \in 0 .. TickMod - 1
          /\ call.n \in Nat /\ waited \in Nat
      BY DEF TypeOK
    <3> QED
      BY <2>3, <2>4, <3>1, TickRange
  <2>6. (tick + 1) % TickMod = tick + 1
    BY <2>5, TickRange
  <2> QED
    BY <1>1, <2>3, <2>4, <2>6 DEF TypeOK
<1> QED
  BY <1>2, <1>3, <1>4, <1>5, <1>6

(* The keyboard's handler: a key goes to the ring or is refused.           *)
LEMMA KeyHolds == ASSUME Inv, KeyIrq PROVE Inv'
<1> USE DEF Inv
<1>1. /\ UNCHANGED <<tick, due, tail, wheel, call, c, delta, end, scrolled, waited,
                     typed, read, rolled>>
      /\ seen < typed /\ seen' = seen + 1
      /\ pc' = pc \/ (pc = "kasleep" /\ pc' = "ktest") \/ (pc = "wasleep" /\ pc' = "wtest")
  BY AwakePlaces DEF KeyIrq
<1>2. seen + 1 \in 1 .. MaxKeys /\ seen' \in 0 .. typed' /\ seen \in Nat
  <2>1. typed \in 0 .. MaxKeys /\ seen \in 0 .. typed /\ MaxKeys \in Nat
    BY InputAssumption DEF TypeOK
  <2> QED
    BY <1>1, <2>1
<1>3. WheelOK' /\ WaitOK'
  BY <1>1 DEF WheelOK, WaitOK, InWait, EndWrapped
<1>4. CASE HasRoom
  <2>1. buf' = [buf EXCEPT ![head] = seen + 1] /\ head' = After(head) /\ dropped' = dropped
    BY <1>4 DEF KeyIrq
  <2>2. /\ \A p \in Places : Offset(p)' = Offset(p)
        /\ head \notin Filled
        /\ Filled' = Filled \cup {head}
        /\ \A p \in Filled : Offset(p) < Offset(head)
        /\ head' \in Places /\ head' # tail
    BY <1>1, <1>4, <2>1, PushFills DEF TypeOK
  <2>3. Filled \subseteq Places /\ \A p \in Places : Offset(p) \in Int
    BY InputAssumption DEF Filled, Offset, TypeOK, Places
  <2>4. /\ \A p \in Filled : buf'[p] = buf[p] /\ p \in Filled'
        /\ buf'[head] = seen + 1 /\ head \in Filled'
    BY <2>1, <2>2, <2>3 DEF TypeOK
  <2>5. TypeOK'
    BY <1>1, <1>2, <2>1, <2>2 DEF TypeOK
  <2>6. RingOK'
    <3>1. \A p \in Filled' : buf'[p] \in 1 .. seen'
      BY <1>1, <1>2, <2>2, <2>4 DEF RingOK
    <3>2. \A k \in 1 .. seen' :
             k \in read \/ k \in dropped \/ \E p \in Filled' : buf'[p] = k
      <4>1. ASSUME NEW k \in 1 .. seen'
            PROVE  k \in read \/ k \in dropped \/ \E p \in Filled' : buf'[p] = k
        <5>1. CASE k = seen + 1
          BY <2>4, <5>1
        <5>2. CASE k \in 1 .. seen
          BY <2>4, <5>2 DEF RingOK
        <5> QED
          BY <1>1, <1>2, <5>1, <5>2
      <4> QED
        BY <4>1
    <3>3. \A p \in Filled' : buf'[p] \notin dropped /\ \A k \in read : k < buf'[p]
      BY <1>2, <2>2, <2>4 DEF RingOK
    <3>4. ASSUME NEW p \in Filled', NEW q \in Filled', Offset(p)' < Offset(q)'
          PROVE  buf'[p] < buf'[q]
      <4>1. p \in Places /\ q \in Places /\ Offset(p) < Offset(q)
        BY <2>2, <2>3, <3>4 DEF TypeOK
      <4>2. CASE p = head
        BY <2>2, <2>3, <4>1, <4>2
      <4>3. CASE p \in Filled /\ q = head
        BY <1>2, <2>4, <4>3 DEF RingOK
      <4>4. CASE p \in Filled /\ q \in Filled
        BY <2>4, <4>1, <4>4 DEF RingOK
      <4> QED
        BY <2>2, <4>2, <4>3, <4>4
    <3>5. read' \subseteq 1 .. seen' /\ dropped' \subseteq 1 .. seen'
      BY <1>1, <1>2, <2>1 DEF RingOK
    <3>6. \A k \in dropped' : k \notin read'
      BY <1>1, <2>1 DEF RingOK
    <3> QED
      BY <1>1, <2>1, <3>1, <3>2, <3>3, <3>4, <3>5, <3>6 DEF RingOK
  <2>7. TakeOK'
    <3>1. pc = "advance" => tail # head
      BY DEF TakeOK
    <3>2. tail # head => buf'[tail] = buf[tail]
      BY <2>1 DEF TypeOK
    <3> QED
      BY <1>1, <2>2, <3>1, <3>2 DEF TakeOK
  <2> QED
    BY <1>3, <2>5, <2>6, <2>7
<1>5. CASE ~HasRoom
  <2>1. UNCHANGED <<buf, head>> /\ dropped' = dropped \cup {seen + 1}
    BY <1>5 DEF KeyIrq
  <2>2. Filled' = Filled /\ \A p : Offset(p)' = Offset(p)
    BY <1>1, <2>1 DEF Filled, Offset
  <2>3. TypeOK'
    BY <1>1, <1>2, <2>1 DEF TypeOK
  <2>4. RingOK'
    <3>1. seen + 1 \notin read /\ \A p \in Filled : buf[p] # seen + 1
      BY <1>2 DEF RingOK
    <3>2. \A k \in 1 .. seen' : k \in read \/ k \in dropped' \/ \E p \in Filled : buf[p] = k
      BY <1>1, <1>2, <2>1 DEF RingOK
    <3>3. /\ read \subseteq 1 .. seen' /\ dropped' \subseteq 1 .. seen'
          /\ \A p \in Filled : buf[p] \in 1 .. seen'
      BY <1>1, <1>2, <2>1 DEF RingOK
    <3> QED
      BY <1>1, <2>1, <2>2, <3>1, <3>2, <3>3 DEF RingOK
  <2>5. TakeOK'
    BY <1>1, <2>1 DEF TakeOK
  <2> QED
    BY <1>3, <2>3, <2>4, <2>5
<1> QED
  BY <1>4, <1>5

(* The user types, and the mouse's handler counts a turn of the wheel.     *)
LEMMA TypeKeyHolds == ASSUME Inv, TypeKey PROVE Inv'
<1> USE DEF Inv
<1>1. /\ UNCHANGED <<tick, due, buf, head, tail, wheel, pc, call, c, delta, end, scrolled,
                     waited, seen, dropped, read, rolled>>
      /\ typed < MaxKeys /\ typed' = typed + 1
  BY DEF TypeKey, ring, thread
<1>2. typed' \in 0 .. MaxKeys /\ seen' \in 0 .. typed'
  <2>1. typed \in 0 .. MaxKeys /\ seen \in 0 .. typed /\ MaxKeys \in Nat
    BY InputAssumption DEF TypeOK
  <2> QED
    BY <1>1, <2>1
<1>3. TypeOK'
  BY <1>1, <1>2 DEF TypeOK
<1>4. RingOK'
  BY <1>1, RingFrame
<1>5. TakeOK' /\ WheelOK' /\ WaitOK'
  BY <1>1 DEF TakeOK, WheelOK, WaitOK, InWait, EndWrapped
<1> QED
  BY <1>3, <1>4, <1>5

(* The wheel moves: what was not read yet is one more.                     *)
LEMMA MouseHolds == ASSUME Inv, MouseIrq PROVE Inv'
<1> USE DEF Inv
<1>1. /\ UNCHANGED <<tick, due, buf, head, tail, call, c, delta, end, scrolled, waited,
                     typed, seen, dropped, read>>
      /\ rolled < MaxRolls /\ rolled' = rolled + 1 /\ wheel' = wheel + 1
      /\ pc' = pc \/ (pc = "kasleep" /\ pc' = "ktest") \/ (pc = "wasleep" /\ pc' = "wtest")
  BY AwakePlaces DEF MouseIrq, ring, keys
<1>2. /\ rolled' \in 0 .. MaxRolls /\ wheel' \in 0 .. MaxRolls
      /\ scrolled' + wheel' <= rolled'
      /\ pc = "clear" => delta <= wheel'
  <2>1. /\ rolled \in 0 .. MaxRolls /\ wheel \in 0 .. MaxRolls /\ MaxRolls \in Nat
        /\ scrolled \in Nat /\ delta \in 0 .. MaxRolls
    BY InputAssumption DEF TypeOK
  <2>2. scrolled + wheel <= rolled /\ (pc = "clear" => delta <= wheel)
    BY DEF WheelOK
  <2> QED
    BY <1>1, <2>1, <2>2
<1>3. TypeOK'
  BY <1>1, <1>2 DEF TypeOK
<1>4. RingOK'
  BY <1>1, RingFrame
<1>5. TakeOK' /\ WaitOK'
  BY <1>1 DEF TakeOK, WaitOK, InWait, EndWrapped
<1>6. WheelOK'
  BY <1>1, <1>2 DEF WheelOK
<1> QED
  BY <1>3, <1>4, <1>5, <1>6

(* A caller begins.                                                        *)
LEMMA BeginHolds == ASSUME Inv, Begin PROVE Inv'
<1> USE DEF Inv
<1>1. /\ UNCHANGED <<tick, buf, head, tail, wheel, c, delta, end, scrolled, waited, typed,
                     seen, dropped, read, rolled>>
      /\ pc = "idle" /\ due' = FALSE
  BY DEF Begin, Step, ring, keys
<1>2. PICK op \in Calls, n \in Waits :
         /\ call' = [op |-> op, n |-> IF op = "frame" THEN 1
                                      ELSE IF op \in {"pause", "sleep"} THEN n ELSE 0]
         /\ pc' = CASE op = "frame" -> "wheel"
                    [] op \in {"pause", "sleep"} -> "wait"
                    [] op = "haskey" -> "poll"
                    [] op \in {"getline", "read"} -> "ktest"
  BY DEF Begin, Step
<1>3. op \in AllCalls /\ n \in Nat
  BY InputAssumption
<1>4. /\ call'.op = op /\ call'.op \in AllCalls /\ call'.n \in Nat
      /\ pc' \in {"wheel", "wait", "poll", "ktest"}
      /\ op = "frame" => pc' = "wheel"
  <2>1. call'.op = op /\ call'.n \in Nat
    BY <1>2, <1>3
  <2>2. pc' \in {"wheel", "wait", "poll", "ktest"} /\ (op = "frame" => pc' = "wheel")
    BY <1>2, <1>3 DEF AllCalls, Syscalls
  <2> QED
    BY <1>3, <2>1, <2>2
<1>5. TypeOK'
  BY <1>1, <1>4 DEF TypeOK
<1>6. RingOK'
  BY <1>1, RingFrame
<1>7. TakeOK' /\ WheelOK' /\ WaitOK'
  BY <1>1, <1>4 DEF TakeOK, WheelOK, WaitOK, InWait
<1> QED
  BY <1>5, <1>6, <1>7

(* mouse_get_wheel_delta, its two steps                                    *)
LEMMA WheelHolds == ASSUME Inv, ReadWheel \/ ClearWheel PROVE Inv'
<1> USE DEF Inv
<1>1. /\ UNCHANGED <<tick, buf, head, tail, call, c, end, waited, typed, seen,
                     dropped, read, rolled>>
      /\ due' = FALSE
      /\ \/ /\ pc = "wheel" /\ pc' = "clear" /\ delta' = wheel
            /\ wheel' = wheel /\ scrolled' = scrolled
         \/ /\ pc = "clear" /\ pc' = "wait" /\ wheel' = 0
            /\ scrolled' = scrolled + delta /\ delta' = 0
  BY DEF ReadWheel, ClearWheel, AfterReset, Step, ring, keys
<1>2. /\ wheel' \in 0 .. MaxRolls /\ delta' \in 0 .. MaxRolls /\ scrolled' \in Nat
      /\ scrolled' + wheel' <= rolled
      /\ pc' = "clear" => delta' <= wheel'
      /\ pc' # "clear" => delta' = 0
  <2>1. /\ rolled \in 0 .. MaxRolls /\ wheel \in 0 .. MaxRolls /\ MaxRolls \in Nat
        /\ scrolled \in Nat /\ delta \in 0 .. MaxRolls
    BY InputAssumption DEF TypeOK
  <2>2. scrolled + wheel <= rolled /\ (pc = "clear" => delta <= wheel)
    BY DEF WheelOK
  <2> QED
    BY <1>1, <2>1, <2>2
<1>3. TypeOK'
  BY <1>1, <1>2 DEF TypeOK
<1>4. RingOK'
  BY <1>1, RingFrame
<1>5. TakeOK' /\ WaitOK'
  BY <1>1 DEF TakeOK, WaitOK, InWait
<1>6. WheelOK'
  BY <1>1, <1>2 DEF WheelOK
<1> QED
  BY <1>3, <1>4, <1>5, <1>6

(* timer_wait begins: when the sum does not wrap around, end lies as many  *)
(* ticks ahead as were asked for.                                          *)
LEMMA SetEndHolds == ASSUME Inv, SetEnd PROVE Inv'
<1> USE DEF Inv
<1>1. /\ UNCHANGED <<tick, buf, head, tail, wheel, call, c, delta, scrolled, typed, seen,
                     dropped, read, rolled>>
      /\ pc = "wait" /\ pc' = "wtest" /\ due' = FALSE
      /\ end' = (tick + call.n) % TickMod /\ waited' = 0
  BY DEF SetEnd, EndOfWait, Step, ring, keys
<1>2. tick \in 0 .. TickMod - 1 /\ call.n \in Nat /\ TickMod \in Nat \ {0}
  BY TickRange DEF TypeOK
<1>3. end' \in 0 .. TickMod - 1
  <2>1. tick + call.n \in Int
    BY <1>2
  <2> QED
    BY <1>1, <2>1, TickRange
<1>4. end' >= call.n => tick = end' - call.n
  BY <1>1, <1>2
<1>5. TypeOK'
  BY <1>1, <1>3 DEF TypeOK
<1>6. RingOK'
  BY <1>1, RingFrame
<1>7. TakeOK' /\ WheelOK'
  BY <1>1 DEF TakeOK, WheelOK
<1>8. WaitOK'
  BY <1>1, <1>2, <1>3, <1>4 DEF WaitOK, EndWrapped
<1> QED
  BY <1>5, <1>6, <1>7, <1>8

(* timer_wait and the two ways of asking for a key: the steps that only    *)
(* look at the ring and the tick                                           *)
LEMMA TestsHold == ASSUME Inv, TestTick \/ PollKey \/ TestRing \/ Halt PROVE Inv'
<1> USE DEF Inv
<1>1. /\ UNCHANGED <<tick, buf, head, tail, wheel, c, delta, scrolled, waited, typed, seen,
                     dropped, read, rolled>>
      /\ due' = FALSE
      /\ call' = call \/ (pc' = "idle" /\ call' = NoCall)
      /\ end' = end \/ (pc = "wtest" /\ end' = 0 /\ pc' \in {"idle", "poll"})
      /\ \/ pc = "wtest" /\ pc' \in {"whlt", "poll", "idle"}
         \/ pc = "poll" /\ pc' = "idle"
         \/ pc = "poll" /\ pc' = "ktest" /\ head # tail
         \/ pc = "ktest" /\ pc' = IF head = tail THEN "khlt" ELSE "take"
         \/ pc = "khlt" /\ pc' = "kasleep"
         \/ pc = "whlt" /\ pc' = "wasleep"
  <2> USE DEF Step, Done, ring, keys
  <2>1. CASE TestTick
    BY <2>1 DEF TestTick
  <2>2. CASE PollKey
    BY <2>2 DEF PollKey, has_key
  <2>3. CASE TestRing
    BY <2>3 DEF TestRing
  <2>4. CASE Halt
    BY <2>4 DEF Halt
  <2> QED
    BY <2>1, <2>2, <2>3, <2>4
<1>2. end' \in 0 .. TickMod - 1
  <2>1. 0 \in 0 .. TickMod - 1
    BY TickRange
  <2> QED
    BY <1>1, <2>1 DEF TypeOK
<1>3. call'.op \in AllCalls \cup {"none"} /\ call'.n \in Nat /\ (call' # call => call'.op = "none")
  BY <1>1 DEF TypeOK, NoCall
<1>4. pc' \in {"idle", "whlt", "wasleep", "poll", "ktest", "khlt", "kasleep", "take"}
  BY <1>1
<1>5. TypeOK'
  BY <1>1, <1>2, <1>3, <1>4 DEF TypeOK
<1>6. RingOK'
  BY <1>1, RingFrame
<1>7. TakeOK'
  BY <1>1, <1>3 DEF TakeOK
<1>8. WheelOK'
  BY <1>1, <1>4 DEF WheelOK
<1>9. WaitOK'
  <2>1. pc' \in {"whlt", "wasleep"} => InWait /\ end' = end /\ call' = call
    BY <1>1 DEF InWait
  <2> QED
    BY <1>1, <1>4, <2>1 DEF WaitOK, InWait, EndWrapped
<1> QED
  BY <1>5, <1>6, <1>7, <1>8, <1>9

(* keyboard_getchar_blocking reads the key at the tail ...                 *)
LEMMA TakeHolds == ASSUME Inv, TakeKey PROVE Inv'
<1> USE DEF Inv
<1>1. /\ UNCHANGED <<tick, buf, head, tail, wheel, call, delta, end, scrolled, waited, typed,
                     seen, dropped, read, rolled>>
      /\ due' = FALSE /\ pc = "take" /\ pc' = "advance" /\ c' = buf[tail]
  BY DEF TakeKey, Step, ring, keys
<1>2. c' \in 0 .. MaxKeys
  BY <1>1 DEF TypeOK
<1>3. TypeOK'
  BY <1>1, <1>2 DEF TypeOK
<1>4. RingOK'
  BY <1>1, RingFrame
<1>5. TakeOK' /\ WheelOK' /\ WaitOK'
  BY <1>1 DEF TakeOK, WheelOK, WaitOK, InWait
<1> QED
  BY <1>3, <1>4, <1>5

(* ... and then moves the tail on: the key is handed out, the first of     *)
(* those that waited.                                                      *)
LEMMA AdvanceHolds == ASSUME Inv, Advance PROVE Inv'
<1> USE DEF Inv
<1>1. /\ UNCHANGED <<tick, buf, head, wheel, delta, end, scrolled, waited, typed,
                     seen, dropped, rolled>>
      /\ due' = FALSE /\ pc = "advance" /\ pc' = "idle" /\ call' = NoCall
      /\ tail' = After(tail) /\ read' = read \cup {c} /\ c' = 0
  BY DEF Advance, Done, Step
<1>2. head # tail /\ c = buf[tail]
  BY <1>1 DEF TakeOK
<1>3. /\ tail \in Filled /\ tail' \in Places
      /\ Filled' = Filled \ {tail}
      /\ \A p \in Filled \ {tail} : Offset(tail) < Offset(p)
      /\ \A p, q \in Filled \ {tail} : Offset(p)' < Offset(q)' => Offset(p) < Offset(q)
  BY <1>1, <1>2, AdvanceEmpties DEF TypeOK
<1>4. c \in 1 .. seen /\ c \notin dropped /\ \A p \in Filled \ {tail} : c < buf[p]
  BY <1>2, <1>3 DEF RingOK
<1>5. read' \subseteq 1 .. MaxKeys /\ 0 \in 0 .. MaxKeys
  <2>1. typed \in 0 .. MaxKeys /\ seen \in 0 .. typed /\ MaxKeys \in Nat
    BY InputAssumption DEF TypeOK
  <2>2. c \in 1 .. MaxKeys
    BY <1>4, <2>1
  <2> QED
    BY <1>1, <2>1, <2>2 DEF TypeOK
<1>6. TypeOK'
  BY <1>1, <1>3, <1>5 DEF TypeOK, NoCall
<1>7. RingOK'
  <2>1. \A k \in 1 .. seen : k \in read' \/ k \in dropped \/ \E p \in Filled' : buf[p] = k
    BY <1>1, <1>2, <1>3 DEF RingOK
  <2>2. \A p \in Filled' : buf[p] \in 1 .. seen /\ buf[p] \notin dropped
    BY <1>3 DEF RingOK
  <2>3. \A p \in Filled' : \A k \in read' : k < buf[p]
    BY <1>1, <1>3, <1>4 DEF RingOK
  <2>4. \A p, q \in Filled' : Offset(p)' < Offset(q)' => buf[p] < buf[q]
    BY <1>3 DEF RingOK
  <2>5. read' \subseteq 1 .. seen /\ \A k \in dropped : k \notin read'
    BY <1>1, <1>4 DEF RingOK
  <2> QED
    BY <1>1, <2>1, <2>2, <2>3, <2>4, <2>5 DEF RingOK
<1>8. TakeOK' /\ WheelOK' /\ WaitOK'
  BY <1>1 DEF TakeOK, WheelOK, WaitOK, InWait, NoCall
<1> QED
  BY <1>6, <1>7, <1>8

(* Every step of the code and of its handlers keeps the invariant.         *)
LEMMA StepHolds == ASSUME Inv, [Next]_vars PROVE Inv'
<1>1. CASE Next
  BY <1>1, BeginHolds, WheelHolds, SetEndHolds, TestsHold, TakeHolds, AdvanceHolds,
     TimerHolds, KeyHolds, MouseHolds, TypeKeyHolds DEF Next, Code, Irq
<1>2. CASE UNCHANGED vars
  <2>1. UNCHANGED <<tick, due, buf, head, tail, wheel, pc, call, c, delta, end, scrolled,
                    waited, typed, seen, dropped, read, rolled>>
    BY <1>2 DEF vars, ring, thread, keys
  <2>2. TypeOK'
    BY <2>1 DEF Inv, TypeOK
  <2>3. RingOK'
    BY <2>1, RingFrame DEF Inv
  <2>4. TakeOK' /\ WheelOK' /\ WaitOK'
    BY <2>1 DEF Inv, TakeOK, WheelOK, WaitOK, InWait, EndWrapped
  <2> QED
    BY <2>2, <2>3, <2>4 DEF Inv
<1> QED
  BY <1>1, <1>2

(* The invariant holds whenever and wherever interrupts come.              *)
LEMMA AlwaysInv == Spec => []Inv
<1>1. Init => Inv
  BY InitHolds
<1>2. Inv /\ [Next]_vars => Inv'
  BY StepHolds
<1> QED
  BY <1>1, <1>2, PTL DEF Spec

-----------------------------------------------------------------------------
(* What the runs check, for every instance *)

(* KeysOnceInOrder: no interleaving of keyboard_callback with              *)
(* keyboard_getchar_blocking loses, repeats or reorders a key, in a ring   *)
(* of any size; what a full ring refuses is all that is lost.              *)
THEOREM KeysNeitherLostNorRepeated == Spec => []KeysOnceInOrder
<1>1. Inv => KeysOnceInOrder
  <2>1. SUFFICES ASSUME Inv PROVE KeysOnceInOrder
    OBVIOUS
  <2> USE <2>1 DEF Inv
  <2>2. 1 .. seen = read \cup dropped \cup {buf[p] : p \in Filled}
    BY DEF RingOK
  <2>3. dropped \cap read = {}
    BY DEF RingOK
  <2>4. /\ \A p \in Filled : buf[p] \notin dropped /\ \A k \in read : k < buf[p]
        /\ \A p, q \in Filled : Offset(p) < Offset(q) => buf[p] < buf[q]
    BY DEF RingOK
  <2>5. pc = "advance" => tail \in Filled /\ c = buf[tail]
    <3>1. SUFFICES ASSUME head # tail PROVE tail \in Filled
      BY DEF TakeOK
    <3>2. tail \in Places /\ head \in Places /\ RingSize \in Nat \ {0}
      BY InputAssumption DEF TypeOK
    <3>3. Offset(tail) = 0 /\ Offset(head) > 0
      BY <3>1, <3>2, RingPlaces DEF Offset, Places
    <3> QED
      BY <3>2, <3>3 DEF Filled
  <2> QED
    BY <2>2, <2>3, <2>4, <2>5 DEF KeysOnceInOrder
<1> QED
  BY AlwaysInv, <1>1, PTL

(* FrameNeverBlocks: the desktop never sleeps in                           *)
(* keyboard_getchar_blocking, because nobody else takes the key it saw.    *)
THEOREM DesktopNeverBlocks == Spec => []FrameNeverBlocks
<1>1. Inv => FrameNeverBlocks
  BY DEF Inv, TakeOK, FrameNeverBlocks
<1> QED
  BY AlwaysInv, <1>1, PTL

(* WheelAtMostOnce: no turn of the wheel reaches the desktop twice.        *)
THEOREM WheelNotRepeated == Spec => []WheelAtMostOnce
<1>1. Inv => WheelAtMostOnce
  BY DEF Inv, WheelOK, WheelAtMostOnce
<1> QED
  BY AlwaysInv, <1>1, PTL

(* WaitsLongEnough, the half of WaitsKept that is a safety property: a     *)
(* wait does not return early unless its end wrapped around.               *)
THEOREM WaitsAreLongEnough == Spec => WaitsLongEnough
<1> DEFINE Enough ==
       pc = "wtest" /\ pc' \in {"idle", "poll"} => waited >= call.n \/ EndWrapped
<1>1. ASSUME Inv, [Next]_vars PROVE [Enough]_vars
  <2>1. SUFFICES ASSUME Next, pc = "wtest", pc' \in {"idle", "poll"}, ~EndWrapped
                 PROVE  waited >= call.n
    BY <1>1, Zenon
  <2>2. TestTick
    <3>1. \A p : pc = p /\ p = "wtest" => Awake(p) = "wtest" /\ AfterTick(p) = "wtest"
      BY AwakePlaces
    <3>2. ~TimerIrq /\ ~KeyIrq /\ ~MouseIrq
      BY <2>1, <3>1 DEF TimerIrq, KeyIrq, MouseIrq
    <3>3. ~TypeKey
      BY <2>1 DEF TypeKey, thread
    <3> QED
      BY <2>1, <3>2, <3>3 DEF Next, Code, Irq, Begin, ReadWheel, ClearWheel, SetEnd,
         PollKey, TestRing, Halt, TakeKey, Advance
  <2>3. ~(tick < end)
    BY <2>1, <2>2 DEF TestTick, Step
  <2>4. /\ tick \in Nat /\ end \in Nat /\ waited \in Nat /\ call.n \in Nat
        /\ waited < call.n => tick = end - call.n + waited
    BY <1>1, <2>1, TickRange DEF Inv, TypeOK, WaitOK, InWait
  <2> QED
    BY <2>3, <2>4
<1>2. Inv /\ [Next]_vars => [Enough]_vars
  BY <1>1
<1> QED
  BY AlwaysInv, <1>2, PTL DEF Spec, WaitsLongEnough
=============================================================================
