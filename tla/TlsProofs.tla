------------------------------- MODULE TlsProofs -------------------------------
(***************************************************************************)
(* For any servers and buffer sizes: an HTTPS response is what the server  *)
(* of this very connection sent after it had completed the same handshake, *)
(* in order and without a gap - although the static reassembly buffer of   *)
(* tls_recv_record may begin with the rest of earlier connections.  The    *)
(* second part is about the messages of that handshake: they are what this *)
(* server has said.  The third is about a server that keeps to the         *)
(* protocol: it gets its response through.                                 *)
(***************************************************************************)
EXTENDS Tls, SequenceTheorems, NaturalsInduction, WellFoundedInduction, TLAPS

(* (The provers take no literal for a STRING by themselves.)               *)
Text == STRING \cup {"handshake", "ccs", "alert", "data", "finished", "server", "client", "junk",
                     "client_hello", "client_key_exchange", "", "none"}
PartType == [msg : [conn : Nat, m : Text, arg : Text, size : Nat], last : BOOLEAN]
RecordType == [type : Text, enc : Nat, seq : Nat, parts : Seq(PartType), size : Nat]
TokenType == RecordType \X {"header", "payload"}

(* A record sealed with this connection's keys is on the way only once its *)
(* server has completed the handshake; one of an earlier connection has    *)
(* the keys of that connection.                                            *)
Sound(t) == t[1].enc <= conn /\ (t[1].enc = conn => server.done = TRUE)
TokensOK ==
    /\ conn \in Nat /\ stream \in Seq(TokenType) /\ wire \in Seq(TokenType)
    /\ server = [name |-> server.name, flight |-> server.flight, reply |-> server.reply,
                 done |-> server.done, transcript |-> server.transcript]
    /\ server.reply \in Seq(Nat)
    /\ conn # 0 => /\ \A i \in 1 .. Len(stream) : Sound(stream[i])
                   /\ \A i \in 1 .. Len(wire) : Sound(wire[i])
    /\ conn = 0 => stream = <<>> /\ wire = <<>> /\ pc = "idle"

(* The handshake up to where the client stands                             *)
ChecksOK ==
    /\ pc \in {"flight", "walk", "check"} => server.done = FALSE
    /\ pc \in {"ccs", "finished", "request", "body", "extract"} => Acceptable

(* Records are numbered from the Finished on, which is number 0.           *)
NumbersOK ==
    /\ resp \in Seq(RecordType) /\ readSeq \in Nat
    /\ pc \in {"flight", "walk", "check", "ccs", "finished"} => readSeq = 0 /\ resp = <<>>
    /\ pc = "request" => readSeq = 1 /\ resp = <<>>
    /\ pc = "body" /\ "skipped" \notin flaws => readSeq = Len(resp) + 1
    /\ \A i \in 1 .. Len(resp) :
          resp[i].enc = conn /\ ("skipped" \notin flaws => resp[i].seq = i)

Inv == TokensOK /\ ChecksOK /\ Completed /\ NumbersOK

-----------------------------------------------------------------------------
(* Lemmas about records and tokens *)

(* A record is sent as two tokens of it.                                   *)
LEMMA TokensOf ==
    ASSUME NEW recs \in Seq(RecordType)
    PROVE  /\ Tokens(recs) \in Seq(TokenType)
           /\ \A i \in 1 .. Len(Tokens(recs)) :
                 \E j \in 1 .. Len(recs) : Tokens(recs)[i][1] = recs[j]
<1> DEFINE n == Len(recs)
           half(i) == IF i % 2 = 1 THEN "header" ELSE "payload"
           tok(i) == <<recs[(i + 1) \div 2], half(i)>>
<1>1. n \in Nat /\ \A j \in 1 .. n : recs[j] \in RecordType
  OBVIOUS
<1>2. \A i \in 1 .. 2 * n : (i + 1) \div 2 \in 1 .. n
  BY <1>1
<1>3. \A i \in 1 .. 2 * n : tok(i) \in TokenType /\ tok(i)[1] = recs[(i + 1) \div 2]
  BY <1>1, <1>2 DEF TokenType
<1>4. Tokens(recs) = [i \in 1 .. 2 * n |-> tok(i)] /\ 2 * n \in Nat
  BY <1>1 DEF Tokens
<1> HIDE DEF tok
<1>5. Tokens(recs) \in Seq(TokenType) /\ Len(Tokens(recs)) = 2 * n
  BY <1>3, <1>4
<1>6. \A i \in 1 .. 2 * n : Tokens(recs)[i][1] = recs[(i + 1) \div 2]
  BY <1>3, <1>4
<1> QED
  BY <1>2, <1>5, <1>6

(* A server's flight is in the clear.                                      *)
LEMMA FlightInClear ==
    ASSUME NEW s \in Servers, NEW k \in Nat
    PROVE  FlightOf(s, k) \in Seq(RecordType) /\ \A j \in 1 .. Len(FlightOf(s, k)) : FlightOf(s, k)[j].enc = 0
<1> DEFINE n == Len(s.flight)
           P == [m : STRING, arg : STRING, size : Nat, last : BOOLEAN]
           parts(i) == [j \in DOMAIN s.flight[i].parts |->
                          LET p == s.flight[i].parts[j] IN
                          [msg |-> Msg(k, p.m, p.arg, p.size), last |-> p.last]]
           rec(i) == Clear(s.flight[i].type, parts(i))
<1>1. s.flight \in Seq([type : STRING, parts : Seq(P)])
  BY TlsAssumption DEF FlightType
<1> HIDE DEF P
<1>2. n \in Nat /\ DOMAIN s.flight = 1 .. n
      /\ \A i \in 1 .. n : s.flight[i].type \in STRING /\ s.flight[i].parts \in Seq(P)
  <2> DEFINE R == [type : STRING, parts : Seq(P)]
  <2>1. \A x \in R : x.type \in STRING /\ x.parts \in Seq(P)
    OBVIOUS
  <2>2. s.flight \in Seq(R)
    BY <1>1
  <2> HIDE DEF R
  <2> QED
    BY <2>1, <2>2
<1>3. ASSUME NEW i \in 1 .. n PROVE rec(i) \in RecordType /\ rec(i).enc = 0
  <2> DEFINE ps == s.flight[i].parts
  <2>1. ps \in Seq(P)
    BY <1>2
  <2>2. DOMAIN ps = 1 .. Len(ps) /\ Len(ps) \in Nat
    BY <2>1
  <2>3. ASSUME NEW j \in 1 .. Len(ps)
        PROVE  [msg |-> Msg(k, ps[j].m, ps[j].arg, ps[j].size), last |-> ps[j].last] \in PartType
    <3>1. ps[j] \in P
      BY <2>1, <2>3
    <3> QED
      BY <3>1 DEF P, PartType, Msg, Text
  <2>4. parts(i) \in Seq(PartType)
    BY <2>2, <2>3
  <2> HIDE DEF parts
  <2> QED
    BY <1>2, <2>4 DEF Clear, RecordType, Text
<1>4. FlightOf(s, k) = [i \in 1 .. n |-> rec(i)]
  BY <1>2 DEF FlightOf
<1> HIDE DEF rec
<1> QED
  BY <1>2, <1>3, <1>4

(* tls_stream_consume takes the record in front.                           *)
LEMMA ConsumeKeeps ==
    ASSUME Inv, Complete, Consume
    PROVE  /\ stream' \in Seq(TokenType)
           /\ \A i \in 1 .. Len(stream') : \E j \in 1 .. Len(stream) : stream'[i] = stream[j]
           /\ stream[1] \in TokenType /\ First \in RecordType
           /\ conn # 0 => Sound(stream[1])
<1>1. stream \in Seq(TokenType) /\ Len(stream) \in Nat /\ Len(stream) >= 2
  BY DEF Inv, TokensOK, Complete
<1>2. \A i \in 1 .. Len(stream) : stream[i] \in TokenType
  BY <1>1
<1>3. stream' = SubSeq(stream, 3, Len(stream))
  BY DEF Consume
<1>4. \A i \in 3 .. Len(stream) : stream[i] \in TokenType
  BY <1>1, <1>2
<1>5. /\ stream' \in Seq(TokenType)
      /\ Len(stream') = IF 3 <= Len(stream) THEN Len(stream) - 3 + 1 ELSE 0
      /\ \A i \in 1 .. Len(stream) - 3 + 1 : stream'[i] = stream[3 + i - 1]
  BY <1>1, <1>3, <1>4, SubSeqProperties
<1>6. \A i \in 1 .. Len(stream') : i + 2 \in 1 .. Len(stream) /\ stream'[i] = stream[i + 2]
  BY <1>1, <1>5
<1>7. stream[1] \in TokenType /\ First \in RecordType
  BY <1>1, <1>2 DEF First, TokenType
<1>8. conn # 0 => Sound(stream[1])
  <2>1. 1 \in 1 .. Len(stream)
    BY <1>1
  <2> QED
    BY <2>1 DEF Inv, TokensOK
<1> QED
  BY <1>5, <1>6, <1>7, <1>8

(* Taking a record leaves sound tokens.                                    *)
LEMMA TokensFrame ==
    ASSUME Inv, pc # "idle", UNCHANGED <<conn, server, wire>>,
           stream' = stream \/ (Complete /\ Consume)
    PROVE  TokensOK'
<1>1. conn # 0
  BY DEF Inv, TokensOK
<1>2. /\ stream' \in Seq(TokenType)
      /\ \A i \in 1 .. Len(stream') : \E j \in 1 .. Len(stream) : stream'[i] = stream[j]
  <2>1. CASE stream' = stream
    BY <2>1 DEF Inv, TokensOK
  <2>2. CASE Complete /\ Consume
    BY <2>2, ConsumeKeeps
  <2> QED
    BY <2>1, <2>2
<1>3. \A t : Sound(t)' = Sound(t)
  BY DEF Sound
<1>4. \A i \in 1 .. Len(stream') : Sound(stream'[i])
  BY <1>1, <1>2 DEF Inv, TokensOK
<1> QED
  BY <1>1, <1>2, <1>3, <1>4 DEF Inv, TokensOK, Sound

(* The call ends, or goes on to what it has got of the body.               *)
LEMMA EndHolds ==
    ASSUME Inv, TokensOK', pc # "idle", UNCHANGED <<conn, resp>>, readSeq' \in Nat,
           flaws \subseteq flaws',
           pc' = "idle" \/ (pc = "body" /\ pc' = "extract" /\ UNCHANGED <<got, transcript, server>>)
    PROVE  Inv'
<1>1. ChecksOK'
  BY DEF Inv, ChecksOK, Acceptable, NameIgnored
<1>2. Completed'
  BY DEF Inv, Completed, Acceptable, NameIgnored
<1>3. NumbersOK'
  BY DEF Inv, NumbersOK
<1> QED
  BY <1>1, <1>2, <1>3 DEF Inv

(* The flight is received and looked at.                                   *)
LEMMA FlightStepHolds ==
    ASSUME Inv, TokensOK', pc \in {"flight", "walk"}, pc' \in {"flight", "walk", "check"},
           UNCHANGED <<conn, readSeq, resp, server, flaws>>
    PROVE  Inv'
<1>1. ChecksOK' /\ Completed'
  BY DEF Inv, ChecksOK, Completed
<1>2. NumbersOK'
  BY DEF Inv, NumbersOK
<1> QED
  BY <1>1, <1>2 DEF Inv

-----------------------------------------------------------------------------
(* The invariant is inductive: the first state, then one lemma per action *)

(* No connection yet, and nothing in the buffer                            *)
LEMMA InitHolds == ASSUME Init PROVE Inv
<1> USE DEF Init
<1>1. TokensOK
  BY DEF TokensOK, NoServer
<1>2. ChecksOK /\ Completed /\ NumbersOK
  BY DEF ChecksOK, Completed, NumbersOK
<1> QED
  BY <1>1, <1>2 DEF Inv

(* A connection begins: what is left in the buffer has older keys.         *)
LEMMA OpenHolds ==
    ASSUME Inv, Open(conn + 1), server'.done = FALSE, pc' \in {"flight", "idle"},
           server' = [name |-> server'.name, flight |-> server'.flight, reply |-> server'.reply,
                      done |-> server'.done, transcript |-> server'.transcript],
           server'.reply \in Seq(Nat), wire' \in Seq(TokenType),
           \A i \in 1 .. Len(wire') : wire'[i][1].enc = 0
    PROVE  Inv'
<1>1. conn' = conn + 1 /\ readSeq' = 0 /\ resp' = <<>> /\ stream' = stream
  BY DEF Open
<1>2. conn \in Nat /\ conn' \in Nat /\ conn' # 0 /\ stream \in Seq(TokenType)
  BY <1>1 DEF Inv, TokensOK
<1>3. \A i \in 1 .. Len(stream) : stream[i][1].enc <= conn /\ stream[i][1].enc \in Nat
  <2>1. CASE conn = 0
    <3>1. Len(stream) = 0
      BY <2>1 DEF Inv, TokensOK
    <3> QED
      BY <3>1
  <2>2. CASE conn # 0
    <3>1. \A i \in 1 .. Len(stream) : Sound(stream[i]) /\ stream[i] \in TokenType
      BY <1>2, <2>2 DEF Inv, TokensOK
    <3>2. \A t \in TokenType : t[1].enc \in Nat
      BY DEF TokenType, RecordType
    <3> QED
      BY <3>1, <3>2 DEF Sound
  <2> QED
    BY <2>1, <2>2
<1>4. \A i \in 1 .. Len(stream') : stream'[i][1].enc <= conn' /\ stream'[i][1].enc # conn'
  BY <1>1, <1>2, <1>3
<1>5. \A i \in 1 .. Len(wire') : wire'[i][1].enc <= conn' /\ wire'[i][1].enc # conn'
  BY <1>2
<1>6. TokensOK'
  BY <1>1, <1>2, <1>4, <1>5 DEF TokensOK, Sound
<1>7. ChecksOK' /\ Completed'
  BY DEF ChecksOK, Completed
<1>8. NumbersOK'
  BY <1>1 DEF NumbersOK
<1> QED
  BY <1>6, <1>7, <1>8 DEF Inv

(* The ClientHello is sent, and the server answers.                        *)
LEMMA ConnectHolds == ASSUME Inv, Connect PROVE Inv'
<1>1. Open(conn + 1) /\ pc' = "flight"
  BY DEF Connect
<1>2. PICK s \in Servers :
          /\ wire' = Tokens(FlightOf(s, conn + 1))
          /\ server' = [name |-> s.name, flight |-> s.flight, reply |-> s.reply, done |-> FALSE,
                        transcript |-> <<Hello(conn + 1)>> \o SentMessages(conn + 1, s)]
  BY DEF Connect
<1>3. /\ server'.done = FALSE /\ server'.reply = s.reply
      /\ server' = [name |-> server'.name, flight |-> server'.flight, reply |-> server'.reply,
                    done |-> server'.done, transcript |-> server'.transcript]
  BY <1>2
<1>4. conn + 1 \in Nat /\ s.reply \in Seq(Nat)
  BY TlsAssumption DEF Inv, TokensOK
<1> DEFINE f == FlightOf(s, conn + 1)
<1>5. f \in Seq(RecordType) /\ \A j \in 1 .. Len(f) : f[j].enc = 0
  BY <1>4, FlightInClear
<1> HIDE DEF f
<1>6. /\ wire' \in Seq(TokenType)
      /\ \A i \in 1 .. Len(wire') : \E j \in 1 .. Len(f) : wire'[i][1] = f[j]
  <2>1. wire' = Tokens(f)
    BY <1>2 DEF f
  <2> QED
    BY <1>5, <2>1, TokensOf
<1>7. \A i \in 1 .. Len(wire') : wire'[i][1].enc = 0
  BY <1>5, <1>6
<1> QED
  BY <1>1, <1>3, <1>4, <1>6, <1>7, OpenHolds

(* There is no connection.                                                 *)
LEMMA ConnectFailsHolds == ASSUME Inv, ConnectFails PROVE Inv'
<1>1. Open(conn + 1) /\ pc' = "idle" /\ wire' = <<>> /\ server' = NoServer
  BY DEF ConnectFails, Fail
<1>2. /\ server'.done = FALSE /\ server'.reply \in Seq(Nat)
      /\ server' = [name |-> server'.name, flight |-> server'.flight, reply |-> server'.reply,
                    done |-> server'.done, transcript |-> server'.transcript]
  BY <1>1 DEF NoServer
<1>3. wire' \in Seq(TokenType) /\ Len(wire') = 0
  BY <1>1
<1>4. \A i \in 1 .. Len(wire') : wire'[i][1].enc = 0
  BY <1>3
<1> QED
  BY <1>1, <1>2, <1>3, <1>4, OpenHolds

(* A segment is appended to the buffer, or there is no room for it.        *)
LEMMA FillHolds == ASSUME Inv, Fill PROVE Inv'
<1>1. PICK n \in 1 .. SegMax :
          /\ n <= Len(wire) /\ wire' = SubSeq(wire, n + 1, Len(wire))
          /\ \/ Refused("full") /\ stream' = stream
             \/ stream' = stream \o SubSeq(wire, 1, n) /\ UNCHANGED <<pc, res, flaws>>
  BY DEF Fill
<1>2. /\ pc \in Receiving
      /\ UNCHANGED <<conn, flight, got, transcript, readSeq, resp, server, clean>>
  BY DEF Fill
<1>3. /\ pc # "idle" /\ conn # 0 /\ stream \in Seq(TokenType) /\ wire \in Seq(TokenType)
      /\ n \in Nat /\ n >= 1 /\ Len(wire) \in Nat /\ Len(stream) \in Nat /\ n <= Len(wire)
  BY <1>1, <1>2, TlsAssumption DEF Inv, TokensOK, Receiving
<1>4. \A i \in 1 .. Len(wire) : wire[i] \in TokenType /\ Sound(wire[i])
  BY <1>3 DEF Inv, TokensOK
<1>5. /\ wire' \in Seq(TokenType)
      /\ \A i \in 1 .. Len(wire') : \E j \in 1 .. Len(wire) : wire'[i] = wire[j]
  <2>1. \A i \in n + 1 .. Len(wire) : wire[i] \in TokenType
    BY <1>3, <1>4
  <2>2. /\ wire' \in Seq(TokenType)
        /\ Len(wire') = IF n + 1 <= Len(wire) THEN Len(wire) - (n + 1) + 1 ELSE 0
        /\ \A i \in 1 .. Len(wire) - (n + 1) + 1 : wire'[i] = wire[n + 1 + i - 1]
    BY <1>1, <1>3, <2>1, SubSeqProperties
  <2>3. \A i \in 1 .. Len(wire') : i + n \in 1 .. Len(wire) /\ wire'[i] = wire[i + n]
    BY <1>3, <2>2
  <2> QED
    BY <2>2, <2>3
<1>6. /\ stream' \in Seq(TokenType)
      /\ \A i \in 1 .. Len(stream') : \/ \E j \in 1 .. Len(stream) : stream'[i] = stream[j]
                                      \/ \E j \in 1 .. Len(wire) : stream'[i] = wire[j]
  <2>1. CASE stream' = stream
    BY <1>3, <2>1
  <2>2. CASE stream' = stream \o SubSeq(wire, 1, n)
    <3> DEFINE w == SubSeq(wire, 1, n)
    <3>1. \A i \in 1 .. n : wire[i] \in TokenType
      BY <1>3, <1>4
    <3>2. /\ w \in Seq(TokenType) /\ Len(w) = IF 1 <= n THEN n - 1 + 1 ELSE 0
          /\ \A i \in 1 .. n - 1 + 1 : w[i] = wire[1 + i - 1]
      BY <1>3, <3>1, SubSeqProperties
    <3>3. Len(w) = n /\ \A i \in 1 .. n : w[i] = wire[i]
      BY <1>3, <3>2
    <3> HIDE DEF w
    <3>4. /\ stream \o w \in Seq(TokenType) /\ Len(stream \o w) = Len(stream) + Len(w)
          /\ \A i \in 1 .. Len(stream) + Len(w) :
                (stream \o w)[i] = IF i <= Len(stream) THEN stream[i] ELSE w[i - Len(stream)]
      <4>1. stream \in Seq(TokenType) /\ w \in Seq(TokenType)
        BY <1>3, <3>2
      <4> QED
        BY <4>1, ConcatProperties
    <3>5. stream' = stream \o w
      BY <2>2 DEF w
    <3>6. ASSUME NEW i \in 1 .. Len(stream')
          PROVE  \/ \E j \in 1 .. Len(stream) : stream'[i] = stream[j]
                 \/ \E j \in 1 .. Len(wire) : stream'[i] = wire[j]
      <4>1. CASE i <= Len(stream)
        <5>1. i \in 1 .. Len(stream) /\ stream'[i] = stream[i]
          BY <1>3, <3>3, <3>4, <3>5, <4>1
        <5> QED
          BY <5>1
      <4>2. CASE ~(i <= Len(stream))
        <5>1. i - Len(stream) \in 1 .. n /\ stream'[i] = w[i - Len(stream)]
          BY <1>3, <3>3, <3>4, <3>5, <4>2
        <5>2. i - Len(stream) \in 1 .. Len(wire) /\ stream'[i] = wire[i - Len(stream)]
          BY <1>3, <3>3, <5>1
        <5> QED
          BY <5>2
      <4> QED
        BY <4>1, <4>2
    <3> QED
      BY <3>4, <3>5, <3>6
  <2> QED
    BY <1>1, <2>1, <2>2
<1>7. TokensOK'
  <2>1. \A i \in 1 .. Len(stream) : Sound(stream[i])
    BY <1>3 DEF Inv, TokensOK
  <2>2. (\A i \in 1 .. Len(stream') : Sound(stream'[i])) /\ (\A i \in 1 .. Len(wire') : Sound(wire'[i]))
    BY <1>4, <1>5, <1>6, <2>1
  <2> QED
    BY <1>2, <1>3, <1>5, <1>6, <2>2 DEF Inv, TokensOK, Sound
<1>8. readSeq' \in Nat
  BY <1>2 DEF Inv, NumbersOK
<1>9. CASE Refused("full")
  <2>1. flaws \subseteq flaws' /\ (pc' = "idle" \/ (pc = "body" /\ pc' = "extract"))
    BY <1>9 DEF Refused, Fail
  <2> QED
    BY <1>2, <1>3, <1>7, <1>8, <2>1, EndHolds
<1>10. CASE UNCHANGED <<pc, res, flaws>>
  <2>1. ChecksOK' /\ Completed'
    BY <1>2, <1>10 DEF Inv, ChecksOK, Completed, Acceptable, NameIgnored
  <2>2. NumbersOK'
    BY <1>2, <1>10 DEF Inv, NumbersOK
  <2> QED
    BY <1>7, <2>1, <2>2 DEF Inv
<1> QED
  BY <1>1, <1>9, <1>10

(* Nothing came before the deadline.                                       *)
LEMMA RecvTimeoutHolds == ASSUME Inv, RecvTimeout PROVE Inv'
<1>1. /\ pc \in Receiving
      /\ UNCHANGED <<conn, stream, flight, got, transcript, readSeq, resp, wire, server, clean>>
      /\ flaws \subseteq flaws' /\ (pc' = "idle" \/ (pc = "body" /\ pc' = "extract"))
  BY DEF RecvTimeout, Refused, Fail
<1>2. pc # "idle" /\ readSeq \in Nat
  BY <1>1 DEF Receiving, Inv, NumbersOK
<1>3. TokensOK'
  BY <1>1, <1>2, TokensFrame
<1> QED
  BY <1>1, <1>2, <1>3, EndHolds

(* A record of the flight                                                  *)
LEMMA RecvFlightHolds == ASSUME Inv, RecvFlight PROVE Inv'
<1>1. /\ pc = "flight" /\ Complete /\ Consume
      /\ UNCHANGED <<conn, got, transcript, readSeq, resp, wire, server, clean>>
      /\ \/ pc' = "idle" /\ flaws \subseteq flaws'
         \/ pc' \in {"flight", "walk"} /\ flaws' = flaws
  BY DEF RecvFlight, Fail
<1>2. TokensOK' /\ readSeq \in Nat
  BY <1>1, TokensFrame DEF Inv, NumbersOK
<1>3. CASE pc' = "idle"
  BY <1>1, <1>2, <1>3, EndHolds
<1>4. CASE pc' \in {"flight", "walk"} /\ flaws' = flaws
  BY <1>1, <1>2, <1>4, FlightStepHolds
<1> QED
  BY <1>1, <1>3, <1>4

(* A message of the flight, the end of it, or garbage                      *)
LEMMA WalkHolds == ASSUME Inv, WalkMessage \/ WalkEnds \/ WalkGarbage PROVE Inv'
<1>1. /\ pc = "walk" /\ pc' \in {"walk", "flight", "check", "idle"}
      /\ UNCHANGED <<conn, stream, readSeq, resp, wire, server, clean, flaws>>
  BY DEF WalkMessage, WalkEnds, WalkGarbage, Fail
<1>2. TokensOK' /\ readSeq \in Nat
  BY <1>1, TokensFrame DEF Inv, NumbersOK
<1>3. CASE pc' = "idle"
  BY <1>1, <1>2, <1>3, EndHolds
<1>4. CASE pc' \in {"flight", "walk", "check"}
  BY <1>1, <1>2, <1>4, FlightStepHolds
<1> QED
  BY <1>1, <1>3, <1>4

(* A record may hold no part of a message.                                 *)
LEMMA EmptyParts == <<>> \in Seq(PartType) OBVIOUS

(* Sound records are put on the wire.                                      *)
LEMMA WireGrows ==
    ASSUME Inv, pc # "idle", UNCHANGED <<conn, stream>>, NEW recs \in Seq(RecordType),
           wire' = wire \o Tokens(recs), server'.reply \in Seq(Nat),
           server' = [name |-> server'.name, flight |-> server'.flight, reply |-> server'.reply,
                      done |-> server'.done, transcript |-> server'.transcript],
           server.done = TRUE => server'.done = TRUE,
           \A j \in 1 .. Len(recs) : recs[j].enc <= conn /\ (recs[j].enc = conn => server'.done = TRUE)
    PROVE  TokensOK'
<1>1. conn # 0 /\ stream \in Seq(TokenType) /\ wire \in Seq(TokenType)
  BY DEF Inv, TokensOK
<1> DEFINE w == Tokens(recs)
<1>2. w \in Seq(TokenType) /\ \A i \in 1 .. Len(w) : \E j \in 1 .. Len(recs) : w[i][1] = recs[j]
  BY TokensOf
<1> HIDE DEF w
<1>3. /\ wire \o w \in Seq(TokenType) /\ Len(wire \o w) = Len(wire) + Len(w)
      /\ \A i \in 1 .. Len(wire) + Len(w) :
            (wire \o w)[i] = IF i <= Len(wire) THEN wire[i] ELSE w[i - Len(wire)]
  <2>1. wire \in Seq(TokenType) /\ w \in Seq(TokenType)
    BY <1>1, <1>2
  <2> QED
    BY <2>1, ConcatProperties
<1>4. wire' = wire \o w
  BY DEF w
<1> DEFINE Fine(t) == t[1].enc <= conn /\ (t[1].enc = conn => server'.done = TRUE)
<1>5. (\A i \in 1 .. Len(stream) : Fine(stream[i])) /\ (\A i \in 1 .. Len(wire) : Fine(wire[i]))
  BY <1>1 DEF Inv, TokensOK, Sound
<1>6. \A i \in 1 .. Len(w) : Fine(w[i])
  BY <1>2
<1> HIDE DEF Fine
<1>7. ASSUME NEW i \in 1 .. Len(wire') PROVE Fine(wire'[i])
  <2>1. Len(wire) \in Nat /\ Len(w) \in Nat /\ i \in 1 .. Len(wire) + Len(w)
    BY <1>1, <1>2, <1>3, <1>4
  <2>2. CASE i <= Len(wire)
    <3>1. i \in 1 .. Len(wire) /\ wire'[i] = wire[i]
      BY <1>3, <1>4, <2>1, <2>2
    <3> QED
      BY <1>5, <3>1
  <2>3. CASE ~(i <= Len(wire))
    <3>1. i - Len(wire) \in 1 .. Len(w) /\ wire'[i] = w[i - Len(wire)]
      BY <1>3, <1>4, <2>1, <2>3
    <3> QED
      BY <1>6, <3>1
  <2> QED
    BY <2>2, <2>3
<1>8. wire' \in Seq(TokenType)
  BY <1>3, <1>4
<1>9. /\ \A i \in 1 .. Len(stream') : stream'[i][1].enc <= conn' /\ (stream'[i][1].enc = conn' => server'.done = TRUE)
      /\ \A i \in 1 .. Len(wire') : wire'[i][1].enc <= conn' /\ (wire'[i][1].enc = conn' => server'.done = TRUE)
  BY <1>5, <1>7 DEF Fine
<1>10. conn' \in Nat /\ conn' # 0 /\ stream' \in Seq(TokenType)
  BY <1>1 DEF Inv, TokensOK
<1> QED
  BY <1>8, <1>9, <1>10 DEF TokensOK, Sound

(* The checks have passed: the server takes the client's Finished, or      *)
(* answers with an alert.                                                  *)
LEMMA SendFinishedHolds == ASSUME Inv, SendFinished PROVE Inv'
<1> DEFINE upTo == Extended(transcript, KeyExchange(conn))
           theirs == Append(server.transcript, KeyExchange(conn))
           part == [msg |-> Finished(conn, "server"), last |-> TRUE]
           yes == <<Clear("ccs", <<>>), Sealed(conn, 0, "handshake", <<part>>, 1)>>
           no == <<Clear("alert", <<>>)>>
           recs == IF upTo = theirs THEN yes ELSE no
<1>1. /\ pc = "check" /\ Acceptable /\ pc' = "ccs" /\ wire' = wire \o Tokens(recs)
      /\ server' = [server EXCEPT !.done = (upTo = theirs),
                                  !.transcript = Append(theirs, Finished(conn, "client"))]
      /\ UNCHANGED <<conn, stream, got, readSeq, resp, flaws>>
  BY DEF SendFinished
<1> HIDE DEF upTo, theirs
<1>2. server.done = FALSE /\ conn \in Nat /\ conn # 0
  BY <1>1 DEF Inv, TokensOK, ChecksOK
<1>3. /\ server'.reply \in Seq(Nat) /\ (upTo = theirs => server'.done = TRUE)
      /\ server' = [name |-> server'.name, flight |-> server'.flight, reply |-> server'.reply,
                    done |-> server'.done, transcript |-> server'.transcript]
  BY <1>1 DEF Inv, TokensOK
<1>4. part \in PartType
  <2>1. Finished(conn, "server") \in [conn : Nat, m : Text, arg : Text, size : Nat]
    BY <1>2 DEF Finished, Msg, Text
  <2>2. TRUE \in BOOLEAN
    OBVIOUS
  <2> QED
    BY <2>1, <2>2, Zenon DEF PartType
<1>5. yes \in Seq(RecordType) /\ Len(yes) = 2 /\ yes[1].enc = 0 /\ yes[2].enc = conn
  <2>1. <<part>> \in Seq(PartType)
    BY <1>4
  <2> HIDE DEF part
  <2>2. Sealed(conn, 0, "handshake", <<part>>, 1) \in RecordType /\ Clear("ccs", <<>>) \in RecordType
    BY <1>2, <2>1, EmptyParts DEF Sealed, Clear, RecordType, Text
  <2>3. Sealed(conn, 0, "handshake", <<part>>, 1).enc = conn /\ Clear("ccs", <<>>).enc = 0
    BY DEF Sealed, Clear
  <2> QED
    BY <2>2, <2>3
<1>6. no \in Seq(RecordType) /\ Len(no) = 1 /\ no[1].enc = 0
  <2>1. Clear("alert", <<>>) \in RecordType /\ Clear("alert", <<>>).enc = 0
    BY EmptyParts DEF Clear, RecordType, Text
  <2> QED
    BY <2>1
<1> HIDE DEF yes, no
<1>7. /\ recs \in Seq(RecordType)
      /\ \A j \in 1 .. Len(recs) : recs[j].enc <= conn /\ (recs[j].enc = conn => server'.done = TRUE)
  <2>1. CASE upTo = theirs
    <3>1. recs = yes
      BY <2>1
    <3> HIDE DEF recs
    <3>2. server'.done = TRUE
      BY <1>3, <2>1
    <3>3. recs \in Seq(RecordType) /\ Len(recs) = 2 /\ recs[1].enc = 0 /\ recs[2].enc = conn
      BY <1>5, <3>1
    <3>4. \A j \in 1 .. Len(recs) : recs[j].enc = 0 \/ recs[j].enc = conn
      BY <3>3
    <3> QED
      BY <1>2, <3>2, <3>3, <3>4
  <2>2. CASE upTo # theirs
    <3>1. recs = no
      BY <2>2
    <3> HIDE DEF recs
    <3>2. recs \in Seq(RecordType) /\ Len(recs) = 1 /\ recs[1].enc = 0
      BY <1>6, <3>1
    <3>3. \A j \in 1 .. Len(recs) : recs[j].enc = 0
      BY <3>2
    <3> QED
      BY <1>2, <3>2, <3>3
  <2> QED
    BY <2>1, <2>2
<1> HIDE DEF recs
<1>8. TokensOK'
  BY <1>1, <1>2, <1>3, <1>7, WireGrows
<1>9. ChecksOK' /\ Completed'
  BY <1>1 DEF ChecksOK, Completed, Acceptable, NameIgnored
<1>10. NumbersOK'
  BY <1>1 DEF Inv, NumbersOK
<1> QED
  BY <1>8, <1>9, <1>10 DEF Inv

(* The checks fail, or something cannot be sent.                           *)
LEMMA EarlyEndHolds == ASSUME Inv, CheckFails \/ SendFails PROVE Inv'
<1>1. /\ pc \in {"check", "request"} /\ pc' = "idle" /\ flaws \subseteq flaws'
      /\ UNCHANGED <<conn, stream, got, transcript, readSeq, resp, wire, server>>
  BY DEF CheckFails, SendFails, Fail
<1>2. TokensOK' /\ readSeq \in Nat
  BY <1>1, TokensFrame DEF Inv, NumbersOK
<1> QED
  BY <1>1, <1>2, EndHolds

(* The server's ChangeCipherSpec                                           *)
LEMMA RecvCcsHolds == ASSUME Inv, RecvCcs PROVE Inv'
<1>1. /\ pc = "ccs" /\ Complete /\ Consume /\ pc' \in {"finished", "idle"}
      /\ UNCHANGED <<conn, got, transcript, readSeq, resp, wire, server, flaws>>
  BY DEF RecvCcs, Fail
<1>2. TokensOK' /\ readSeq \in Nat
  BY <1>1, TokensFrame DEF Inv, NumbersOK
<1>3. CASE pc' = "idle"
  BY <1>1, <1>2, <1>3, EndHolds
<1>4. CASE pc' = "finished"
  <2>1. ChecksOK' /\ Completed'
    BY <1>1, <1>4 DEF Inv, ChecksOK, Completed, Acceptable, NameIgnored
  <2>2. NumbersOK'
    BY <1>1, <1>4 DEF Inv, NumbersOK
  <2> QED
    BY <1>2, <2>1, <2>2 DEF Inv
<1> QED
  BY <1>1, <1>3, <1>4

(* A Finished that verifies was sealed by the server of this connection,   *)
(* which had the client's Finished by then.                                *)
LEMMA RecvFinishedHolds == ASSUME Inv, RecvFinished PROVE Inv'
<1>1. /\ pc = "finished" /\ Complete /\ Consume /\ readSeq' = readSeq + 1
      /\ UNCHANGED <<conn, got, transcript, resp, wire, server, flaws>>
      /\ (Authentic /\ Verified /\ pc' = "request") \/ pc' = "idle"
  BY DEF RecvFinished, Fail
<1>2. TokensOK' /\ readSeq' \in Nat /\ conn # 0 /\ readSeq = 0 /\ resp = <<>>
  BY <1>1, TokensFrame DEF Inv, NumbersOK, TokensOK
<1>3. CASE pc' = "idle"
  BY <1>1, <1>2, <1>3, EndHolds
<1>4. CASE Authentic /\ Verified /\ pc' = "request"
  <2>1. Sound(stream[1])
    BY <1>1, <1>2, ConsumeKeeps
  <2>2. server.done = TRUE /\ transcript = server.transcript
    BY <1>4, <2>1 DEF Authentic, Verified, First, Sound
  <2>3. ChecksOK'
    BY <1>1, <1>4 DEF Inv, ChecksOK, Acceptable, NameIgnored
  <2>4. Completed'
    <3>1. Acceptable'
      BY <1>1 DEF Inv, ChecksOK, Acceptable, NameIgnored
    <3> QED
      BY <1>1, <2>2, <3>1 DEF Completed
  <2>5. NumbersOK'
    BY <1>1, <1>2, <1>4 DEF Inv, NumbersOK
  <2> QED
    BY <1>2, <2>3, <2>4, <2>5 DEF Inv
<1> QED
  BY <1>1, <1>3, <1>4

(* The request is sent and the server replies.                             *)
LEMMA SendRequestHolds == ASSUME Inv, SendRequest PROVE Inv'
<1> DEFINE n == Len(server.reply)
           data == [i \in DOMAIN server.reply |-> Sealed(conn, i, "data", <<>>, server.reply[i])]
           last == Sealed(conn, n + 1, "alert", <<>>, 1)
           recs == data \o <<last>>
<1>1. /\ pc = "request" /\ pc' = "body" /\ wire' = wire \o Tokens(recs)
      /\ UNCHANGED <<conn, stream, got, transcript, readSeq, resp, server, flaws>>
  BY DEF SendRequest
<1>2. conn \in Nat /\ server.reply \in Seq(Nat) /\ server.done = TRUE /\ n \in Nat
  BY <1>1 DEF Inv, TokensOK, Completed
<1>3. \A i \in 1 .. n : /\ Sealed(conn, i, "data", <<>>, server.reply[i]) \in RecordType
                        /\ Sealed(conn, i, "data", <<>>, server.reply[i]).enc = conn
  <2>1. \A i \in 1 .. n : server.reply[i] \in Nat
    BY <1>2
  <2> QED
    BY <1>2, <2>1, EmptyParts DEF Sealed, RecordType, Text
<1>4. data \in Seq(RecordType) /\ Len(data) = n /\ \A i \in 1 .. n : data[i].enc = conn
  <2>1. DOMAIN server.reply = 1 .. n
    BY <1>2
  <2> QED
    BY <1>2, <1>3, <2>1
<1>5. last \in RecordType /\ last.enc = conn
  BY <1>2, EmptyParts DEF Sealed, RecordType, Text
<1> HIDE DEF data, last
<1>6. <<last>> \in Seq(RecordType) /\ Len(<<last>>) = 1 /\ <<last>>[1] = last
  BY <1>5
<1>7. /\ recs \in Seq(RecordType) /\ Len(recs) = n + 1
      /\ \A i \in 1 .. n + 1 : recs[i] = IF i <= n THEN data[i] ELSE last
  <2>1. data \in Seq(RecordType) /\ <<last>> \in Seq(RecordType)
    BY <1>4, <1>6
  <2>2. /\ recs \in Seq(RecordType) /\ Len(recs) = Len(data) + Len(<<last>>)
        /\ \A i \in 1 .. Len(data) + Len(<<last>>) :
              recs[i] = IF i <= Len(data) THEN data[i] ELSE <<last>>[i - Len(data)]
    BY <2>1, ConcatProperties
  <2> HIDE DEF recs
  <2> QED
    BY <1>2, <1>4, <1>6, <2>2
<1> HIDE DEF recs
<1>8. \A j \in 1 .. Len(recs) : recs[j].enc = conn
  BY <1>2, <1>4, <1>5, <1>7
<1>9. TokensOK'
  <2>1. \A j \in 1 .. Len(recs) : recs[j].enc <= conn /\ (recs[j].enc = conn => server'.done = TRUE)
    BY <1>1, <1>2, <1>8
  <2>2. server' = [name |-> server'.name, flight |-> server'.flight, reply |-> server'.reply,
                   done |-> server'.done, transcript |-> server'.transcript]
    BY <1>1 DEF Inv, TokensOK
  <2> QED
    BY <1>1, <1>2, <1>7, <2>1, <2>2, WireGrows
<1>10. ChecksOK' /\ Completed'
  BY <1>1 DEF Inv, ChecksOK, Completed, Acceptable, NameIgnored
<1>11. NumbersOK'
  BY <1>1 DEF Inv, NumbersOK
<1> QED
  BY <1>9, <1>10, <1>11 DEF Inv

(* A record of the response has the next number, or ends the response.     *)
LEMMA RecvBodyHolds == ASSUME Inv, RecvBody PROVE Inv'
<1>1. /\ pc = "body" /\ Complete /\ Consume /\ readSeq' = readSeq + 1
      /\ UNCHANGED <<conn, got, transcript, wire, server>> /\ flaws \subseteq flaws'
      /\ \/ IsData /\ Room /\ pc' = "body" /\ resp' = Append(resp, First) /\ flaws' = flaws
         \/ IsData /\ pc' = "body" /\ resp' = resp /\ "skipped" \in flaws'
         \/ pc' = "extract" /\ resp' = resp
  BY DEF RecvBody, Room
<1>2. TokensOK' /\ readSeq' \in Nat /\ First \in RecordType /\ readSeq \in Nat /\ resp \in Seq(RecordType)
  BY <1>1, TokensFrame, ConsumeKeeps DEF Inv, NumbersOK
<1>3. CASE pc' = "extract" /\ resp' = resp
  BY <1>1, <1>2, <1>3, EndHolds
<1>4. ASSUME pc' = "body" PROVE ChecksOK' /\ Completed'
  BY <1>1, <1>4 DEF Inv, ChecksOK, Completed, Acceptable, NameIgnored
<1>5. CASE pc' = "body" /\ resp' = resp /\ "skipped" \in flaws'
  <2>1. NumbersOK'
    BY <1>1, <1>2, <1>5 DEF Inv, NumbersOK
  <2> QED
    BY <1>2, <1>4, <1>5, <2>1 DEF Inv
<1>6. CASE IsData /\ pc' = "body" /\ resp' = Append(resp, First) /\ flaws' = flaws
  <2>1. First.enc = conn /\ First.seq = readSeq
    BY <1>6 DEF IsData, Authentic
  <2>2. /\ resp' \in Seq(RecordType) /\ Len(resp') = Len(resp) + 1 /\ Len(resp) \in Nat
        /\ resp'[Len(resp) + 1] = First /\ \A i \in 1 .. Len(resp) : resp'[i] = resp[i]
    BY <1>2, <1>6, AppendProperties
  <2>3. /\ "skipped" \notin flaws => readSeq = Len(resp) + 1
        /\ \A i \in 1 .. Len(resp) : resp[i].enc = conn /\ ("skipped" \notin flaws => resp[i].seq = i)
    BY <1>1 DEF Inv, NumbersOK
  <2>4. ASSUME NEW i \in 1 .. Len(resp')
        PROVE  resp'[i].enc = conn /\ ("skipped" \notin flaws => resp'[i].seq = i)
    <3>1. CASE i = Len(resp) + 1
      BY <2>1, <2>2, <2>3, <3>1
    <3>2. CASE i # Len(resp) + 1
      <4>1. i \in 1 .. Len(resp)
        BY <2>2, <3>2
      <4> QED
        BY <2>2, <2>3, <4>1
    <3> QED
      BY <3>1, <3>2
  <2>5. NumbersOK'
    BY <1>1, <1>2, <1>6, <2>2, <2>3, <2>4 DEF NumbersOK
  <2> QED
    BY <1>2, <1>4, <1>6, <2>5 DEF Inv
<1> QED
  BY <1>1, <1>3, <1>5, <1>6

(* The body is extracted, and the call returns.                            *)
LEMMA ExtractHolds == ASSUME Inv, Extract PROVE Inv'
<1>1. /\ pc = "extract" /\ pc' = "idle" /\ flaws \subseteq flaws'
      /\ UNCHANGED <<conn, stream, got, transcript, readSeq, resp, wire, server>>
  BY DEF Extract
<1>2. TokensOK' /\ readSeq \in Nat
  BY <1>1, TokensFrame DEF Inv, NumbersOK
<1> QED
  BY <1>1, <1>2, EndHolds

-----------------------------------------------------------------------------
(* The theorems *)

(* Every step keeps the invariant.                                         *)
LEMMA StepHolds == ASSUME Inv, [Next]_vars PROVE Inv'
<1>1. CASE Next /\ ~Chatter
  <2>1. CASE Connect
    BY <2>1, ConnectHolds
  <2>2. CASE ConnectFails
    BY <2>2, ConnectFailsHolds
  <2>3. CASE Fill
    BY <2>3, FillHolds
  <2>4. CASE RecvTimeout
    BY <2>4, RecvTimeoutHolds
  <2>5. CASE RecvFlight
    BY <2>5, RecvFlightHolds
  <2>6. CASE WalkMessage \/ WalkEnds \/ WalkGarbage
    BY <2>6, WalkHolds
  <2>7. CASE SendFinished
    BY <2>7, SendFinishedHolds
  <2>8. CASE CheckFails \/ SendFails
    BY <2>8, EarlyEndHolds
  <2>9. CASE RecvCcs
    BY <2>9, RecvCcsHolds
  <2>10. CASE RecvFinished
    BY <2>10, RecvFinishedHolds
  <2>11. CASE SendRequest
    BY <2>11, SendRequestHolds
  <2>12. CASE RecvBody
    BY <2>12, RecvBodyHolds
  <2>13. CASE Extract
    BY <2>13, ExtractHolds
  <2> QED
    BY <1>1, <2>1, <2>2, <2>3, <2>4, <2>5, <2>6, <2>7, <2>8, <2>9, <2>10, <2>11, <2>12, <2>13
    DEF Next, Client, Step, Handshake
<1>2. CASE UNCHANGED session
  <2> USE <1>2 DEF session
  <2>1. TokensOK'
    BY DEF Inv, TokensOK, Sound
  <2>2. ChecksOK' /\ Completed'
    BY DEF Inv, ChecksOK, Completed, Acceptable, NameIgnored
  <2>3. NumbersOK'
    BY DEF Inv, NumbersOK
  <2> QED
    BY <2>1, <2>2, <2>3 DEF Inv
<1> QED
  BY <1>1, <1>2 DEF Chatter, vars

(* The invariant holds in every reachable state.                           *)
LEMMA AlwaysInv == Spec => []Inv
<1>1. Inv /\ [Next]_vars => Inv'
  BY StepHolds
<1> QED
  BY <1>1, InitHolds, PTL DEF Spec

(* The response that net_https_get takes its body from is made of records  *)
(* that the server sealed on this connection, each in its place, until one *)
(* was skipped for want of room in response[].                             *)
THEOREM ResponseFromThisConnection == Spec => []OwnResponse
<1>1. Inv => OwnResponse
  <2> SUFFICES ASSUME Inv PROVE OwnResponse
    OBVIOUS
  <2>1. DOMAIN resp = 1 .. Len(resp)
    BY DEF Inv, NumbersOK
  <2> QED
    BY <2>1 DEF Inv, NumbersOK, OwnResponse
<1> QED
  BY <1>1, AlwaysInv, PTL

(* tls_connect returns true only if the server of this very connection has *)
(* taken the client's Finished over the same transcript, and the name, the *)
(* suite and the signature have passed the checks - whatever records of    *)
(* earlier connections the static buffer began with.                       *)
THEOREM HandshakeCompletedByBoth == Spec => []Completed
<1>1. Inv => Completed
  BY DEF Inv
<1> QED
  BY <1>1, AlwaysInv, PTL

-----------------------------------------------------------------------------
(* Sums and flattened sequences: the recursive functions that define them  *)
(* exist, and what holds of every shorter one holds of a longer one, for   *)
(* want of a least counterexample.                                         *)

(* A set of numbers that is not empty has a least one.                     *)
LEMMA LeastNumber ==
    ASSUME NEW T, T \subseteq Nat, T # {} PROVE \E x \in T : \A y \in T : x <= y
<1> DEFINE R == OpToRel(<, Nat)
<1>1. IsWellFoundedOn(R, Nat)
  BY NatLessThanWellFounded, Zenon
<1>2. PICK x \in T : \A y \in T : ~(<<y, x>> \in R)
  <2> HIDE DEF R
  <2> QED
    BY <1>1, WFMin
<1>3. \A y \in T : ~(y < x)
  BY <1>2 DEF OpToRel
<1> QED
  BY <1>3

IsSum(s, k, f) == f = [i \in 0 .. k |-> IF i = 0 THEN 0 ELSE f[i - 1] + s[i]]
TheSum(s) == CHOOSE f : IsSum(s, Len(s), f)

(* There is a running sum of every length.                                 *)
LEMMA SumExists == ASSUME NEW s, NEW k \in Nat PROVE \E f : IsSum(s, k, f)
<1> DEFINE T == {n \in Nat : ~\E f : IsSum(s, n, f)}
<1>1. SUFFICES ASSUME T # {} PROVE FALSE
  OBVIOUS
<1>2. PICK n \in T : \A m \in T : n <= m
  BY <1>1, LeastNumber
<1>3. n # 0
  <2> DEFINE f == [i \in 0 .. 0 |-> 0]
  <2>1. \A i \in 0 .. 0 : i = 0
    OBVIOUS
  <2>2. IsSum(s, 0, f)
    BY <2>1 DEF IsSum
  <2> QED
    BY <2>2
<1>4. n - 1 \in Nat /\ ~(n <= n - 1)
  BY <1>2, <1>3
<1>5. PICK g : IsSum(s, n - 1, g)
  BY <1>2, <1>4
<1> DEFINE f == [i \in 0 .. n |-> IF i = n THEN g[n - 1] + s[n] ELSE g[i]]
<1>6. ASSUME NEW i \in 0 .. n PROVE f[i] = IF i = 0 THEN 0 ELSE f[i - 1] + s[i]
  <2>1. CASE i = 0
    <3>1. 0 \in 0 .. n - 1 /\ 0 # n
      BY <1>3, <1>4
    <3>2. g[0] = 0
      BY <1>5, <3>1 DEF IsSum
    <3> QED
      BY <2>1, <3>1, <3>2
  <2>2. CASE i # 0
    <3>1. i - 1 \in 0 .. n - 1 /\ i - 1 \in 0 .. n /\ i - 1 # n
      BY <1>4, <2>2
    <3>2. f[i - 1] = g[i - 1]
      BY <3>1
    <3>3. i # n => i \in 0 .. n - 1
      BY <1>4
    <3>4. i # n => g[i] = g[i - 1] + s[i]
      BY <1>5, <2>2, <3>3 DEF IsSum
    <3> QED
      BY <2>2, <3>2, <3>4
  <2> QED
    BY <2>1, <2>2
<1>7. IsSum(s, n, f)
  <2>1. f = [i \in 0 .. n |-> f[i]]
    OBVIOUS
  <2> HIDE DEF f
  <2> QED
    BY <1>6, <2>1 DEF IsSum
<1> QED
  BY <1>2, <1>7

(* Each sum follows from the one before.                                   *)
LEMMA SumRows ==
    ASSUME NEW s \in Seq(Nat)
    PROVE  /\ TotalOf(s) = TheSum(s)[Len(s)] /\ TheSum(s)[0] = 0
           /\ \A i \in 1 .. Len(s) : TheSum(s)[i] = TheSum(s)[i - 1] + s[i]
<1>1. Len(s) \in Nat
  OBVIOUS
<1>2. IsSum(s, Len(s), TheSum(s))
  BY <1>1, SumExists DEF TheSum
<1>3. TheSum(s)[0] = 0
  BY <1>1, <1>2 DEF IsSum
<1>4. \A i \in 1 .. Len(s) : TheSum(s)[i] = TheSum(s)[i - 1] + s[i]
  BY <1>1, <1>2 DEF IsSum
<1> QED
  BY <1>3, <1>4 DEF TotalOf, TheSum, IsSum

(* A running sum is a number.                                              *)
LEMMA SumType ==
    ASSUME NEW s \in Seq(Nat), NEW n \in 0 .. Len(s) PROVE TheSum(s)[n] \in Nat
<1> DEFINE T == {i \in 0 .. Len(s) : TheSum(s)[i] \notin Nat}
<1>1. SUFFICES ASSUME T # {} PROVE FALSE
  OBVIOUS
<1>2. PICK i \in T : \A j \in T : i <= j
  <2>1. T \subseteq Nat
    OBVIOUS
  <2> HIDE DEF T
  <2> QED
    BY <1>1, <2>1, LeastNumber
<1>3. i # 0 /\ Len(s) \in Nat
  BY <1>2, SumRows
<1>4. i \in 1 .. Len(s) /\ i - 1 \in 0 .. Len(s) /\ ~(i <= i - 1)
  BY <1>2, <1>3
<1>5. TheSum(s)[i - 1] \in Nat /\ s[i] \in Nat
  BY <1>2, <1>4
<1>6. TheSum(s)[i] = TheSum(s)[i - 1] + s[i]
  BY <1>4, SumRows
<1> QED
  BY <1>2, <1>5, <1>6

(* The sum of two sequences, one after the other, is that of both.         *)
LEMMA SumConcat ==
    ASSUME NEW s \in Seq(Nat), NEW t \in Seq(Nat)
    PROVE  /\ TotalOf(s) \in Nat /\ TotalOf(t) \in Nat
           /\ TotalOf(s \o t) = TotalOf(s) + TotalOf(t)
<1> DEFINE u == s \o t
           m == Len(s)
<1>1. /\ u \in Seq(Nat) /\ Len(u) = m + Len(t)
      /\ \A i \in 1 .. m + Len(t) : u[i] = IF i <= m THEN s[i] ELSE t[i - m]
  BY ConcatProperties
<1>2. m \in Nat /\ Len(t) \in Nat
  OBVIOUS
<1> HIDE DEF u, m
<1>3. \A i \in 0 .. m : TheSum(s)[i] \in Nat
  BY SumType DEF m
<1>4. \A j \in 0 .. Len(t) : TheSum(t)[j] \in Nat
  BY SumType
<1>5. /\ TheSum(u)[0] = 0 /\ TheSum(s)[0] = 0 /\ TheSum(t)[0] = 0
      /\ TotalOf(u) = TheSum(u)[m + Len(t)] /\ TotalOf(s) = TheSum(s)[m] /\ TotalOf(t) = TheSum(t)[Len(t)]
      /\ \A i \in 1 .. m + Len(t) : TheSum(u)[i] = TheSum(u)[i - 1] + u[i]
      /\ \A i \in 1 .. m : TheSum(s)[i] = TheSum(s)[i - 1] + s[i]
      /\ \A i \in 1 .. Len(t) : TheSum(t)[i] = TheSum(t)[i - 1] + t[i]
  BY <1>1, SumRows DEF m
<1> DEFINE want(i) == IF i <= m THEN TheSum(s)[i] ELSE TheSum(s)[m] + TheSum(t)[i - m]
           T == {i \in 0 .. m + Len(t) : TheSum(u)[i] # want(i)}
<1>6. ASSUME T # {} PROVE FALSE
  <2>1. PICK i \in T : \A j \in T : i <= j
    <3>1. T \subseteq Nat
      OBVIOUS
    <3> HIDE DEF T
    <3> QED
      BY <1>6, <3>1, LeastNumber
  <2>2. i # 0
    BY <1>2, <1>5, <2>1
  <2>3. i \in 1 .. m + Len(t) /\ i - 1 \in 0 .. m + Len(t) /\ ~(i <= i - 1)
    BY <1>2, <2>1, <2>2
  <2>4. TheSum(u)[i - 1] = want(i - 1)
    BY <2>1, <2>3
  <2>5. TheSum(u)[i] = TheSum(u)[i - 1] + u[i]
    BY <1>5, <2>3
  <2>6. CASE i <= m
    <3>1. i \in 1 .. m /\ i - 1 <= m
      BY <1>2, <2>3, <2>6
    <3>2. TheSum(u)[i] = TheSum(s)[i]
      BY <1>1, <1>5, <2>3, <2>4, <2>5, <2>6, <3>1
    <3> QED
      BY <2>1, <2>6, <3>2
  <2>7. CASE ~(i <= m)
    <3>1. i - m \in 1 .. Len(t) /\ (i - 1) - m = (i - m) - 1 /\ u[i] = t[i - m]
      BY <1>1, <1>2, <2>3, <2>7
    <3>2. TheSum(t)[i - m] = TheSum(t)[(i - m) - 1] + t[i - m]
      BY <1>5, <3>1
    <3>3. want(i - 1) = TheSum(s)[m] + TheSum(t)[(i - m) - 1]
      <4>1. CASE i - 1 <= m
        <5>1. i - 1 = m /\ (i - m) - 1 = 0
          BY <1>2, <2>3, <2>7, <4>1
        <5> QED
          BY <1>2, <1>3, <1>5, <5>1
      <4>2. CASE ~(i - 1 <= m)
        BY <3>1, <4>2
      <4> QED
        BY <4>1, <4>2
    <3>4. TheSum(s)[m] \in Nat /\ TheSum(t)[(i - m) - 1] \in Nat /\ t[i - m] \in Nat
      <4>1. m \in 0 .. m /\ (i - m) - 1 \in 0 .. Len(t)
        BY <1>2, <3>1
      <4>2. t[i - m] \in Nat
        BY <3>1
      <4> QED
        BY <1>3, <1>4, <4>1, <4>2
    <3>5. TheSum(u)[i] = TheSum(s)[m] + TheSum(t)[i - m]
      BY <2>4, <2>5, <3>1, <3>2, <3>3, <3>4
    <3> QED
      BY <2>1, <2>7, <3>5
  <2> QED
    BY <2>6, <2>7
<1>7. TheSum(u)[m + Len(t)] = want(m + Len(t))
  BY <1>2, <1>6
<1>8. want(m + Len(t)) = TheSum(s)[m] + TheSum(t)[Len(t)]
  <2>1. CASE Len(t) = 0
    BY <1>2, <1>3, <1>5, <2>1
  <2>2. CASE Len(t) # 0
    <3>1. ~(m + Len(t) <= m) /\ (m + Len(t)) - m = Len(t)
      BY <1>2, <2>2
    <3> QED
      BY <3>1
  <2> QED
    BY <2>1, <2>2
<1>9. TheSum(s)[m] \in Nat /\ TheSum(t)[Len(t)] \in Nat
  BY <1>2, <1>3, <1>4
<1> QED
  BY <1>5, <1>7, <1>8, <1>9 DEF u

(* The sum grows by what is appended; a rest sums up to no more; nothing   *)
(* is the sum of nothing.                                                  *)
LEMMA SumAppend ==
    ASSUME NEW s \in Seq(Nat), NEW x \in Nat
    PROVE  TotalOf(s) \in Nat /\ TotalOf(Append(s, x)) = TotalOf(s) + x /\ TotalOf(<<>>) = 0
<1>1. <<x>> \in Seq(Nat) /\ Len(<<x>>) = 1 /\ <<x>>[1] = x /\ Append(s, x) = s \o <<x>>
  OBVIOUS
<1>2. TotalOf(<<x>>) = TheSum(<<x>>)[1] /\ TheSum(<<x>>)[0] = 0 /\ TheSum(<<x>>)[1] = TheSum(<<x>>)[0] + x
  <2> DEFINE t == <<x>>
  <2>1. t \in Seq(Nat) /\ Len(t) = 1 /\ t[1] = x
    BY <1>1
  <2> HIDE DEF t
  <2>2. /\ TotalOf(t) = TheSum(t)[Len(t)] /\ TheSum(t)[0] = 0
        /\ \A i \in 1 .. Len(t) : TheSum(t)[i] = TheSum(t)[i - 1] + t[i]
    BY <2>1, SumRows
  <2>3. 1 \in 1 .. Len(t) /\ 1 - 1 = 0
    BY <2>1
  <2>4. TotalOf(t) = TheSum(t)[1] /\ TheSum(t)[0] = 0 /\ TheSum(t)[1] = TheSum(t)[0] + x
    BY <2>1, <2>2, <2>3
  <2> QED
    BY <2>4 DEF t
<1>3. TotalOf(s \o <<x>>) = TotalOf(s) + TotalOf(<<x>>) /\ TotalOf(s) \in Nat
  BY <1>1, SumConcat
<1>4. TotalOf(<<>>) = 0
  <2>1. <<>> \in Seq(Nat) /\ Len(<<>>) = 0
    OBVIOUS
  <2> QED
    BY <2>1, SumRows
<1> QED
  BY <1>1, <1>2, <1>3, <1>4

(* What is left when some have been taken from the front                   *)
LEMMA SumRest ==
    ASSUME NEW s \in Seq(Nat), NEW k \in 0 .. Len(s)
    PROVE  TotalOf(SubSeq(s, k + 1, Len(s))) <= TotalOf(s)
<1> DEFINE a == SubSeq(s, 1, k)
           b == SubSeq(s, k + 1, Len(s))
<1>1. Len(s) \in Nat /\ \A i \in 1 .. Len(s) : s[i] \in Nat
  OBVIOUS
<1>2. /\ a \in Seq(Nat) /\ Len(a) = k /\ \A i \in 1 .. k : a[i] = s[i]
  <2>1. \A i \in 1 .. k : s[i] \in Nat
    BY <1>1
  <2>2. /\ a \in Seq(Nat) /\ Len(a) = (IF 1 <= k THEN k - 1 + 1 ELSE 0)
        /\ \A i \in 1 .. k - 1 + 1 : a[i] = s[1 + i - 1]
    BY <1>1, <2>1, SubSeqProperties
  <2> HIDE DEF a
  <2> QED
    BY <1>1, <2>2
<1>3. b \in Seq(Nat) /\ Len(b) = Len(s) - k /\ \A i \in 1 .. Len(s) - k : b[i] = s[k + i]
  <2>1. \A i \in k + 1 .. Len(s) : s[i] \in Nat
    BY <1>1
  <2>2. /\ b \in Seq(Nat) /\ Len(b) = (IF k + 1 <= Len(s) THEN Len(s) - (k + 1) + 1 ELSE 0)
        /\ \A i \in 1 .. Len(s) - (k + 1) + 1 : b[i] = s[k + 1 + i - 1]
    BY <1>1, <2>1, SubSeqProperties
  <2> HIDE DEF b
  <2> QED
    BY <1>1, <2>2
<1> HIDE DEF a, b
<1>4. s = a \o b
  <2>1. /\ a \o b \in Seq(Nat) /\ Len(a \o b) = Len(a) + Len(b)
        /\ \A i \in 1 .. Len(a) + Len(b) : (a \o b)[i] = IF i <= Len(a) THEN a[i] ELSE b[i - Len(a)]
    BY <1>2, <1>3, ConcatProperties
  <2>2. Len(a \o b) = Len(s)
    BY <1>1, <1>2, <1>3, <2>1
  <2>3. ASSUME NEW i \in 1 .. Len(s) PROVE (a \o b)[i] = s[i]
    <3>1. CASE i <= k
      BY <1>1, <1>2, <1>3, <2>1, <3>1
    <3>2. CASE ~(i <= k)
      <4>1. i - k \in 1 .. Len(s) - k /\ k + (i - k) = i
        BY <1>1, <3>2
      <4>2. b[i - k] = s[i]
        BY <1>3, <4>1
      <4> QED
        BY <1>1, <1>2, <1>3, <2>1, <3>2, <4>2
    <3> QED
      BY <3>1, <3>2
  <2> QED
    BY <2>1, <2>2, <2>3, SeqEqual
<1>5. TotalOf(a) \in Nat /\ TotalOf(b) \in Nat /\ TotalOf(a \o b) = TotalOf(a) + TotalOf(b)
  BY <1>2, <1>3, SumConcat
<1>6. TotalOf(b) <= TotalOf(s)
  BY <1>4, <1>5
<1> QED
  BY <1>6 DEF b

IsFlat(s, k, f) == f = [i \in 1 .. k |-> IF i = 1 THEN s[i] ELSE f[i - 1] \o s[i]]
TheFlat(s) == CHOOSE f : IsFlat(s, Len(s), f)

(* Sequences can be put one after the other, however many there are.       *)
LEMMA FlatExists == ASSUME NEW s, NEW k \in Nat PROVE \E f : IsFlat(s, k, f)
<1> DEFINE T == {n \in Nat : ~\E f : IsFlat(s, n, f)}
<1>1. SUFFICES ASSUME T # {} PROVE FALSE
  OBVIOUS
<1>2. PICK n \in T : \A m \in T : n <= m
  BY <1>1, LeastNumber
<1>3. n # 0
  <2> DEFINE f == [i \in 1 .. 0 |-> <<>>]
  <2>1. \A i \in 1 .. 0 : FALSE
    OBVIOUS
  <2>2. IsFlat(s, 0, f)
    BY <2>1 DEF IsFlat
  <2> QED
    BY <2>2
<1>4. n - 1 \in Nat /\ ~(n <= n - 1)
  BY <1>2, <1>3
<1>5. PICK g : IsFlat(s, n - 1, g)
  BY <1>2, <1>4
<1> DEFINE f == [i \in 1 .. n |-> IF i = n THEN IF n = 1 THEN s[n] ELSE g[n - 1] \o s[n] ELSE g[i]]
<1>6. ASSUME NEW i \in 1 .. n PROVE f[i] = IF i = 1 THEN s[i] ELSE f[i - 1] \o s[i]
  <2>1. CASE i = n
    <3>1. i # 1 => f[i - 1] = g[i - 1]
      BY <1>4, <2>1
    <3> QED
      BY <2>1, <3>1
  <2>2. CASE i # n
    <3>1. i \in 1 .. n - 1 /\ f[i] = g[i]
      BY <1>4, <2>2
    <3>2. g[i] = IF i = 1 THEN s[i] ELSE g[i - 1] \o s[i]
      BY <1>5, <3>1 DEF IsFlat
    <3>3. i # 1 => f[i - 1] = g[i - 1]
      BY <1>4, <3>1
    <3> QED
      BY <3>1, <3>2, <3>3
  <2> QED
    BY <2>1, <2>2
<1>7. IsFlat(s, n, f)
  <2>1. f = [i \in 1 .. n |-> f[i]]
    OBVIOUS
  <2> HIDE DEF f
  <2> QED
    BY <1>6, <2>1 DEF IsFlat
<1> QED
  BY <1>2, <1>7

(* Every element of every sequence is in the flattened one, and no other.  *)
LEMMA Flattened ==
    ASSUME NEW S, NEW s \in Seq(Seq(S))
    PROVE  /\ FlattenSeq(s) \in Seq(S)
           /\ \A i \in 1 .. Len(s) : \A j \in 1 .. Len(s[i]) :
                 \E k \in 1 .. Len(FlattenSeq(s)) : FlattenSeq(s)[k] = s[i][j]
           /\ \A k \in 1 .. Len(FlattenSeq(s)) :
                 \E i \in 1 .. Len(s) : \E j \in 1 .. Len(s[i]) : FlattenSeq(s)[k] = s[i][j]
<1> DEFINE F == TheFlat(s)
           Within(n) == \A i \in 1 .. n : \A j \in 1 .. Len(s[i]) : \E k \in 1 .. Len(F[n]) : F[n][k] = s[i][j]
           Only(n) == \A k \in 1 .. Len(F[n]) : \E i \in 1 .. n : \E j \in 1 .. Len(s[i]) : F[n][k] = s[i][j]
           Good(n) == F[n] \in Seq(S) /\ Within(n) /\ Only(n)
           T == {n \in 1 .. Len(s) : ~Good(n)}
<1>1. Len(s) \in Nat /\ \A i \in 1 .. Len(s) : s[i] \in Seq(S)
  OBVIOUS
<1>2. IsFlat(s, Len(s), F)
  BY <1>1, FlatExists DEF TheFlat
<1> HIDE DEF F
<1>3. \A n \in 1 .. Len(s) : F[n] = IF n = 1 THEN s[n] ELSE F[n - 1] \o s[n]
  BY <1>2 DEF IsFlat
<1>4. ASSUME T # {} PROVE FALSE
  <2>1. PICK n \in T : \A m \in T : n <= m
    <3>1. T \subseteq Nat
      BY <1>1
    <3> HIDE DEF T
    <3> QED
      BY <1>4, <3>1, LeastNumber
  <2>2. n \in 1 .. Len(s) /\ s[n] \in Seq(S)
    BY <1>1, <2>1
  <2>3. CASE n = 1
    <3>1. F[1] = s[1] /\ s[1] \in Seq(S)
      BY <1>3, <2>2, <2>3
    <3>2. Good(1)
      BY <3>1
    <3> QED
      BY <2>1, <2>3, <3>2
  <2>4. CASE n # 1
    <3>1. n - 1 \in 1 .. Len(s) /\ ~(n <= n - 1)
      BY <1>1, <2>2, <2>4
    <3>2. Good(n - 1)
      BY <2>1, <3>1
    <3> DEFINE a == F[n - 1]
               b == s[n]
    <3>3. F[n] = a \o b /\ a \in Seq(S) /\ b \in Seq(S)
      BY <1>3, <2>2, <2>4, <3>2
    <3>4. Within(n - 1) /\ Only(n - 1)
      BY <3>2
    <3> HIDE DEF a, b
    <3>5. /\ F[n] \in Seq(S) /\ Len(F[n]) = Len(a) + Len(b) /\ Len(a) \in Nat /\ Len(b) \in Nat
          /\ \A k \in 1 .. Len(a) + Len(b) : F[n][k] = IF k <= Len(a) THEN a[k] ELSE b[k - Len(a)]
      BY <3>3, ConcatProperties
    <3>9. /\ \A k \in 1 .. Len(a) : k \in 1 .. Len(F[n]) /\ F[n][k] = a[k]
          /\ \A j \in 1 .. Len(b) : Len(a) + j \in 1 .. Len(F[n]) /\ F[n][Len(a) + j] = b[j]
      <4> DEFINE la == Len(a)
                 lb == Len(b)
                 c == F[n]
      <4>1. /\ Len(c) = la + lb /\ la \in Nat /\ lb \in Nat
            /\ \A k \in 1 .. la + lb : c[k] = IF k <= la THEN a[k] ELSE b[k - la]
        BY <3>5
      <4> HIDE DEF la, lb, c
      <4>2. \A k \in 1 .. la : k \in 1 .. la + lb /\ k <= la
        BY <4>1
      <4>3. \A j \in 1 .. lb : la + j \in 1 .. la + lb /\ ~(la + j <= la) /\ (la + j) - la = j
        BY <4>1
      <4>4. \A k \in 1 .. la : k \in 1 .. Len(c) /\ c[k] = a[k]
        BY <4>1, <4>2
      <4>5. \A j \in 1 .. lb : la + j \in 1 .. Len(c) /\ c[la + j] = b[j]
        BY <4>1, <4>3
      <4> QED
        BY <4>4, <4>5 DEF la, lb, c
    <3>6. ASSUME NEW i \in 1 .. n, NEW j \in 1 .. Len(s[i])
          PROVE  \E k \in 1 .. Len(F[n]) : F[n][k] = s[i][j]
      <4>1. CASE i = n
        <5>1. j \in 1 .. Len(b)
          BY <4>1 DEF b
        <5>2. Len(a) + j \in 1 .. Len(F[n]) /\ F[n][Len(a) + j] = b[j]
          BY <3>9, <5>1
        <5> QED
          BY <4>1, <5>2 DEF b
      <4>2. CASE i # n
        <5>1. i \in 1 .. n - 1
          BY <2>2, <4>2
        <5>2. PICK k \in 1 .. Len(a) : a[k] = s[i][j]
          BY <3>4, <5>1 DEF a
        <5>3. k \in 1 .. Len(F[n]) /\ F[n][k] = a[k]
          BY <3>9
        <5> QED
          BY <5>2, <5>3
      <4> QED
        BY <4>1, <4>2
    <3>7. ASSUME NEW k \in 1 .. Len(F[n])
          PROVE  \E i \in 1 .. n : \E j \in 1 .. Len(s[i]) : F[n][k] = s[i][j]
      <4>1. CASE k <= Len(a)
        <5>0. k \in 1 .. Len(a)
          BY <3>5, <4>1
        <5>1. k \in 1 .. Len(a) /\ F[n][k] = a[k]
          BY <3>9, <5>0
        <5>2. PICK i \in 1 .. n - 1 : \E j \in 1 .. Len(s[i]) : a[k] = s[i][j]
          BY <3>4, <5>1 DEF a
        <5>3. i \in 1 .. n
          BY <2>2
        <5> QED
          BY <5>1, <5>2, <5>3
      <4>2. CASE ~(k <= Len(a))
        <5>0. k - Len(a) \in 1 .. Len(b) /\ Len(a) + (k - Len(a)) = k
          BY <3>5, <4>2
        <5>1. k - Len(a) \in 1 .. Len(b) /\ F[n][k] = b[k - Len(a)]
          BY <3>9, <5>0
        <5>2. n \in 1 .. n
          BY <2>2
        <5> QED
          BY <5>1, <5>2 DEF b
      <4> QED
        BY <4>1, <4>2
    <3>8. Good(n)
      BY <3>5, <3>6, <3>7
    <3> QED
      BY <2>1, <3>8
  <2> QED
    BY <2>3, <2>4
<1>5. CASE Len(s) = 0
  <2>1. FlattenSeq(s) = s /\ s = <<>>
    BY <1>5 DEF FlattenSeq
  <2>2. FlattenSeq(s) = <<>>
    BY <2>1
  <2>3. FlattenSeq(s) \in Seq(S) /\ Len(FlattenSeq(s)) = 0
    BY <2>2
  <2> QED
    BY <1>5, <2>3
<1>6. CASE Len(s) # 0
  <2>1. FlattenSeq(s) = F[Len(s)]
    BY <1>6 DEF FlattenSeq, F, TheFlat, IsFlat
  <2>2. Good(Len(s))
    <3>1. Len(s) \in 1 .. Len(s)
      BY <1>1, <1>6
    <3>2. Len(s) \notin T
      BY <1>4
    <3> HIDE DEF Good
    <3> QED
      BY <3>1, <3>2
  <2> QED
    BY <2>1, <2>2
<1> QED
  BY <1>5, <1>6

-----------------------------------------------------------------------------
(* Sizes *)

MsgType == [conn : Nat, m : Text, arg : Text, size : Nat]

(* A message counts with its size, and so does a record.                   *)
LEMMA SizeGrows ==
    ASSUME NEW S, \A x \in S : x.size \in Nat, NEW s \in Seq(S), NEW m \in S
    PROVE  TotalSize(s) \in Nat /\ TotalSize(Append(s, m)) = TotalSize(s) + m.size /\ TotalSize(<<>>) = 0
<1> DEFINE sizes(q) == [i \in DOMAIN q |-> q[i].size]
           t == Append(s, m)
<1>1. m.size \in Nat /\ Len(s) \in Nat /\ \A i \in 1 .. Len(s) : s[i].size \in Nat
  OBVIOUS
<1>2. sizes(s) \in Seq(Nat) /\ Len(sizes(s)) = Len(s) /\ \A i \in 1 .. Len(s) : sizes(s)[i] = s[i].size
  BY <1>1
<1>3. t \in Seq(S) /\ Len(t) = Len(s) + 1 /\ t[Len(s) + 1] = m /\ \A i \in 1 .. Len(s) : t[i] = s[i]
  BY AppendProperties
<1> HIDE DEF t
<1>4. sizes(t) = Append(sizes(s), m.size)
  <2> DEFINE a == sizes(t)
             b == Append(sizes(s), m.size)
  <2>1. /\ b \in Seq(Nat) /\ Len(b) = Len(s) + 1 /\ b[Len(s) + 1] = m.size
        /\ \A i \in 1 .. Len(s) : b[i] = s[i].size
    <3> HIDE DEF sizes
    <3> QED
      BY <1>1, <1>2, AppendProperties
  <2> HIDE DEF b
  <2>2. DOMAIN t = 1 .. Len(s) + 1
    BY <1>3
  <2>3. a \in Seq(Nat) /\ Len(a) = Len(s) + 1 /\ \A i \in 1 .. Len(s) + 1 : a[i] = t[i].size
    <3>1. \A i \in 1 .. Len(s) + 1 : t[i].size \in Nat
      BY <1>1, <1>3
    <3> QED
      BY <1>1, <2>2, <3>1
  <2> HIDE DEF a
  <2>4. ASSUME NEW i \in 1 .. Len(s) + 1 PROVE a[i] = b[i]
    <3>1. CASE i = Len(s) + 1
      BY <1>3, <2>1, <2>3, <3>1
    <3>2. CASE i # Len(s) + 1
      <4>1. i \in 1 .. Len(s)
        BY <1>1, <3>2
      <4> QED
        BY <1>3, <2>1, <2>3, <4>1
    <3> QED
      BY <3>1, <3>2
  <2>5. a = b
    BY <2>1, <2>3, <2>4, SeqEqual
  <2> QED
    BY <2>5 DEF a, b
<1>5. sizes(<<>>) = <<>>
  OBVIOUS
<1>6. TotalOf(sizes(s)) \in Nat /\ TotalOf(Append(sizes(s), m.size)) = TotalOf(sizes(s)) + m.size /\ TotalOf(<<>>) = 0
  <2> HIDE DEF sizes
  <2> QED
    BY <1>1, <1>2, SumAppend
<1>7. TotalSize(s) = TotalOf(sizes(s)) /\ TotalSize(t) = TotalOf(sizes(t)) /\ TotalSize(<<>>) = TotalOf(sizes(<<>>))
  BY DEF TotalSize
<1> QED
  BY <1>4, <1>5, <1>6, <1>7 DEF t

(* Parts of messages are added to flight[], and taken from its front.      *)
LEMMA SizeOfParts ==
    ASSUME NEW s \in Seq(PartType), NEW t \in Seq(PartType), NEW k \in 0 .. Len(s)
    PROVE  /\ TotalParts(s) \in Nat /\ TotalParts(t) \in Nat
           /\ TotalParts(s \o t) = TotalParts(s) + TotalParts(t)
           /\ TotalParts(SubSeq(s, k + 1, Len(s))) <= TotalParts(s)
           /\ TotalParts(<<>>) = 0
<1> DEFINE sizes(q) == [i \in DOMAIN q |-> q[i].msg.size]
           u == s \o t
           r == SubSeq(s, k + 1, Len(s))
<1>0. \A p \in PartType : p.msg.size \in Nat
  BY DEF PartType
<1>1. ASSUME NEW q \in Seq(PartType)
      PROVE  /\ sizes(q) \in Seq(Nat) /\ Len(sizes(q)) = Len(q) /\ \A i \in 1 .. Len(q) : sizes(q)[i] = q[i].msg.size
             /\ TotalParts(q) = TotalOf(sizes(q)) /\ Len(q) \in Nat
  <2>1. \A i \in 1 .. Len(q) : q[i].msg.size \in Nat
    BY <1>0
  <2>2. DOMAIN q = 1 .. Len(q) /\ Len(q) \in Nat
    OBVIOUS
  <2> QED
    BY <2>1, <2>2 DEF TotalParts
<1>2. /\ u \in Seq(PartType) /\ Len(u) = Len(s) + Len(t)
      /\ \A i \in 1 .. Len(s) + Len(t) : u[i] = IF i <= Len(s) THEN s[i] ELSE t[i - Len(s)]
  BY ConcatProperties
<1>3. r \in Seq(PartType) /\ Len(r) = Len(s) - k /\ \A i \in 1 .. Len(s) - k : r[i] = s[k + i]
  <2>1. \A i \in k + 1 .. Len(s) : s[i] \in PartType
    OBVIOUS
  <2>2. /\ r \in Seq(PartType) /\ Len(r) = (IF k + 1 <= Len(s) THEN Len(s) - (k + 1) + 1 ELSE 0)
        /\ \A i \in 1 .. Len(s) - (k + 1) + 1 : r[i] = s[k + 1 + i - 1]
    BY <2>1, SubSeqProperties
  <2> HIDE DEF r
  <2> QED
    BY <2>2
<1> HIDE DEF u, r
<1>4. /\ sizes(s) \in Seq(Nat) /\ Len(sizes(s)) = Len(s) /\ (\A i \in 1 .. Len(s) : sizes(s)[i] = s[i].msg.size)
      /\ sizes(t) \in Seq(Nat) /\ Len(sizes(t)) = Len(t) /\ (\A i \in 1 .. Len(t) : sizes(t)[i] = t[i].msg.size)
      /\ sizes(u) \in Seq(Nat) /\ Len(sizes(u)) = Len(u) /\ (\A i \in 1 .. Len(u) : sizes(u)[i] = u[i].msg.size)
      /\ sizes(r) \in Seq(Nat) /\ Len(sizes(r)) = Len(r) /\ (\A i \in 1 .. Len(r) : sizes(r)[i] = r[i].msg.size)
      /\ Len(s) \in Nat /\ Len(t) \in Nat
  BY <1>1, <1>2, <1>3
<1>5. /\ TotalParts(s) = TotalOf(sizes(s)) /\ TotalParts(t) = TotalOf(sizes(t))
      /\ TotalParts(u) = TotalOf(sizes(u)) /\ TotalParts(r) = TotalOf(sizes(r))
  BY <1>1, <1>2, <1>3
<1> DEFINE a == sizes(s)
           b == sizes(t)
           c == sizes(u)
           d == sizes(r)
<1>6. /\ a \in Seq(Nat) /\ b \in Seq(Nat) /\ c \in Seq(Nat) /\ d \in Seq(Nat)
      /\ Len(a) = Len(s) /\ Len(b) = Len(t) /\ Len(c) = Len(s) + Len(t) /\ Len(d) = Len(s) - k
      /\ Len(s) \in Nat /\ Len(t) \in Nat
      /\ \A i \in 1 .. Len(s) : a[i] = s[i].msg.size
      /\ \A i \in 1 .. Len(t) : b[i] = t[i].msg.size
      /\ \A i \in 1 .. Len(s) + Len(t) : c[i] = u[i].msg.size
      /\ \A i \in 1 .. Len(s) - k : d[i] = s[k + i].msg.size
  BY <1>2, <1>3, <1>4
<1>11. /\ TotalParts(s) = TotalOf(a) /\ TotalParts(t) = TotalOf(b)
       /\ TotalParts(u) = TotalOf(c) /\ TotalParts(r) = TotalOf(d)
  BY <1>5
<1> HIDE DEF a, b, c, d, sizes
<1>7. c = a \o b
  <2> DEFINE e == a \o b
  <2>1. /\ e \in Seq(Nat) /\ Len(e) = Len(a) + Len(b)
        /\ \A i \in 1 .. Len(a) + Len(b) : e[i] = IF i <= Len(a) THEN a[i] ELSE b[i - Len(a)]
    <3>1. a \in Seq(Nat) /\ b \in Seq(Nat)
      BY <1>6
    <3> QED
      BY <3>1, ConcatProperties
  <2> HIDE DEF e
  <2>2. ASSUME NEW i \in 1 .. Len(s) + Len(t) PROVE c[i] = e[i]
    <3>1. c[i] = u[i].msg.size /\ u[i] = IF i <= Len(s) THEN s[i] ELSE t[i - Len(s)]
      BY <1>2, <1>6
    <3>2. e[i] = IF i <= Len(s) THEN a[i] ELSE b[i - Len(s)]
      BY <1>6, <2>1
    <3>3. CASE i <= Len(s)
      <4>1. i \in 1 .. Len(s)
        BY <1>6, <3>3
      <4> QED
        BY <1>6, <3>1, <3>2, <3>3, <4>1
    <3>4. CASE ~(i <= Len(s))
      <4>1. i - Len(s) \in 1 .. Len(t)
        BY <1>6, <3>4
      <4> QED
        BY <1>6, <3>1, <3>2, <3>4, <4>1
    <3> QED
      BY <3>3, <3>4
  <2>3. Len(e) = Len(c) /\ \A i \in 1 .. Len(c) : c[i] = e[i]
    BY <1>6, <2>1, <2>2
  <2>4. c = e
    BY <1>6, <2>1, <2>3, SeqEqual
  <2> QED
    BY <2>4 DEF e
<1>8. d = SubSeq(a, k + 1, Len(a))
  <2> DEFINE e == SubSeq(a, k + 1, Len(a))
  <2>1. k + 1 \in Int /\ Len(a) \in Int /\ \A i \in k + 1 .. Len(a) : a[i] \in Nat
    BY <1>6
  <2>2. /\ e \in Seq(Nat) /\ Len(e) = (IF k + 1 <= Len(a) THEN Len(a) - (k + 1) + 1 ELSE 0)
        /\ \A i \in 1 .. Len(a) - (k + 1) + 1 : e[i] = a[k + 1 + i - 1]
    BY <2>1, SubSeqProperties
  <2> HIDE DEF e
  <2>3. Len(e) = Len(s) - k /\ \A i \in 1 .. Len(s) - k : e[i] = a[k + i]
    BY <1>6, <2>2
  <2>4. \A i \in 1 .. Len(s) - k : k + i \in 1 .. Len(s)
    BY <1>6
  <2>5. Len(e) = Len(d) /\ \A i \in 1 .. Len(d) : d[i] = e[i]
    BY <1>6, <2>3, <2>4
  <2>6. d = e
    BY <1>6, <2>2, <2>5, SeqEqual
  <2> QED
    BY <2>6 DEF e
<1>12. k \in 0 .. Len(a)
  BY <1>6
<1>9. /\ TotalOf(a) \in Nat /\ TotalOf(b) \in Nat /\ TotalOf(c) = TotalOf(a) + TotalOf(b) /\ TotalOf(d) <= TotalOf(a)
  BY <1>6, <1>7, <1>8, <1>12, SumConcat, SumRest
<1>10. TotalParts(<<>>) = 0
  <2>1. sizes(<<>>) = <<>>
    BY DEF sizes
  <2>2. TotalParts(<<>>) = TotalOf(sizes(<<>>))
    BY DEF TotalParts, sizes
  <2>3. TotalOf(<<>>) = 0
    BY <1>6, SumAppend
  <2> QED
    BY <2>1, <2>2, <2>3
<1> QED
  BY <1>9, <1>10, <1>11 DEF u, r

(* transcript_append: the message is added, or left out for want of room.  *)
LEMMA TranscriptGrows ==
    ASSUME NEW s \in Seq(MsgType), NEW m \in MsgType, TotalSize(s) <= TranscriptMax
    PROVE  /\ Extended(s, m) \in Seq(MsgType) /\ TotalSize(Extended(s, m)) <= TranscriptMax
           /\ Extended(s, m) \in {s, Append(s, m)}
           /\ TotalSize(s) + m.size <= TranscriptMax => Extended(s, m) = Append(s, m)
<1>1. \A x \in MsgType : x.size \in Nat
  BY DEF MsgType
<1>2. TotalSize(s) \in Nat /\ TotalSize(Append(s, m)) = TotalSize(s) + m.size /\ m.size \in Nat
  BY <1>1, SizeGrows
<1>3. Append(s, m) \in Seq(MsgType) /\ TranscriptMax \in Nat
  BY TlsAssumption, AppendProperties
<1> QED
  BY <1>2, <1>3 DEF Extended

(* The ClientHello is the first message, and its size is one.              *)
LEMMA HelloFirst ==
    ASSUME NEW k \in Nat
    PROVE  /\ Extended(<<>>, Hello(k)) \in Seq(MsgType) /\ Hello(k) \in MsgType
           /\ TotalSize(Extended(<<>>, Hello(k))) <= TranscriptMax
           /\ TotalSize(Extended(<<>>, Hello(k))) <= 1
           /\ \A i \in 1 .. Len(Extended(<<>>, Hello(k))) : Extended(<<>>, Hello(k))[i] = Hello(k)
<1>1. Hello(k) \in MsgType /\ Hello(k).size = 1
  BY DEF Hello, Msg, MsgType, Text
<1>2. \A x \in MsgType : x.size \in Nat
  BY DEF MsgType
<1>3. <<>> \in Seq(MsgType) /\ TranscriptMax \in Nat
  BY TlsAssumption
<1>4. TotalSize(Append(<<>>, Hello(k))) = TotalSize(<<>>) + Hello(k).size /\ TotalSize(<<>>) = 0
  BY <1>1, <1>2, <1>3, SizeGrows
<1>5. TotalSize(<<>>) <= TranscriptMax /\ TotalSize(<<>>) <= 1 /\ TotalSize(Append(<<>>, Hello(k))) <= 1
  BY <1>1, <1>3, <1>4
<1>6. Extended(<<>>, Hello(k)) \in {<<>>, Append(<<>>, Hello(k))}
  BY <1>1, <1>3, <1>5, TranscriptGrows
<1>7. /\ Extended(<<>>, Hello(k)) \in Seq(MsgType)
      /\ TotalSize(Extended(<<>>, Hello(k))) <= TranscriptMax
  BY <1>1, <1>3, <1>5, TranscriptGrows
<1>8. \A s \in {<<>>, Append(<<>>, Hello(k))} : \A i \in 1 .. Len(s) : s[i] = Hello(k)
  <2>1. Append(<<>>, Hello(k)) = <<Hello(k)>>
    OBVIOUS
  <2> QED
    BY <2>1
<1> HIDE DEF TotalSize
<1>9. TotalSize(Extended(<<>>, Hello(k))) <= 1
  BY <1>5, <1>6
<1> QED
  BY <1>1, <1>6, <1>7, <1>8, <1>9

-----------------------------------------------------------------------------
(* What a server says *)

(* The messages of the server's flight are of its connection, and its own  *)
(* transcript has each of them.                                            *)
Speaks(k, flightSent, sent) ==
    \A i \in 1 .. Len(flightSent) : \A j \in 1 .. Len(flightSent[i].parts) :
        /\ flightSent[i].parts[j].msg.conn = k /\ flightSent[i].parts[j].msg.size < TranscriptMax
        /\ flightSent[i].parts[j].last = TRUE =>
              \E n \in 1 .. Len(sent) : sent[n] = flightSent[i].parts[j].msg

(* Every server speaks so.                                                 *)
LEMMA FlightSaid ==
    ASSUME MessagesFit, NEW s \in Servers, NEW k \in Nat
    PROVE  /\ SentMessages(k, s) \in Seq(MsgType)
           /\ \A n \in 1 .. Len(SentMessages(k, s)) : SentMessages(k, s)[n].conn = k
           /\ Speaks(k, FlightOf(s, k), SentMessages(k, s))
<1> DEFINE F == FlightOf(s, k)
           PartsOf == [i \in DOMAIN F |-> F[i].parts]
           A == FlattenSeq(PartsOf)
           Whole == [i \in DOMAIN A |-> IF A[i].last THEN <<A[i].msg>> ELSE <<>>]
           M == FlattenSeq(Whole)
<1>1. F \in Seq(RecordType)
  BY FlightInClear
<1>2. ASSUME NEW i \in 1 .. Len(F), NEW j \in 1 .. Len(F[i].parts)
      PROVE  F[i].parts[j].msg.conn = k /\ F[i].parts[j].msg.size < TranscriptMax
  <2> DEFINE P == [m : STRING, arg : STRING, size : Nat, last : BOOLEAN]
             R == [type : STRING, parts : Seq(P)]
  <2>1. s.flight \in Seq(R)
    BY TlsAssumption DEF FlightType
  <2>2. DOMAIN s.flight = 1 .. Len(s.flight) /\ Len(s.flight) \in Nat
    BY <2>1
  <2>3. DOMAIN F = DOMAIN s.flight
    BY DEF FlightOf
  <2>4. i \in DOMAIN s.flight
    BY <1>1, <2>3
  <2> DEFINE ps == s.flight[i].parts
             qs == [x \in DOMAIN ps |-> [msg |-> Msg(k, ps[x].m, ps[x].arg, ps[x].size), last |-> ps[x].last]]
  <2>5. F[i].parts = qs
    BY <2>4 DEF FlightOf, Clear
  <2>6. ps \in Seq(P)
    <3>1. \A x \in R : x.parts \in Seq(P)
      OBVIOUS
    <3>2. s.flight[i] \in R
      <4> HIDE DEF R
      <4> QED
        BY <2>1, <2>2, <2>4
    <3> QED
      BY <3>1, <3>2
  <2>7. DOMAIN ps = 1 .. Len(ps) /\ Len(ps) \in Nat
    BY <2>6
  <2>8. Len(qs) = Len(ps)
    BY <2>7
  <2>9. j \in DOMAIN ps
    BY <2>5, <2>7, <2>8
  <2>10. qs[j].msg = Msg(k, ps[j].m, ps[j].arg, ps[j].size)
    BY <2>9
  <2>11. ps[j].size < TranscriptMax
    BY <2>4, <2>9 DEF MessagesFit
  <2> QED
    <3>1. F[i].parts[j].msg = Msg(k, ps[j].m, ps[j].arg, ps[j].size)
      BY <2>5, <2>10
    <3> HIDE DEF F, ps
    <3> QED
      BY <2>11, <3>1 DEF Msg
<1>3. PartsOf \in Seq(Seq(PartType)) /\ Len(PartsOf) = Len(F) /\ \A i \in 1 .. Len(F) : PartsOf[i] = F[i].parts
  <2> HIDE DEF F
  <2>1. DOMAIN F = 1 .. Len(F) /\ Len(F) \in Nat /\ \A i \in 1 .. Len(F) : F[i] \in RecordType
    BY <1>1
  <2>2. \A x \in RecordType : x.parts \in Seq(PartType)
    BY DEF RecordType
  <2>3. \A i \in 1 .. Len(F) : F[i].parts \in Seq(PartType)
    BY <2>1, <2>2
  <2> QED
    BY <2>1, <2>3
<1>4. A = AllParts(F) /\ M = SentMessages(k, s)
  BY DEF AllParts, SentMessages, Messages
<1> HIDE DEF F, PartsOf
<1>5. /\ A \in Seq(PartType)
      /\ \A i \in 1 .. Len(F) : \A j \in 1 .. Len(F[i].parts) : \E n \in 1 .. Len(A) : A[n] = F[i].parts[j]
      /\ \A n \in 1 .. Len(A) : \E i \in 1 .. Len(F) : \E j \in 1 .. Len(F[i].parts) : A[n] = F[i].parts[j]
  <2>1. /\ A \in Seq(PartType)
        /\ \A i \in 1 .. Len(PartsOf) : \A j \in 1 .. Len(PartsOf[i]) : \E n \in 1 .. Len(A) : A[n] = PartsOf[i][j]
        /\ \A n \in 1 .. Len(A) : \E i \in 1 .. Len(PartsOf) : \E j \in 1 .. Len(PartsOf[i]) : A[n] = PartsOf[i][j]
    BY <1>3, Flattened
  <2> HIDE DEF A
  <2>2. ASSUME NEW i \in 1 .. Len(F), NEW j \in 1 .. Len(F[i].parts)
        PROVE  \E n \in 1 .. Len(A) : A[n] = F[i].parts[j]
    <3>1. i \in 1 .. Len(PartsOf) /\ j \in 1 .. Len(PartsOf[i]) /\ PartsOf[i] = F[i].parts
      BY <1>3
    <3>2. \E n \in 1 .. Len(A) : A[n] = PartsOf[i][j]
      BY <2>1, <3>1
    <3> QED
      BY <3>1, <3>2
  <2>3. ASSUME NEW n \in 1 .. Len(A)
        PROVE  \E i \in 1 .. Len(F) : \E j \in 1 .. Len(F[i].parts) : A[n] = F[i].parts[j]
    <3>1. PICK i \in 1 .. Len(PartsOf) : \E j \in 1 .. Len(PartsOf[i]) : A[n] = PartsOf[i][j]
      BY <2>1
    <3>2. i \in 1 .. Len(F) /\ PartsOf[i] = F[i].parts
      BY <1>3
    <3> QED
      BY <3>1, <3>2
  <2> QED
    BY <2>1, <2>2, <2>3
<1> HIDE DEF A
<1>6. \A n \in 1 .. Len(A) : A[n].msg.conn = k
  <2> SUFFICES ASSUME NEW n \in 1 .. Len(A) PROVE A[n].msg.conn = k
    OBVIOUS
  <2>1. PICK i \in 1 .. Len(F) : \E j \in 1 .. Len(F[i].parts) : A[n] = F[i].parts[j]
    BY <1>5
  <2> QED
    BY <1>2, <2>1
<1>7. /\ Whole \in Seq(Seq(MsgType)) /\ Len(Whole) = Len(A)
      /\ \A i \in 1 .. Len(A) : Whole[i] = IF A[i].last THEN <<A[i].msg>> ELSE <<>>
  <2>1. DOMAIN A = 1 .. Len(A) /\ Len(A) \in Nat /\ \A i \in 1 .. Len(A) : A[i] \in PartType
    BY <1>5
  <2>2. \A x \in PartType : x.msg \in MsgType
    BY DEF PartType, MsgType
  <2>3. \A i \in 1 .. Len(A) : (IF A[i].last THEN <<A[i].msg>> ELSE <<>>) \in Seq(MsgType)
    BY <2>1, <2>2
  <2> QED
    BY <2>1, <2>3
<1> HIDE DEF Whole
<1>8. /\ M \in Seq(MsgType)
      /\ \A i \in 1 .. Len(Whole) : \A j \in 1 .. Len(Whole[i]) : \E n \in 1 .. Len(M) : M[n] = Whole[i][j]
      /\ \A n \in 1 .. Len(M) : \E i \in 1 .. Len(Whole) : \E j \in 1 .. Len(Whole[i]) : M[n] = Whole[i][j]
  BY <1>7, Flattened
<1> HIDE DEF M
<1>9. ASSUME NEW n \in 1 .. Len(M) PROVE M[n].conn = k
  <2>1. PICK i \in 1 .. Len(Whole) : \E j \in 1 .. Len(Whole[i]) : M[n] = Whole[i][j]
    BY <1>8
  <2>2. PICK j \in 1 .. Len(Whole[i]) : M[n] = Whole[i][j]
    BY <2>1
  <2>3. i \in 1 .. Len(A) /\ Whole[i] = IF A[i].last THEN <<A[i].msg>> ELSE <<>>
    BY <1>7
  <2>4. Whole[i] = <<A[i].msg>>
    BY <2>3
  <2>5. j = 1 /\ Whole[i][j] = A[i].msg
    BY <2>4
  <2> QED
    BY <1>6, <2>2, <2>3, <2>5
<1>10. ASSUME NEW i \in 1 .. Len(F), NEW j \in 1 .. Len(F[i].parts), F[i].parts[j].last = TRUE
       PROVE  \E n \in 1 .. Len(M) : M[n] = F[i].parts[j].msg
  <2>1. PICK a \in 1 .. Len(A) : A[a] = F[i].parts[j]
    BY <1>5
  <2>2. Whole[a] = <<A[a].msg>> /\ a \in 1 .. Len(Whole)
    BY <1>7, <1>10, <2>1
  <2>3. 1 \in 1 .. Len(Whole[a]) /\ Whole[a][1] = A[a].msg
    BY <2>2
  <2>4. \E n \in 1 .. Len(M) : M[n] = Whole[a][1]
    BY <1>8, <2>2, <2>3
  <2> QED
    BY <2>1, <2>3, <2>4
<1>11. /\ M \in Seq(MsgType) /\ (\A n \in 1 .. Len(M) : M[n].conn = k)
       /\ \A i \in 1 .. Len(F) : \A j \in 1 .. Len(F[i].parts) :
             /\ F[i].parts[j].msg.conn = k /\ F[i].parts[j].msg.size < TranscriptMax
             /\ F[i].parts[j].last = TRUE => \E n \in 1 .. Len(M) : M[n] = F[i].parts[j].msg
  BY <1>2, <1>8, <1>9, <1>10
<1> QED
  BY <1>4, <1>11 DEF F, Speaks

-----------------------------------------------------------------------------
(* The types of every variable *)

GotType == [hello : BOOLEAN, random : Nat, suite : Text, cert : Text, ske : BOOLEAN, done : BOOLEAN]

VarsOK ==
    /\ flight \in Seq(PartType) /\ transcript \in Seq(MsgType) /\ got \in GotType
    /\ server.transcript \in Seq(MsgType)
    /\ \A i \in 1 .. Len(server.transcript) : server.transcript[i].conn = conn

(* A part of a clear record: the server of this connection has the message *)
(* in its transcript, and it would fit into the client's.                  *)
SaidBy(m) == \E i \in 1 .. Len(server.transcript) : server.transcript[i] = m
PartOK(p) ==
    /\ p.msg.conn <= conn
    /\ p.last = TRUE => p.msg.size < TranscriptMax /\ (p.msg.conn = conn => SaidBy(p.msg))
TokenOK(t) ==
    \A j \in 1 .. Len(t[1].parts) :
        t[1].parts[j].msg.conn <= conn /\ (t[1].enc = 0 => PartOK(t[1].parts[j]))

(* Messages of earlier connections come first, if at all.                  *)
New(p) == p.msg.conn = conn
Old(p) == p.last = TRUE /\ p.msg.conn # conn
HasNew(t) == t[1].enc = 0 /\ \E j \in 1 .. Len(t[1].parts) : New(t[1].parts[j])
HasOld(t) == t[1].enc = 0 /\ \E j \in 1 .. Len(t[1].parts) : Old(t[1].parts[j])
BufferOK ==
    /\ \A i \in 1 .. Len(stream) : TokenOK(stream[i])
    /\ \A i \in 1 .. Len(wire) : TokenOK(wire[i]) /\ ~HasOld(wire[i])
    /\ \A i \in 1 .. Len(stream), j \in 1 .. Len(stream) : i <= j /\ HasNew(stream[i]) => ~HasOld(stream[j])

Pure == \A i \in 1 .. Len(transcript) : transcript[i].conn = conn
FlightOK ==
    /\ \A i \in 1 .. Len(flight) : PartOK(flight[i])
    /\ pc \in {"flight", "walk"} =>
          /\ \A i \in 1 .. Len(flight), j \in 1 .. Len(flight) : i <= j /\ New(flight[i]) => ~Old(flight[j])
          /\ (\E i \in 1 .. Len(flight) : New(flight[i])) => \A j \in 1 .. Len(stream) : ~HasOld(stream[j])
          /\ Pure /\ transcript # Extended(<<>>, Hello(conn)) =>
                /\ \A i \in 1 .. Len(flight) : ~Old(flight[i])
                /\ \A i \in 1 .. Len(stream) : ~HasOld(stream[i])

(* What the client has got of the handshake is what this server has said,  *)
(* unless the transcript holds a message of an earlier connection, which   *)
(* no server of this one takes for its own.                                *)
Said(m, arg) == \E i \in 1 .. Len(server.transcript) :
                   /\ server.transcript[i].conn = conn /\ server.transcript[i].m = m
                   /\ server.transcript[i].arg = arg
AllSaid ==
    /\ got.hello = TRUE => Said("hello", got.suite)
    /\ got.cert # "none" => Said("cert", got.cert)
    /\ got.ske = TRUE => Said("ske", "signed")
GotIsSaid ==
    /\ pc \in {"flight", "walk", "check"} /\ Pure => AllSaid
    /\ pc \in {"ccs", "finished", "request", "body", "extract"} /\ server.done = TRUE => AllSaid

AgreeInv == Inv /\ TypeOK /\ VarsOK /\ BufferOK /\ FlightOK /\ GotIsSaid

-----------------------------------------------------------------------------
(* One lemma per action again *)

(* The same connection, with its server                                    *)
LEMMA SameConnection ==
    ASSUME UNCHANGED <<conn, server>>
    PROVE  /\ \A p : (PartOK(p)' <=> PartOK(p)) /\ (New(p)' <=> New(p)) /\ (Old(p)' <=> Old(p))
           /\ \A t : (TokenOK(t)' <=> TokenOK(t)) /\ (HasNew(t)' <=> HasNew(t)) /\ (HasOld(t)' <=> HasOld(t))
<1>1. \A p : (PartOK(p)' <=> PartOK(p)) /\ (New(p)' <=> New(p)) /\ (Old(p)' <=> Old(p))
  BY DEF PartOK, SaidBy, New, Old
<1>2. \A t : TokenOK(t)' <=> TokenOK(t)
  BY <1>1 DEF TokenOK
<1>3. \A t : (HasNew(t)' <=> HasNew(t)) /\ (HasOld(t)' <=> HasOld(t))
  BY DEF HasNew, HasOld, New, Old
<1> QED
  BY <1>1, <1>2, <1>3

(* Segments move from the wire to the buffer, and records out of it.       *)
LEMMA BufferStays ==
    ASSUME BufferOK, UNCHANGED <<conn, server>>,
           \A i \in 1 .. Len(wire') : \E k \in 1 .. Len(wire) : wire'[i] = wire[k],
           \A j \in 1 .. Len(stream') :
              \/ \E k \in 1 .. Len(wire) : stream'[j] = wire[k]
              \/ \E b \in 1 .. Len(stream) : stream'[j] = stream[b],
           \A i \in 1 .. Len(stream'), j \in 1 .. Len(stream') : i <= j =>
              \/ \E k \in 1 .. Len(wire) : stream'[j] = wire[k]
              \/ \E a \in 1 .. Len(stream), b \in 1 .. Len(stream) :
                    a <= b /\ stream'[i] = stream[a] /\ stream'[j] = stream[b]
    PROVE  /\ BufferOK'
           /\ (\A j \in 1 .. Len(stream) : ~HasOld(stream[j])) => \A j \in 1 .. Len(stream') : ~HasOld(stream'[j])
<1>1. \A t : (TokenOK(t)' <=> TokenOK(t)) /\ (HasNew(t)' <=> HasNew(t)) /\ (HasOld(t)' <=> HasOld(t))
  BY SameConnection
<1>2. \A i \in 1 .. Len(wire') : TokenOK(wire'[i]) /\ ~HasOld(wire'[i])
  BY DEF BufferOK
<1>3. \A i \in 1 .. Len(stream') : TokenOK(stream'[i])
  BY DEF BufferOK
<1>4. ASSUME NEW i \in 1 .. Len(stream'), NEW j \in 1 .. Len(stream'), i <= j, HasNew(stream'[i])
      PROVE  ~HasOld(stream'[j])
  <2>1. CASE \E k \in 1 .. Len(wire) : stream'[j] = wire[k]
    BY <2>1 DEF BufferOK
  <2>2. CASE \E a \in 1 .. Len(stream), b \in 1 .. Len(stream) :
                a <= b /\ stream'[i] = stream[a] /\ stream'[j] = stream[b]
    BY <1>4, <2>2 DEF BufferOK
  <2> QED
    BY <1>4, <2>1, <2>2
<1>5. BufferOK'
  <2>1. (\A i \in 1 .. Len(stream) : TokenOK(stream[i]))'
    BY <1>3 DEF TokenOK, PartOK, SaidBy
  <2>2. (\A i \in 1 .. Len(wire) : TokenOK(wire[i]))'
    BY <1>2 DEF TokenOK, PartOK, SaidBy
  <2>3. (\A i \in 1 .. Len(wire) : ~HasOld(wire[i]))'
    BY <1>2 DEF HasOld, Old
  <2>4. (\A i \in 1 .. Len(stream), j \in 1 .. Len(stream) : i <= j /\ HasNew(stream[i]) => ~HasOld(stream[j]))'
    <3> SUFFICES ASSUME NEW i \in 1 .. Len(stream'), NEW j \in 1 .. Len(stream'), i <= j, HasNew(stream[i])'
                 PROVE  ~HasOld(stream[j])'
      OBVIOUS
    <3>1. HasNew(stream'[i])
      BY DEF HasNew, New
    <3>2. ~HasOld(stream'[j])
      BY <1>4, <3>1
    <3> QED
      BY <3>2 DEF HasOld, Old
  <2> QED
    BY <2>1, <2>2, <2>3, <2>4 DEF BufferOK
<1>6. (\A j \in 1 .. Len(stream) : ~HasOld(stream[j])) => \A j \in 1 .. Len(stream') : ~HasOld(stream'[j])
  BY DEF BufferOK
<1> QED
  BY <1>5, <1>6

(* A record is taken from the buffer, or none.                             *)
LEMMA BufferConsumed ==
    ASSUME Inv, BufferOK, UNCHANGED <<conn, server, wire>>, stream' = stream \/ (Complete /\ Consume)
    PROVE  /\ BufferOK'
           /\ (\A j \in 1 .. Len(stream) : ~HasOld(stream[j])) => \A j \in 1 .. Len(stream') : ~HasOld(stream'[j])
           /\ Len(stream') <= Len(stream)
<1>1. stream \in Seq(TokenType) /\ Len(stream) \in Nat
  BY DEF Inv, TokensOK
<1>2. PICK d \in Nat : /\ Len(stream') <= Len(stream)
                       /\ \A i \in 1 .. Len(stream') : i + d \in 1 .. Len(stream) /\ stream'[i] = stream[i + d]
  <2>1. CASE stream' = stream
    <3>1. \A i \in 1 .. Len(stream') : i + 0 \in 1 .. Len(stream) /\ stream'[i] = stream[i + 0]
      BY <1>1, <2>1
    <3>2. Len(stream') <= Len(stream)
      BY <1>1, <2>1
    <3> QED
      BY <3>1, <3>2
  <2>2. CASE Complete /\ Consume
    <3>1. Len(stream) >= 2 /\ stream' = SubSeq(stream, 3, Len(stream))
      BY <2>2 DEF Complete, Consume
    <3>2. \A i \in 3 .. Len(stream) : stream[i] \in TokenType
      BY <1>1
    <3>3. /\ Len(stream') = IF 3 <= Len(stream) THEN Len(stream) - 3 + 1 ELSE 0
          /\ \A i \in 1 .. Len(stream) - 3 + 1 : stream'[i] = stream[3 + i - 1]
      BY <1>1, <3>1, <3>2, SubSeqProperties
    <3>4. \A i \in 1 .. Len(stream') : i + 2 \in 1 .. Len(stream) /\ stream'[i] = stream[i + 2]
      BY <1>1, <3>3
    <3>5. Len(stream') <= Len(stream)
      BY <1>1, <3>1, <3>3
    <3> QED
      BY <3>4, <3>5
  <2> QED
    BY <2>1, <2>2
<1>3. \A i \in 1 .. Len(wire') : \E k \in 1 .. Len(wire) : wire'[i] = wire[k]
  OBVIOUS
<1>4. \A j \in 1 .. Len(stream') : \E b \in 1 .. Len(stream) : stream'[j] = stream[b]
  BY <1>2
<1>5. ASSUME NEW i \in 1 .. Len(stream'), NEW j \in 1 .. Len(stream'), i <= j
      PROVE  \E a \in 1 .. Len(stream), b \in 1 .. Len(stream) :
                a <= b /\ stream'[i] = stream[a] /\ stream'[j] = stream[b]
  <2>1. i + d <= j + d /\ i + d \in 1 .. Len(stream) /\ j + d \in 1 .. Len(stream)
        /\ stream'[i] = stream[i + d] /\ stream'[j] = stream[j + d]
    BY <1>2, <1>5
  <2> QED
    BY <2>1
<1>6. /\ BufferOK'
      /\ (\A j \in 1 .. Len(stream) : ~HasOld(stream[j])) => \A j \in 1 .. Len(stream') : ~HasOld(stream'[j])
  BY <1>3, <1>4, <1>5, BufferStays
<1> QED
  BY <1>2, <1>6

Places == {"idle", "flight", "walk", "check", "ccs", "finished", "request", "body", "extract"}
Flaws == {"timeout", "full", "send", "skipped", "record", "refused"}

(* The types, when the handshake's variables stay                          *)
LEMMA TypeFrame ==
    ASSUME AgreeInv, UNCHANGED <<conn, flight, got, transcript, clean>>, pc' \in Places, readSeq' \in Nat,
           res' \in BOOLEAN, Len(stream') <= StreamMax, RespSize' <= RespMax, flaws' \subseteq Flaws
    PROVE  TypeOK'
<1>1. TotalParts(flight)' = TotalParts(flight) /\ TotalSize(transcript)' = TotalSize(transcript)
  BY DEF TotalParts, TotalSize
<1> QED
  BY <1>1 DEF AgreeInv, TypeOK, Places, Flaws

(* The rest of the invariant then, too                                     *)
LEMMA CalmStep ==
    ASSUME AgreeInv, BufferOK', UNCHANGED <<conn, server, flight, got, transcript>>,
           (\A j \in 1 .. Len(stream) : ~HasOld(stream[j])) => \A j \in 1 .. Len(stream') : ~HasOld(stream'[j]),
           pc' \in {"flight", "walk"} => pc \in {"flight", "walk"},
           pc' = "check" => pc \in {"walk", "check"},
           pc' \in {"ccs", "finished", "request", "body", "extract"} =>
              pc \in {"ccs", "finished", "request", "body", "extract"}
    PROVE  VarsOK' /\ FlightOK' /\ GotIsSaid'
<1>1. VarsOK'
  BY DEF AgreeInv, VarsOK
<1>2. (Pure' <=> Pure) /\ (AllSaid' <=> AllSaid)
  BY DEF Pure, AllSaid, Said
<1>3. GotIsSaid'
  BY <1>2 DEF AgreeInv, GotIsSaid
<1>4. \A p : (PartOK(p)' <=> PartOK(p)) /\ (New(p)' <=> New(p)) /\ (Old(p)' <=> Old(p))
  BY SameConnection
<1>5. (\A i \in 1 .. Len(flight) : PartOK(flight[i]))'
  BY DEF AgreeInv, FlightOK, PartOK, SaidBy
<1>6. ASSUME pc' \in {"flight", "walk"}
      PROVE  /\ (\A i \in 1 .. Len(flight), j \in 1 .. Len(flight) : i <= j /\ New(flight[i]) => ~Old(flight[j]))'
             /\ ((\E i \in 1 .. Len(flight) : New(flight[i])) => \A j \in 1 .. Len(stream) : ~HasOld(stream[j]))'
             /\ (Pure /\ transcript # Extended(<<>>, Hello(conn)) =>
                   /\ \A i \in 1 .. Len(flight) : ~Old(flight[i])
                   /\ \A i \in 1 .. Len(stream) : ~HasOld(stream[i]))'
  <2>1. pc \in {"flight", "walk"}
    BY <1>6
  <2>2. (\A i \in 1 .. Len(flight), j \in 1 .. Len(flight) : i <= j /\ New(flight[i]) => ~Old(flight[j]))'
    BY <2>1 DEF AgreeInv, FlightOK, New, Old
  <2>3. (\A j \in 1 .. Len(stream) : ~HasOld(stream[j])) => (\A j \in 1 .. Len(stream) : ~HasOld(stream[j]))'
    BY DEF HasOld, Old
  <2>4. (\E i \in 1 .. Len(flight) : New(flight[i]))' => (\A j \in 1 .. Len(stream) : ~HasOld(stream[j]))'
    <3>1. (\E i \in 1 .. Len(flight) : New(flight[i]))' => (\E i \in 1 .. Len(flight) : New(flight[i]))
      BY DEF New
    <3> QED
      BY <2>1, <2>3, <3>1 DEF AgreeInv, FlightOK
  <2>5. Extended(<<>>, Hello(conn))' = Extended(<<>>, Hello(conn))
    BY DEF Extended, Hello, Msg, TotalSize, TotalOf
  <2>6. ASSUME (Pure /\ transcript # Extended(<<>>, Hello(conn)))'
        PROVE  (\A i \in 1 .. Len(flight) : ~Old(flight[i]))' /\ (\A i \in 1 .. Len(stream) : ~HasOld(stream[i]))'
    <3>1. (\A i \in 1 .. Len(flight) : ~Old(flight[i])) /\ (\A i \in 1 .. Len(stream) : ~HasOld(stream[i]))
      BY <1>2, <2>1, <2>5, <2>6 DEF AgreeInv, FlightOK
    <3>2. (\A i \in 1 .. Len(flight) : ~Old(flight[i]))'
      BY <3>1 DEF Old
    <3> QED
      BY <2>3, <3>1, <3>2
  <2> QED
    BY <2>2, <2>4, <2>6
<1>7. FlightOK'
  BY <1>5, <1>6 DEF FlightOK
<1> QED
  BY <1>1, <1>3, <1>7

(* The size of the response does not change with anything else.            *)
LEMMA RespStays == ASSUME AgreeInv, UNCHANGED resp PROVE RespSize' <= RespMax
  BY DEF AgreeInv, TypeOK, RespSize

(* Nothing came, or nothing could be sent; the walk ends; a record that is *)
(* not part of the flight is taken.                                        *)
LEMMA QuietAgrees ==
    ASSUME AgreeInv, Inv',
           RecvTimeout \/ WalkEnds \/ WalkGarbage \/ CheckFails \/ SendFails \/ RecvCcs \/ RecvFinished \/ Extract
    PROVE  AgreeInv'
<1>1. /\ UNCHANGED <<conn, server, flight, got, transcript, clean, wire, resp>>
      /\ stream' = stream \/ (Complete /\ Consume)
      /\ pc' \in Places
  <2>1. UNCHANGED <<conn, server, flight, got, transcript, clean, wire, resp>>
    BY DEF RecvTimeout, WalkEnds, WalkGarbage, CheckFails, SendFails, RecvCcs, RecvFinished, Extract
  <2>2. stream' = stream \/ (Complete /\ Consume)
    BY DEF RecvTimeout, WalkEnds, WalkGarbage, CheckFails, SendFails, RecvCcs, RecvFinished, Extract
  <2>3. pc' \in {"extract", "idle", "check", "flight", "finished", "request"}
    BY DEF RecvTimeout, Refused, Fail, WalkEnds, WalkGarbage, CheckFails, SendFails, RecvCcs, RecvFinished, Extract
  <2> QED
    BY <2>1, <2>2, <2>3 DEF Places
<1>2. /\ pc' \in {"flight", "walk"} => pc \in {"flight", "walk"}
      /\ pc' = "check" => pc \in {"walk", "check"}
      /\ pc' \in {"ccs", "finished", "request", "body", "extract"} => pc \in {"ccs", "finished", "request", "body", "extract"}
  BY DEF RecvTimeout, Refused, Fail, WalkEnds, WalkGarbage, CheckFails, SendFails, RecvCcs, RecvFinished, Extract
<1>3. flaws' \subseteq Flaws
  BY DEF RecvTimeout, Refused, Fail, WalkEnds, WalkGarbage, CheckFails, SendFails, RecvCcs, RecvFinished, Extract,
         AgreeInv, TypeOK, Flaws
<1>4. res' \in BOOLEAN
  <2>1. res' = res \/ res' = FALSE \/ res' = (resp # <<>>)
    BY DEF RecvTimeout, Refused, Fail, WalkEnds, WalkGarbage, CheckFails, SendFails, RecvCcs, RecvFinished, Extract
  <2>2. res \in BOOLEAN
    BY DEF AgreeInv, TypeOK
  <2> QED
    BY <2>1, <2>2
<1>5. readSeq' \in Nat /\ RespSize' <= RespMax
  BY <1>1, RespStays DEF Inv, NumbersOK
<1>6. /\ BufferOK' /\ Len(stream') <= Len(stream)
      /\ (\A j \in 1 .. Len(stream) : ~HasOld(stream[j])) => \A j \in 1 .. Len(stream') : ~HasOld(stream'[j])
  BY <1>1, BufferConsumed DEF AgreeInv
<1>7. Len(stream') <= StreamMax
  <2>1. Len(stream) \in Nat /\ Len(stream') \in Nat /\ StreamMax \in Nat /\ Len(stream) <= StreamMax
    BY TlsAssumption DEF AgreeInv, Inv, TypeOK, TokensOK
  <2> QED
    BY <1>6, <2>1
<1>8. TypeOK'
  BY <1>1, <1>3, <1>4, <1>5, <1>7, TypeFrame
<1>9. VarsOK' /\ FlightOK' /\ GotIsSaid'
  BY <1>1, <1>2, <1>6, CalmStep
<1> QED
  BY <1>6, <1>8, <1>9 DEF AgreeInv

(* A segment comes, or is refused.                                         *)
LEMMA FillAgrees == ASSUME AgreeInv, Inv', Fill PROVE AgreeInv'
<1>1. PICK n \in 1 .. SegMax :
          /\ n <= Len(wire) /\ wire' = SubSeq(wire, n + 1, Len(wire))
          /\ \/ Refused("full") /\ stream' = stream
             \/ /\ ~(Len(stream) + n > StreamMax)
                /\ stream' = stream \o SubSeq(wire, 1, n) /\ UNCHANGED <<pc, res, flaws>>
  BY DEF Fill
<1>2. /\ pc \in Receiving
      /\ UNCHANGED <<conn, flight, got, transcript, readSeq, resp, server, clean>>
  BY DEF Fill
<1>3. /\ stream \in Seq(TokenType) /\ wire \in Seq(TokenType) /\ StreamMax \in Nat
      /\ n \in Nat /\ n >= 1 /\ Len(wire) \in Nat /\ Len(stream) \in Nat /\ n <= Len(wire)
      /\ Len(stream) <= StreamMax
  <2>1. stream \in Seq(TokenType) /\ wire \in Seq(TokenType) /\ StreamMax \in Nat /\ SegMax \in Nat
    BY TlsAssumption DEF AgreeInv, Inv, TokensOK
  <2>2. Len(stream) <= StreamMax
    BY DEF AgreeInv, TypeOK
  <2> QED
    BY <1>1, <2>1, <2>2
<1>4. \A i \in 1 .. Len(wire) : wire[i] \in TokenType
  BY <1>3
<1>5. \A i \in 1 .. Len(wire') : \E j \in 1 .. Len(wire) : wire'[i] = wire[j]
  <2>1. \A i \in n + 1 .. Len(wire) : wire[i] \in TokenType
    BY <1>3, <1>4
  <2>2. /\ Len(wire') = IF n + 1 <= Len(wire) THEN Len(wire) - (n + 1) + 1 ELSE 0
        /\ \A i \in 1 .. Len(wire) - (n + 1) + 1 : wire'[i] = wire[n + 1 + i - 1]
    BY <1>1, <1>3, <2>1, SubSeqProperties
  <2>3. \A i \in 1 .. Len(wire') : i + n \in 1 .. Len(wire) /\ wire'[i] = wire[i + n]
    BY <1>3, <2>2
  <2> QED
    BY <2>3
<1>6. /\ Len(stream') <= StreamMax
      /\ \A i \in 1 .. Len(stream') :
            \/ i \in 1 .. Len(stream) /\ stream'[i] = stream[i]
            \/ i > Len(stream) /\ \E j \in 1 .. Len(wire) : stream'[i] = wire[j]
  <2>1. CASE stream' = stream
    BY <1>3, <2>1
  <2>2. CASE ~(Len(stream) + n > StreamMax) /\ stream' = stream \o SubSeq(wire, 1, n)
    <3> DEFINE w == SubSeq(wire, 1, n)
    <3>1. \A i \in 1 .. n : wire[i] \in TokenType
      BY <1>3, <1>4
    <3>2. /\ w \in Seq(TokenType) /\ Len(w) = IF 1 <= n THEN n - 1 + 1 ELSE 0
          /\ \A i \in 1 .. n - 1 + 1 : w[i] = wire[1 + i - 1]
      BY <1>3, <3>1, SubSeqProperties
    <3>3. Len(w) = n /\ \A i \in 1 .. n : w[i] = wire[i]
      BY <1>3, <3>2
    <3> HIDE DEF w
    <3>4. /\ stream \o w \in Seq(TokenType) /\ Len(stream \o w) = Len(stream) + Len(w)
          /\ \A i \in 1 .. Len(stream) + Len(w) :
                (stream \o w)[i] = IF i <= Len(stream) THEN stream[i] ELSE w[i - Len(stream)]
      <4>1. stream \in Seq(TokenType) /\ w \in Seq(TokenType)
        BY <1>3, <3>2
      <4> QED
        BY <4>1, ConcatProperties
    <3>5. stream' = stream \o w
      BY <2>2 DEF w
    <3>6. ASSUME NEW i \in 1 .. Len(stream')
          PROVE  \/ i \in 1 .. Len(stream) /\ stream'[i] = stream[i]
                 \/ i > Len(stream) /\ \E j \in 1 .. Len(wire) : stream'[i] = wire[j]
      <4>1. CASE i <= Len(stream)
        <5>1. i \in 1 .. Len(stream) /\ stream'[i] = stream[i]
          BY <1>3, <3>3, <3>4, <3>5, <4>1
        <5> QED
          BY <5>1
      <4>2. CASE ~(i <= Len(stream))
        <5>1. i - Len(stream) \in 1 .. n /\ stream'[i] = w[i - Len(stream)]
          BY <1>3, <3>3, <3>4, <3>5, <4>2
        <5>2. i - Len(stream) \in 1 .. Len(wire) /\ stream'[i] = wire[i - Len(stream)] /\ i > Len(stream)
          BY <1>3, <3>3, <4>2, <5>1
        <5> QED
          BY <5>2
      <4> QED
        BY <4>1, <4>2
    <3>7. Len(stream') <= StreamMax
      BY <1>3, <2>2, <3>3, <3>4, <3>5
    <3> QED
      BY <3>6, <3>7
  <2> QED
    BY <1>1, <2>1, <2>2
<1>7. \A j \in 1 .. Len(stream') : \/ \E k \in 1 .. Len(wire) : stream'[j] = wire[k]
                                   \/ \E b \in 1 .. Len(stream) : stream'[j] = stream[b]
  BY <1>6
<1>8. ASSUME NEW i \in 1 .. Len(stream'), NEW j \in 1 .. Len(stream'), i <= j
      PROVE  \/ \E k \in 1 .. Len(wire) : stream'[j] = wire[k]
             \/ \E a \in 1 .. Len(stream), b \in 1 .. Len(stream) :
                   a <= b /\ stream'[i] = stream[a] /\ stream'[j] = stream[b]
  <2>1. CASE \E k \in 1 .. Len(wire) : stream'[j] = wire[k]
    BY <2>1
  <2>2. CASE j \in 1 .. Len(stream) /\ stream'[j] = stream[j]
    <3>1. ~(i > Len(stream))
      BY <1>3, <1>8, <2>2
    <3>2. i \in 1 .. Len(stream) /\ stream'[i] = stream[i]
      BY <1>6, <3>1
    <3> QED
      BY <1>8, <2>2, <3>2
  <2> QED
    BY <1>6, <2>1, <2>2
<1>9. UNCHANGED <<conn, server>> /\ BufferOK
  BY <1>2 DEF AgreeInv
<1>10. /\ BufferOK'
       /\ (\A j \in 1 .. Len(stream) : ~HasOld(stream[j])) => \A j \in 1 .. Len(stream') : ~HasOld(stream'[j])
  BY <1>5, <1>7, <1>8, <1>9, BufferStays
<1>11. /\ pc' = pc \/ pc' = "idle" \/ (pc = "body" /\ pc' = "extract")
       /\ flaws' \in {flaws, flaws \cup {"full"}}
  BY <1>1 DEF Refused, Fail
<1>12. res' \in BOOLEAN
  <2>1. res' = res \/ res' = FALSE
    BY <1>1 DEF Refused, Fail
  <2> QED
    BY <2>1 DEF AgreeInv, TypeOK
<1>13. pc' \in Places /\ flaws' \subseteq Flaws
  BY <1>11 DEF AgreeInv, TypeOK, Places, Flaws
<1>14. readSeq' \in Nat /\ RespSize' <= RespMax
  BY <1>2, RespStays DEF Inv, NumbersOK
<1>15. TypeOK'
  BY <1>2, <1>6, <1>12, <1>13, <1>14, TypeFrame
<1>16. /\ pc' \in {"flight", "walk"} => pc \in {"flight", "walk"}
       /\ pc' = "check" => pc \in {"walk", "check"}
       /\ pc' \in {"ccs", "finished", "request", "body", "extract"} => pc \in {"ccs", "finished", "request", "body", "extract"}
  BY <1>11
<1>17. VarsOK' /\ FlightOK' /\ GotIsSaid'
  BY <1>2, <1>10, <1>16, CalmStep
<1> QED
  BY <1>10, <1>15, <1>17 DEF AgreeInv

(* What a record adds to flight[]: nothing that its first token does not   *)
(* hold.                                                                   *)
LEMMA PartsOfFront ==
    ASSUME AgreeInv, pc = "flight", Complete
    PROVE  /\ Parts \in Seq(PartType)
           /\ \A i \in 1 .. Len(Parts) :
                 /\ PartOK(Parts[i])
                 /\ New(Parts[i]) => HasNew(stream[1])
                 /\ Old(Parts[i]) => HasOld(stream[1])
<1>1. stream \in Seq(TokenType) /\ conn \in Nat /\ conn # 0 /\ 1 \in 1 .. Len(stream)
  <2>1. stream \in Seq(TokenType) /\ conn \in Nat /\ conn # 0
    BY DEF AgreeInv, Inv, TokensOK
  <2>2. Len(stream) >= 2
    BY DEF Complete
  <2> QED
    BY <2>1, <2>2
<1>2. First \in RecordType /\ First.parts \in Seq(PartType) /\ First = stream[1][1]
  <2>1. stream[1] \in TokenType
    BY <1>1
  <2>2. stream[1][1] \in RecordType
    BY <2>1 DEF TokenType
  <2> QED
    BY <2>2 DEF First, RecordType
<1>3. TokenOK(stream[1])
  BY <1>1 DEF AgreeInv, BufferOK
<1>4. CASE Garbled \/ First.enc # 0
  <2>1. Parts = <<Junk>>
    BY <1>4 DEF Parts
  <2>2. Junk \in PartType /\ Junk.msg.conn = 0 /\ Junk.last = FALSE
    BY DEF Junk, Msg, PartType, Text
  <2> HIDE DEF Junk
  <2>3. Parts \in Seq(PartType) /\ Len(Parts) = 1 /\ Parts[1] = Junk
    BY <2>1, <2>2
  <2>4. PartOK(Junk) /\ ~New(Junk) /\ ~Old(Junk)
    BY <1>1, <2>2 DEF PartOK, New, Old
  <2>5. \A i \in 1 .. Len(Parts) : Parts[i] = Junk
    BY <2>3
  <2> QED
    BY <2>3, <2>4, <2>5
<1>5. CASE ~(Garbled \/ First.enc # 0)
  <2>1. Parts = First.parts /\ First.enc = 0
    BY <1>5 DEF Parts
  <2>2. Parts = stream[1][1].parts /\ stream[1][1].enc = 0
    BY <1>2, <2>1
  <2> QED
    BY <1>2, <1>3, <2>1, <2>2 DEF TokenOK, HasNew, HasOld
<1> QED
  BY <1>4, <1>5

(* A record of the flight, or of an earlier connection's.                  *)
LEMMA RecvFlightAgrees == ASSUME AgreeInv, Inv', RecvFlight PROVE AgreeInv'
<1>1. /\ UNCHANGED <<conn, got, transcript, readSeq, resp, wire, server, clean>>
      /\ pc = "flight" /\ Complete /\ Consume
  BY DEF RecvFlight
<1>2. \/ pc' \in {"idle", "flight"} /\ flight' = flight
      \/ /\ pc' = "walk" /\ flight' = flight \o Parts
         /\ ~(TotalParts(flight) + TotalParts(Parts) > FlightMax)
  BY DEF RecvFlight, Fail
<1>3. flaws' \subseteq Flaws
  <2>1. flaws' \in {flaws, flaws \cup {"full"}}
    BY DEF RecvFlight
  <2> QED
    BY <2>1 DEF AgreeInv, TypeOK, Flaws
<1>4. res' \in BOOLEAN
  <2>1. res' = res \/ res' = FALSE
    BY DEF RecvFlight, Fail
  <2> QED
    BY <2>1 DEF AgreeInv, TypeOK
<1>5. readSeq' \in Nat /\ RespSize' <= RespMax
  BY <1>1, RespStays DEF Inv, NumbersOK
<1>6. /\ BufferOK' /\ Len(stream') <= Len(stream)
      /\ (\A j \in 1 .. Len(stream) : ~HasOld(stream[j])) => \A j \in 1 .. Len(stream') : ~HasOld(stream'[j])
  BY <1>1, BufferConsumed DEF AgreeInv
<1>7. Len(stream') <= StreamMax
  <2>1. Len(stream) \in Nat /\ Len(stream') \in Nat /\ StreamMax \in Nat /\ Len(stream) <= StreamMax
    BY TlsAssumption DEF AgreeInv, Inv, TypeOK, TokensOK
  <2> QED
    BY <1>6, <2>1
<1>8. CASE pc' \in {"idle", "flight"} /\ flight' = flight
  <2>1. pc' \in Places
    BY <1>8 DEF Places
  <2>2. TypeOK'
    BY <1>1, <1>3, <1>4, <1>5, <1>7, <1>8, <2>1, TypeFrame
  <2>3. VarsOK' /\ FlightOK' /\ GotIsSaid'
    BY <1>1, <1>6, <1>8, CalmStep
  <2> QED
    BY <1>6, <2>2, <2>3 DEF AgreeInv
<1>9. CASE pc' = "walk" /\ flight' = flight \o Parts /\ ~(TotalParts(flight) + TotalParts(Parts) > FlightMax)
  <2> DEFINE P == Parts
  <2>1. /\ P \in Seq(PartType)
        /\ \A i \in 1 .. Len(P) : PartOK(P[i]) /\ (New(P[i]) => HasNew(stream[1])) /\ (Old(P[i]) => HasOld(stream[1]))
    BY <1>1, PartsOfFront
  <2>2. flight \in Seq(PartType) /\ flight' = flight \o P
    BY <1>9 DEF AgreeInv, VarsOK
  <2>3. TotalParts(flight') <= FlightMax
    <3>1. TotalParts(flight) \in Nat /\ TotalParts(P) \in Nat /\ TotalParts(flight \o P) = TotalParts(flight) + TotalParts(P)
      <4>1. 0 \in 0 .. Len(flight)
        BY <2>2
      <4> HIDE DEF P
      <4> QED
        BY <2>1, <2>2, <4>1, SizeOfParts
    <3>2. FlightMax \in Nat /\ ~(TotalParts(flight) + TotalParts(P) > FlightMax)
      BY <1>9, TlsAssumption
    <3> HIDE DEF P
    <3> QED
      BY <2>2, <3>1, <3>2
  <2> HIDE DEF P
  <2>4. /\ flight' \in Seq(PartType)
        /\ \A i \in 1 .. Len(flight') :
              \/ i \in 1 .. Len(flight) /\ flight'[i] = flight[i]
              \/ i > Len(flight) /\ \E k \in 1 .. Len(P) : flight'[i] = P[k]
    <3>1. /\ flight' \in Seq(PartType) /\ Len(flight') = Len(flight) + Len(P)
          /\ \A i \in 1 .. Len(flight) + Len(P) :
                flight'[i] = IF i <= Len(flight) THEN flight[i] ELSE P[i - Len(flight)]
      BY <2>1, <2>2, ConcatProperties
    <3>2. Len(flight) \in Nat /\ Len(P) \in Nat
      BY <2>1, <2>2
    <3>3. ASSUME NEW i \in 1 .. Len(flight')
          PROVE  \/ i \in 1 .. Len(flight) /\ flight'[i] = flight[i]
                 \/ i > Len(flight) /\ \E k \in 1 .. Len(P) : flight'[i] = P[k]
      <4>1. CASE i <= Len(flight)
        BY <3>1, <3>2, <4>1
      <4>2. CASE ~(i <= Len(flight))
        <5>1. i - Len(flight) \in 1 .. Len(P) /\ i > Len(flight) /\ flight'[i] = P[i - Len(flight)]
          BY <3>1, <3>2, <4>2
        <5> QED
          BY <5>1
      <4> QED
        BY <4>1, <4>2
    <3> QED
      BY <3>1, <3>3
  <2>5. 1 \in 1 .. Len(stream) /\ Len(stream) \in Nat
    <3>1. Len(stream) \in Nat
      BY DEF AgreeInv, Inv, TokensOK
    <3> QED
      BY <1>1, <3>1 DEF Complete
  <2>6. HasNew(stream[1]) => \A j \in 1 .. Len(stream) : ~HasOld(stream[j])
    <3>1. \A j \in 1 .. Len(stream) : 1 <= j
      BY <2>5
    <3> QED
      BY <2>5, <3>1 DEF AgreeInv, BufferOK
  <2>7. TypeOK'
    <3>1. TotalSize(transcript)' = TotalSize(transcript) /\ TotalParts(flight)' = TotalParts(flight')
      BY <1>1 DEF TotalSize, TotalParts
    <3> QED
      BY <1>1, <1>3, <1>4, <1>5, <1>7, <1>9, <2>3, <3>1 DEF AgreeInv, TypeOK, Flaws
  <2>8. VarsOK'
    BY <1>1, <2>4 DEF AgreeInv, VarsOK
  <2>9. GotIsSaid'
    <3>1. (Pure' <=> Pure) /\ (AllSaid' <=> AllSaid)
      BY <1>1 DEF Pure, AllSaid, Said
    <3> QED
      BY <1>1, <1>9, <3>1 DEF AgreeInv, GotIsSaid
  <2>10. \A i \in 1 .. Len(flight') : PartOK(flight'[i])
    BY <2>1, <2>4 DEF AgreeInv, FlightOK
  <2>11. ASSUME NEW i \in 1 .. Len(flight'), NEW j \in 1 .. Len(flight'), i <= j, New(flight'[i])
         PROVE  ~Old(flight'[j])
    <3>1. CASE j \in 1 .. Len(flight) /\ flight'[j] = flight[j]
      <4>1. ~(i > Len(flight))
        BY <2>2, <2>11, <3>1
      <4>2. i \in 1 .. Len(flight) /\ flight'[i] = flight[i]
        BY <2>4, <4>1
      <4> QED
        BY <1>1, <2>11, <3>1, <4>2 DEF AgreeInv, FlightOK
    <3>2. CASE \E k \in 1 .. Len(P) : flight'[j] = P[k]
      <4>1. Old(flight'[j]) => HasOld(stream[1])
        BY <2>1, <3>2
      <4>2. CASE i \in 1 .. Len(flight) /\ flight'[i] = flight[i]
        BY <1>1, <2>5, <2>11, <4>1, <4>2 DEF AgreeInv, FlightOK
      <4>3. CASE \E k \in 1 .. Len(P) : flight'[i] = P[k]
        <5>1. HasNew(stream[1])
          BY <2>1, <2>11, <4>3
        <5> QED
          BY <2>5, <2>6, <4>1, <5>1
      <4> QED
        BY <2>4, <4>2, <4>3
    <3> QED
      BY <2>4, <3>1, <3>2
  <2>12. ASSUME NEW i \in 1 .. Len(flight'), New(flight'[i])
         PROVE  \A j \in 1 .. Len(stream') : ~HasOld(stream'[j])
    <3>1. CASE i \in 1 .. Len(flight) /\ flight'[i] = flight[i]
      BY <1>1, <1>6, <2>12, <3>1 DEF AgreeInv, FlightOK
    <3>2. CASE \E k \in 1 .. Len(P) : flight'[i] = P[k]
      <4>1. HasNew(stream[1])
        BY <2>1, <2>12, <3>2
      <4> QED
        BY <1>6, <2>6, <4>1
    <3> QED
      BY <2>4, <3>1, <3>2
  <2>13. ASSUME Pure, transcript # Extended(<<>>, Hello(conn))
         PROVE  /\ \A i \in 1 .. Len(flight') : ~Old(flight'[i])
                /\ \A i \in 1 .. Len(stream') : ~HasOld(stream'[i])
    <3>1. (\A i \in 1 .. Len(flight) : ~Old(flight[i])) /\ (\A i \in 1 .. Len(stream) : ~HasOld(stream[i]))
      BY <1>1, <2>13 DEF AgreeInv, FlightOK
    <3>2. ASSUME NEW i \in 1 .. Len(flight') PROVE ~Old(flight'[i])
      BY <2>1, <2>4, <2>5, <3>1
    <3> QED
      BY <1>6, <3>1, <3>2
  <2>14. FlightOK'
    <3>1. (\A i \in 1 .. Len(flight) : PartOK(flight[i]))'
      BY <1>1, <2>10 DEF PartOK, SaidBy
    <3>2. (\A i \in 1 .. Len(flight), j \in 1 .. Len(flight) : i <= j /\ New(flight[i]) => ~Old(flight[j]))'
      BY <1>1, <2>11 DEF New, Old
    <3>3. (\A j \in 1 .. Len(stream') : ~HasOld(stream'[j])) => (\A j \in 1 .. Len(stream) : ~HasOld(stream[j]))'
      BY <1>1 DEF HasOld, Old
    <3>4. (\E i \in 1 .. Len(flight) : New(flight[i]))' => \E i \in 1 .. Len(flight') : New(flight'[i])
      BY <1>1 DEF New
    <3>5. (\E i \in 1 .. Len(flight) : New(flight[i]))' => (\A j \in 1 .. Len(stream) : ~HasOld(stream[j]))'
      BY <2>12, <3>3, <3>4
    <3>6. Extended(<<>>, Hello(conn))' = Extended(<<>>, Hello(conn)) /\ (Pure' <=> Pure)
      BY <1>1 DEF Extended, Hello, Msg, TotalSize, TotalOf, Pure
    <3>7. (\A i \in 1 .. Len(flight') : ~Old(flight'[i])) => (\A i \in 1 .. Len(flight) : ~Old(flight[i]))'
      BY <1>1 DEF Old
    <3>8. (Pure /\ transcript # Extended(<<>>, Hello(conn)))' =>
             (\A i \in 1 .. Len(flight) : ~Old(flight[i]))' /\ (\A i \in 1 .. Len(stream) : ~HasOld(stream[i]))'
      BY <1>1, <2>13, <3>3, <3>6, <3>7
    <3> QED
      BY <3>1, <3>2, <3>5, <3>8 DEF FlightOK
  <2> QED
    BY <1>6, <2>7, <2>8, <2>9, <2>14 DEF AgreeInv
<1> QED
  BY <1>2, <1>8, <1>9

(* What a message of the flight may change of what the client has got.     *)
LEMMA AcceptedOnly ==
    ASSUME got \in GotType, NEW m \in MsgType, NEW g \in Accepted(m)
    PROVE  /\ g \in GotType /\ g.random \in {got.random, m.conn}
           /\ g.hello = TRUE => \/ got.hello = TRUE /\ g.suite = got.suite
                                \/ m.m = "hello" /\ g.suite = m.arg
           /\ g.cert # "none" => g.cert = got.cert \/ (m.m = "cert" /\ g.cert = m.arg)
           /\ g.ske = TRUE => got.ske = TRUE \/ (m.m = "ske" /\ m.arg = "signed")
<1>1. m.conn \in Nat /\ m.arg \in Text
  BY DEF MsgType
<1>2. CASE m.m = "hello"
  <2>1. g = [got EXCEPT !.hello = TRUE, !.random = m.conn, !.suite = m.arg]
    BY <1>2 DEF Accepted
  <2> QED
    BY <1>1, <1>2, <2>1 DEF GotType
<1>3. CASE m.m = "ske"
  <2>1. g = [got EXCEPT !.ske = TRUE] /\ m.arg = "signed"
    BY <1>3 DEF Accepted, Signed
  <2> QED
    BY <1>1, <1>3, <2>1 DEF GotType
<1>4. CASE m.m = "cert"
  <2>1. g = [got EXCEPT !.cert = m.arg]
    BY <1>4 DEF Accepted
  <2> QED
    BY <1>1, <1>4, <2>1 DEF GotType
<1>5. CASE m.m = "done"
  <2>1. g = [got EXCEPT !.done = TRUE]
    BY <1>5 DEF Accepted
  <2> QED
    BY <1>1, <1>5, <2>1 DEF GotType
<1>6. CASE m.m \notin {"hello", "ske", "cert", "done"}
  <2>1. g = got
    BY <1>6 DEF Accepted
  <2> QED
    BY <1>1, <2>1 DEF GotType
<1> QED
  BY <1>2, <1>3, <1>4, <1>5, <1>6

(* A message is taken from the flight: one of this connection is what its  *)
(* server has said, and one of an earlier connection leaves its mark on    *)
(* the transcript.                                                         *)
LEMMA WalkMessageAgrees == ASSUME AgreeInv, Inv', WalkMessage PROVE AgreeInv'
<1> DEFINE e == EndOfFirst
           m == flight[e].msg
<1>1. /\ UNCHANGED <<conn, stream, readSeq, resp, wire, server, clean, flaws>> /\ pc = "walk"
      /\ transcript' = Extended(transcript, m) /\ flight' = SubSeq(flight, e + 1, Len(flight))
      /\ \/ got' \in Accepted(m) /\ UNCHANGED <<pc, res>>
         \/ got' = got /\ pc' = "idle" /\ res' = FALSE
  BY DEF WalkMessage, Fail
<1>2. e \in DOMAIN flight /\ EndsFirst(e)
  BY DEF WalkMessage, WholeMessage, EndOfFirst
<1>3. /\ flight \in Seq(PartType) /\ transcript \in Seq(MsgType) /\ got \in GotType /\ conn \in Nat
      /\ TotalSize(transcript) <= TranscriptMax /\ TotalParts(flight) <= FlightMax
  BY DEF AgreeInv, VarsOK, TypeOK, Inv, TokensOK
<1>4. e \in 1 .. Len(flight) /\ Len(flight) \in Nat /\ flight[e] \in PartType
  BY <1>2, <1>3
<1>5. m \in MsgType /\ flight[e].last \in BOOLEAN
  BY <1>4 DEF PartType, MsgType
<1>6. flight[e].last = TRUE
  BY <1>2, <1>5 DEF EndsFirst
<1>7. m.conn \in Nat /\ m.size \in Nat /\ m.conn <= conn /\ m.size < TranscriptMax /\ (m.conn = conn => SaidBy(m))
  <2>1. PartOK(flight[e])
    BY <1>4 DEF AgreeInv, FlightOK
  <2> QED
    BY <1>5, <1>6, <2>1 DEF PartOK, MsgType
<1>8. (m.conn = conn => New(flight[e])) /\ (m.conn # conn => Old(flight[e]))
  BY <1>6 DEF New, Old
<1> HIDE DEF e, m
<1>9. /\ flight' \in Seq(PartType) /\ Len(flight') \in Nat
      /\ \A i \in 1 .. Len(flight') : i + e \in 1 .. Len(flight) /\ flight'[i] = flight[i + e]
  <2>1. \A i \in e + 1 .. Len(flight) : flight[i] \in PartType
    BY <1>3, <1>4
  <2>2. /\ flight' \in Seq(PartType)
        /\ Len(flight') = IF e + 1 <= Len(flight) THEN Len(flight) - (e + 1) + 1 ELSE 0
        /\ \A i \in 1 .. Len(flight) - (e + 1) + 1 : flight'[i] = flight[e + 1 + i - 1]
    BY <1>1, <1>3, <1>4, <2>1, SubSeqProperties
  <2> QED
    BY <1>4, <2>2
<1>10. TotalParts(flight') <= FlightMax
  <2>1. e \in 0 .. Len(flight)
    BY <1>4
  <2>2. TotalParts(flight) \in Nat /\ TotalParts(SubSeq(flight, e + 1, Len(flight))) <= TotalParts(flight)
    BY <1>3, <2>1, SizeOfParts
  <2>3. TotalParts(flight') \in Nat
    <3>1. 0 \in 0 .. Len(flight')
      BY <1>9
    <3> QED
      BY <1>9, <3>1, SizeOfParts
  <2>4. TotalParts(flight') <= TotalParts(flight) /\ FlightMax \in Nat
    BY <1>1, <2>2, TlsAssumption
  <2> QED
    BY <1>3, <2>2, <2>3, <2>4
<1>11. /\ transcript' \in Seq(MsgType) /\ TotalSize(transcript') <= TranscriptMax
       /\ transcript' \in {transcript, Append(transcript, m)}
       /\ TotalSize(transcript) + m.size <= TranscriptMax => transcript' = Append(transcript, m)
  BY <1>1, <1>3, <1>5, TranscriptGrows
<1>12. /\ \A i \in 1 .. Len(transcript) : i \in 1 .. Len(transcript') /\ transcript'[i] = transcript[i]
       /\ transcript' = Append(transcript, m) =>
             Len(transcript) + 1 \in 1 .. Len(transcript') /\ transcript'[Len(transcript) + 1] = m
  <2>1. Len(transcript) \in Nat
    BY <1>3
  <2>2. CASE transcript' = transcript
    <3>1. Len(Append(transcript, m)) = Len(transcript) + 1
      BY <1>3, <1>5, AppendProperties
    <3> QED
      BY <2>1, <2>2, <3>1
  <2>3. CASE transcript' = Append(transcript, m)
    <3>1. /\ Len(transcript') = Len(transcript) + 1 /\ transcript'[Len(transcript) + 1] = m
          /\ \A i \in 1 .. Len(transcript) : transcript'[i] = transcript[i]
      BY <1>3, <1>5, <2>3, AppendProperties
    <3> QED
      BY <2>1, <3>1
  <2> QED
    BY <1>11, <2>2, <2>3
<1>13. ASSUME Pure' PROVE Pure /\ m.conn = conn
  <2>1. Pure
    BY <1>1, <1>12, <1>13 DEF Pure
  <2>2. ASSUME m.conn # conn PROVE FALSE
    <3>1. Old(flight[e])
      BY <1>8, <2>2
    <3>2. transcript = Extended(<<>>, Hello(conn))
      BY <1>1, <1>4, <2>1, <3>1 DEF AgreeInv, FlightOK
    <3>3. TotalSize(transcript) <= 1 /\ TotalSize(transcript) \in Nat
      <4>1. TotalSize(transcript) <= 1
        BY <1>3, <3>2, HelloFirst
      <4>2. \A x \in MsgType : x.size \in Nat
        BY DEF MsgType
      <4>3. TotalSize(transcript) \in Nat
        BY <1>3, <1>5, <4>2, SizeGrows
      <4> QED
        BY <4>1, <4>3
    <3>4. TotalSize(transcript) + m.size <= TranscriptMax
      BY <1>7, <3>3, TlsAssumption
    <3>5. Len(transcript) + 1 \in 1 .. Len(transcript') /\ transcript'[Len(transcript) + 1] = m
      BY <1>11, <1>12, <3>4
    <3>6. m.conn = conn
      BY <1>1, <1>13, <3>5 DEF Pure
    <3> QED
      BY <2>2, <3>6
  <2> QED
    BY <2>1, <2>2
<1>14. /\ got' \in GotType /\ got'.random \in {got.random, m.conn}
       /\ got'.hello = TRUE => \/ got.hello = TRUE /\ got'.suite = got.suite
                               \/ m.m = "hello" /\ got'.suite = m.arg
       /\ got'.cert # "none" => got'.cert = got.cert \/ (m.m = "cert" /\ got'.cert = m.arg)
       /\ got'.ske = TRUE => got.ske = TRUE \/ (m.m = "ske" /\ m.arg = "signed")
  <2>1. CASE got' \in Accepted(m)
    BY <1>3, <1>5, <2>1, AcceptedOnly
  <2>2. CASE got' = got
    BY <1>3, <2>2
  <2> QED
    BY <1>1, <2>1, <2>2
<1>15. TypeOK'
  <2>1. TotalSize(transcript)' = TotalSize(transcript') /\ TotalParts(flight)' = TotalParts(flight')
    BY DEF TotalSize, TotalParts
  <2>2. RespSize' <= RespMax
    BY <1>1, RespStays
  <2>3. got'.random \in 0 .. conn
    <3>1. got.random \in 0 .. conn
      BY DEF AgreeInv, TypeOK
    <3> QED
      BY <1>3, <1>7, <1>14, <3>1
  <2>4. pc' \in {"walk", "idle"}
    BY <1>1
  <2>5. res' \in BOOLEAN
    BY <1>1 DEF AgreeInv, TypeOK
  <2> QED
    BY <1>1, <1>10, <1>11, <2>1, <2>2, <2>3, <2>4, <2>5 DEF AgreeInv, TypeOK
<1>16. VarsOK'
  BY <1>1, <1>9, <1>11, <1>14 DEF AgreeInv, VarsOK
<1>17. BufferOK'
  BY <1>1, BufferConsumed DEF AgreeInv
<1>18. GotIsSaid'
  <2>1. pc' \in {"walk", "idle"}
    BY <1>1
  <2>2. ASSUME Pure' PROVE AllSaid'
    <3>1. Pure /\ m.conn = conn /\ SaidBy(m)
      BY <1>7, <1>13, <2>2
    <3>2. AllSaid
      BY <1>1, <3>1 DEF AgreeInv, GotIsSaid
    <3>3. \A arg : (m.m = "hello" /\ arg = m.arg => Said("hello", arg)) /\ (m.m = "cert" /\ arg = m.arg => Said("cert", arg))
                   /\ (m.m = "ske" /\ arg = m.arg => Said("ske", arg))
      BY <3>1 DEF SaidBy, Said
    <3>4. got'.hello = TRUE => Said("hello", got'.suite)
      BY <1>14, <3>2, <3>3 DEF AllSaid
    <3>5. got'.cert # "none" => Said("cert", got'.cert)
      BY <1>14, <3>2, <3>3 DEF AllSaid
    <3>6. got'.ske = TRUE => Said("ske", "signed")
      BY <1>14, <3>2, <3>3 DEF AllSaid
    <3> QED
      BY <1>1, <3>4, <3>5, <3>6 DEF AllSaid, Said
  <2> QED
    BY <2>1, <2>2 DEF GotIsSaid
<1>19. FlightOK'
  <2>1. \A i \in 1 .. Len(flight') : PartOK(flight'[i])
    BY <1>9 DEF AgreeInv, FlightOK
  <2>2. ASSUME NEW i \in 1 .. Len(flight'), NEW j \in 1 .. Len(flight'), i <= j, New(flight'[i])
        PROVE  ~Old(flight'[j])
    <3>1. i + e <= j + e /\ i + e \in 1 .. Len(flight) /\ j + e \in 1 .. Len(flight)
          /\ flight'[i] = flight[i + e] /\ flight'[j] = flight[j + e]
      BY <1>4, <1>9, <2>2
    <3> QED
      BY <1>1, <2>2, <3>1 DEF AgreeInv, FlightOK
  <2>3. ASSUME NEW i \in 1 .. Len(flight'), New(flight'[i])
        PROVE  \A j \in 1 .. Len(stream) : ~HasOld(stream[j])
    BY <1>1, <1>9, <2>3 DEF AgreeInv, FlightOK
  <2>4. ASSUME Pure'
        PROVE  /\ \A i \in 1 .. Len(flight') : ~Old(flight'[i])
               /\ \A i \in 1 .. Len(stream) : ~HasOld(stream[i])
    <3>1. New(flight[e])
      BY <1>8, <1>13, <2>4
    <3>2. \A i \in 1 .. Len(stream) : ~HasOld(stream[i])
      BY <1>1, <1>4, <3>1 DEF AgreeInv, FlightOK
    <3>3. ASSUME NEW i \in 1 .. Len(flight') PROVE ~Old(flight'[i])
      <4>1. e <= i + e /\ i + e \in 1 .. Len(flight) /\ flight'[i] = flight[i + e]
        BY <1>4, <1>9
      <4> QED
        BY <1>1, <1>4, <3>1, <4>1 DEF AgreeInv, FlightOK
    <3> QED
      BY <3>2, <3>3
  <2>5. (\A i \in 1 .. Len(flight) : PartOK(flight[i]))'
    BY <1>1, <2>1 DEF PartOK, SaidBy
  <2>6. (\A i \in 1 .. Len(flight), j \in 1 .. Len(flight) : i <= j /\ New(flight[i]) => ~Old(flight[j]))'
    BY <1>1, <2>2 DEF New, Old
  <2>7. (\A j \in 1 .. Len(stream) : ~HasOld(stream[j])) => (\A j \in 1 .. Len(stream) : ~HasOld(stream[j]))'
    BY <1>1 DEF HasOld, Old
  <2>8. (\E i \in 1 .. Len(flight) : New(flight[i]))' => \E i \in 1 .. Len(flight') : New(flight'[i])
    BY <1>1 DEF New
  <2>9. (\E i \in 1 .. Len(flight) : New(flight[i]))' => (\A j \in 1 .. Len(stream) : ~HasOld(stream[j]))'
    BY <2>3, <2>7, <2>8
  <2>10. (\A i \in 1 .. Len(flight') : ~Old(flight'[i])) => (\A i \in 1 .. Len(flight) : ~Old(flight[i]))'
    BY <1>1 DEF Old
  <2>11. Pure' => (\A i \in 1 .. Len(flight) : ~Old(flight[i]))' /\ (\A i \in 1 .. Len(stream) : ~HasOld(stream[i]))'
    BY <2>4, <2>7, <2>10
  <2> QED
    BY <2>5, <2>6, <2>9, <2>11 DEF FlightOK
<1> QED
  BY <1>15, <1>16, <1>17, <1>18, <1>19 DEF AgreeInv

(* What a server has said it has said.                                     *)
LEMMA ServerGrows ==
    ASSUME conn' = conn,
           \A i \in 1 .. Len(server.transcript) :
              i \in 1 .. Len(server'.transcript) /\ server'.transcript[i] = server.transcript[i]
    PROVE  /\ \A p : PartOK(p) => PartOK(p)'
           /\ \A t : (TokenOK(t) => TokenOK(t)') /\ (HasNew(t)' <=> HasNew(t)) /\ (HasOld(t)' <=> HasOld(t))
           /\ got' = got => (AllSaid => AllSaid')
<1>1. \A p : PartOK(p) => PartOK(p)'
  BY DEF PartOK, SaidBy
<1>2. \A t : TokenOK(t) => TokenOK(t)'
  BY <1>1 DEF TokenOK
<1>3. \A t : (HasNew(t)' <=> HasNew(t)) /\ (HasOld(t)' <=> HasOld(t))
  BY DEF HasNew, HasOld, New, Old
<1>4. ASSUME NEW m, NEW arg, Said(m, arg) PROVE Said(m, arg)'
  BY <1>4 DEF Said
<1>5. got' = got => (AllSaid => AllSaid')
  <2> SUFFICES ASSUME got' = got, AllSaid PROVE AllSaid'
    OBVIOUS
  <2>1. (got.hello = TRUE => Said("hello", got.suite))'
    BY DEF AllSaid, Said
  <2>2. (got.cert # "none" => Said("cert", got.cert))'
    BY DEF AllSaid, Said
  <2>3. (got.ske = TRUE => Said("ske", "signed"))'
    BY DEF AllSaid, Said
  <2> QED
    BY <2>1, <2>2, <2>3 DEF AllSaid
<1> QED
  BY <1>1, <1>2, <1>3, <1>5

(* Records without a part of a message in the clear are put on the wire.   *)
LEMMA WireAgrees ==
    ASSUME AgreeInv, Inv', UNCHANGED <<conn, stream>>, NEW recs \in Seq(RecordType),
           wire' = wire \o Tokens(recs),
           \A i \in 1 .. Len(server.transcript) :
              i \in 1 .. Len(server'.transcript) /\ server'.transcript[i] = server.transcript[i],
           \A j \in 1 .. Len(recs) :
              \/ Len(recs[j].parts) = 0
              \/ recs[j].enc # 0 /\ \A i \in 1 .. Len(recs[j].parts) : recs[j].parts[i].msg.conn <= conn
    PROVE  BufferOK'
<1>1. stream \in Seq(TokenType) /\ wire \in Seq(TokenType)
  BY DEF AgreeInv, Inv, TokensOK
<1> DEFINE w == Tokens(recs)
<1>2. w \in Seq(TokenType) /\ \A i \in 1 .. Len(w) : \E j \in 1 .. Len(recs) : w[i][1] = recs[j]
  BY TokensOf
<1> HIDE DEF w
<1>3. ASSUME NEW i \in 1 .. Len(w) PROVE TokenOK(w[i]) /\ ~HasOld(w[i])
  <2>1. PICK j \in 1 .. Len(recs) : w[i][1] = recs[j]
    BY <1>2
  <2>2. CASE Len(recs[j].parts) = 0
    <3>1. Len(w[i][1].parts) = 0
      BY <2>1, <2>2
    <3>2. \A x \in 1 .. Len(w[i][1].parts) : FALSE
      BY <3>1
    <3> QED
      BY <3>2 DEF TokenOK, HasOld
  <2>3. CASE recs[j].enc # 0 /\ \A x \in 1 .. Len(recs[j].parts) : recs[j].parts[x].msg.conn <= conn
    BY <2>1, <2>3 DEF TokenOK, HasOld
  <2> QED
    BY <2>2, <2>3
<1>4. \A i \in 1 .. Len(wire') : \/ \E k \in 1 .. Len(wire) : wire'[i] = wire[k]
                                 \/ \E k \in 1 .. Len(w) : wire'[i] = w[k]
  <2>1. /\ wire \o w \in Seq(TokenType) /\ Len(wire \o w) = Len(wire) + Len(w)
        /\ \A i \in 1 .. Len(wire) + Len(w) :
              (wire \o w)[i] = IF i <= Len(wire) THEN wire[i] ELSE w[i - Len(wire)]
    BY <1>1, <1>2, ConcatProperties
  <2>2. wire' = wire \o w /\ Len(wire) \in Nat /\ Len(w) \in Nat
    BY <1>1, <1>2 DEF w
  <2>3. ASSUME NEW i \in 1 .. Len(wire')
        PROVE  (\E k \in 1 .. Len(wire) : wire'[i] = wire[k]) \/ (\E k \in 1 .. Len(w) : wire'[i] = w[k])
    <3>1. CASE i <= Len(wire)
      <4>1. i \in 1 .. Len(wire) /\ wire'[i] = wire[i]
        BY <2>1, <2>2, <3>1
      <4> QED
        BY <4>1
    <3>2. CASE ~(i <= Len(wire))
      <4>1. i - Len(wire) \in 1 .. Len(w) /\ wire'[i] = w[i - Len(wire)]
        BY <2>1, <2>2, <3>2
      <4> QED
        BY <4>1
    <3> QED
      BY <3>1, <3>2
  <2> QED
    BY <2>3
<1>5. \A t : (TokenOK(t) => TokenOK(t)') /\ (HasNew(t)' <=> HasNew(t)) /\ (HasOld(t)' <=> HasOld(t))
  BY ServerGrows
<1>6. \A i \in 1 .. Len(wire') : TokenOK(wire'[i]) /\ ~HasOld(wire'[i])
  BY <1>3, <1>4 DEF AgreeInv, BufferOK
<1>7. \A m : SaidBy(m) => SaidBy(m)'
  BY DEF SaidBy
<1>8. (\A i \in 1 .. Len(stream) : TokenOK(stream[i]))'
  BY <1>7 DEF AgreeInv, BufferOK, TokenOK, PartOK
<1>9. (\A i \in 1 .. Len(wire) : TokenOK(wire[i]))'
  BY <1>6, <1>7 DEF TokenOK, PartOK
<1>10. (\A i \in 1 .. Len(wire) : ~HasOld(wire[i]))'
  BY <1>6 DEF HasOld, Old
<1>11. (\A i \in 1 .. Len(stream), j \in 1 .. Len(stream) : i <= j /\ HasNew(stream[i]) => ~HasOld(stream[j]))'
  <2> SUFFICES ASSUME NEW i \in 1 .. Len(stream'), NEW j \in 1 .. Len(stream'), i <= j, HasNew(stream[i])'
               PROVE  ~HasOld(stream[j])'
    OBVIOUS
  <2>1. HasNew(stream'[i])
    BY DEF HasNew, New
  <2>2. ~HasOld(stream'[j])
    BY <2>1 DEF AgreeInv, BufferOK
  <2> QED
    BY <2>2 DEF HasOld, Old
<1> QED
  BY <1>8, <1>9, <1>10, <1>11 DEF BufferOK

(* The request is sent.                                                    *)
LEMMA SendRequestAgrees == ASSUME AgreeInv, Inv', SendRequest PROVE AgreeInv'
<1> DEFINE n == Len(server.reply)
           data == [i \in DOMAIN server.reply |-> Sealed(conn, i, "data", <<>>, server.reply[i])]
           last == Sealed(conn, n + 1, "alert", <<>>, 1)
           recs == data \o <<last>>
<1>1. /\ pc = "request" /\ pc' = "body" /\ wire' = wire \o Tokens(recs)
      /\ UNCHANGED <<conn, stream, flight, got, transcript, readSeq, resp, res, server, clean, flaws>>
  BY DEF SendRequest
<1>2. conn \in Nat /\ server.reply \in Seq(Nat) /\ n \in Nat
  BY <1>1 DEF AgreeInv, Inv, TokensOK
<1>3. \A i \in 1 .. n : /\ Sealed(conn, i, "data", <<>>, server.reply[i]) \in RecordType
                        /\ Sealed(conn, i, "data", <<>>, server.reply[i]).parts = <<>>
  <2>1. \A i \in 1 .. n : server.reply[i] \in Nat
    BY <1>2
  <2> QED
    BY <1>2, <2>1, EmptyParts DEF Sealed, RecordType, Text
<1>4. data \in Seq(RecordType) /\ Len(data) = n /\ \A i \in 1 .. n : data[i].parts = <<>>
  <2>1. DOMAIN server.reply = 1 .. n
    BY <1>2
  <2> QED
    BY <1>2, <1>3, <2>1
<1>5. last \in RecordType /\ last.parts = <<>>
  BY <1>2, EmptyParts DEF Sealed, RecordType, Text
<1> HIDE DEF data, last
<1>6. <<last>> \in Seq(RecordType) /\ Len(<<last>>) = 1 /\ <<last>>[1] = last
  BY <1>5
<1>7. /\ recs \in Seq(RecordType) /\ Len(recs) = n + 1
      /\ \A i \in 1 .. n + 1 : recs[i] = IF i <= n THEN data[i] ELSE last
  <2>1. data \in Seq(RecordType) /\ <<last>> \in Seq(RecordType)
    BY <1>4, <1>6
  <2>2. /\ recs \in Seq(RecordType) /\ Len(recs) = Len(data) + Len(<<last>>)
        /\ \A i \in 1 .. Len(data) + Len(<<last>>) :
              recs[i] = IF i <= Len(data) THEN data[i] ELSE <<last>>[i - Len(data)]
    BY <2>1, ConcatProperties
  <2> HIDE DEF recs
  <2> QED
    BY <1>2, <1>4, <1>6, <2>2
<1> HIDE DEF recs
<1>8. \A j \in 1 .. Len(recs) : Len(recs[j].parts) = 0
  <2>1. \A j \in 1 .. Len(recs) : recs[j].parts = <<>>
    BY <1>2, <1>4, <1>5, <1>7
  <2> QED
    BY <2>1
<1>9. BufferOK'
  BY <1>1, <1>7, <1>8, WireAgrees
<1>10. pc' \in Places /\ readSeq' \in Nat /\ Len(stream') <= StreamMax
  BY <1>1 DEF AgreeInv, Inv, NumbersOK, TypeOK, Places
<1>11. res' \in BOOLEAN /\ flaws' \subseteq Flaws /\ RespSize' <= RespMax
  BY <1>1, RespStays DEF AgreeInv, TypeOK, Flaws
<1>12. TypeOK'
  BY <1>1, <1>10, <1>11, TypeFrame
<1>13. VarsOK' /\ FlightOK' /\ GotIsSaid'
  BY <1>1, <1>9, CalmStep
<1> QED
  BY <1>9, <1>12, <1>13 DEF AgreeInv

(* A record of the response                                                *)
LEMMA RecvBodyAgrees == ASSUME AgreeInv, Inv', RecvBody PROVE AgreeInv'
<1>1. /\ pc = "body" /\ Complete /\ Consume /\ readSeq' = readSeq + 1 /\ pc' \in {"body", "extract"}
      /\ UNCHANGED <<conn, flight, got, transcript, res, wire, server, clean>>
  BY DEF RecvBody
<1>2. flaws' \subseteq Flaws
  <2>1. flaws' \subseteq flaws \cup {"skipped", "record"}
    BY DEF RecvBody
  <2> QED
    BY <2>1 DEF AgreeInv, TypeOK, Flaws
<1>3. RespSize' <= RespMax
  <2>1. resp' = resp \/ (Room /\ resp' = Append(resp, First))
    BY DEF RecvBody
  <2>2. First \in RecordType /\ resp \in Seq(RecordType)
    BY <1>1, ConsumeKeeps DEF AgreeInv, Inv, NumbersOK
  <2>3. CASE resp' = resp
    BY <2>3, RespStays
  <2>4. CASE Room /\ resp' = Append(resp, First)
    <3>1. \A x \in RecordType : x.size \in Nat
      BY DEF RecordType
    <3>2. TotalSize(Append(resp, First)) = TotalSize(resp) + First.size
      BY <2>2, <3>1, SizeGrows
    <3>3. RespSize = TotalSize(resp)
      BY DEF RespSize, TotalSize
    <3>4. RespSize' = TotalSize(resp')
      BY DEF RespSize, TotalSize
    <3> QED
      BY <2>4, <3>2, <3>3, <3>4 DEF Room
  <2> QED
    BY <2>1, <2>3, <2>4
<1>4. /\ BufferOK' /\ Len(stream') <= Len(stream)
      /\ (\A j \in 1 .. Len(stream) : ~HasOld(stream[j])) => \A j \in 1 .. Len(stream') : ~HasOld(stream'[j])
  BY <1>1, BufferConsumed DEF AgreeInv
<1>5. Len(stream') <= StreamMax
  <2>1. TokensOK /\ TokensOK' /\ TypeOK
    BY DEF AgreeInv, Inv
  <2>2. Len(stream) \in Nat /\ Len(stream') \in Nat
    BY <2>1 DEF TokensOK
  <2>3. StreamMax \in Nat /\ Len(stream) <= StreamMax
    BY <2>1, TlsAssumption DEF TypeOK
  <2> QED
    BY <1>4, <2>2, <2>3
<1>6. pc' \in Places /\ readSeq' \in Nat /\ res' \in BOOLEAN
  BY <1>1 DEF AgreeInv, Inv, NumbersOK, TypeOK, Places
<1>7. TypeOK'
  BY <1>1, <1>2, <1>3, <1>5, <1>6, TypeFrame
<1>8. VarsOK' /\ FlightOK' /\ GotIsSaid'
  BY <1>1, <1>4, CalmStep
<1> QED
  BY <1>4, <1>7, <1>8 DEF AgreeInv

(* The checks have passed.  The server goes on only if its transcript is   *)
(* the client's, and then nothing in the client's is of another            *)
(* connection.                                                             *)
LEMMA SendFinishedAgrees == ASSUME AgreeInv, Inv', SendFinished PROVE AgreeInv'
<1> DEFINE ke == KeyExchange(conn)
           fin == Finished(conn, "client")
           upTo == Extended(transcript, ke)
           theirs == Append(server.transcript, ke)
           part == [msg |-> Finished(conn, "server"), last |-> TRUE]
           yes == <<Clear("ccs", <<>>), Sealed(conn, 0, "handshake", <<part>>, 1)>>
           no == <<Clear("alert", <<>>)>>
           recs == IF upTo = theirs THEN yes ELSE no
<1>1. /\ pc = "check" /\ pc' = "ccs" /\ wire' = wire \o Tokens(recs)
      /\ server' = [server EXCEPT !.done = (upTo = theirs), !.transcript = Append(theirs, fin)]
      /\ transcript' = Extended(upTo, fin)
      /\ UNCHANGED <<conn, stream, flight, got, readSeq, resp, res, clean, flaws>>
  BY DEF SendFinished
<1>2. /\ conn \in Nat /\ conn # 0 /\ transcript \in Seq(MsgType) /\ server.transcript \in Seq(MsgType)
      /\ \A i \in 1 .. Len(server.transcript) : server.transcript[i].conn = conn
      /\ TotalSize(transcript) <= TranscriptMax
  BY <1>1 DEF AgreeInv, Inv, TokensOK, VarsOK, TypeOK
<1>3. ke \in MsgType /\ fin \in MsgType /\ ke.conn = conn /\ fin.conn = conn
  BY <1>2 DEF KeyExchange, Finished, Msg, MsgType, Text
<1>4. part \in PartType /\ part.msg.conn = conn
  <2>1. /\ Finished(conn, "server") \in [conn : Nat, m : Text, arg : Text, size : Nat]
        /\ Finished(conn, "server").conn = conn
    BY <1>2 DEF Finished, Msg, Text
  <2>2. TRUE \in BOOLEAN
    OBVIOUS
  <2>3. part \in PartType
    BY <2>1, <2>2, Zenon DEF PartType
  <2>4. part.msg.conn = conn
    BY <2>1
  <2> QED
    BY <2>3, <2>4
<1> HIDE DEF ke, fin, part, upTo, theirs
<1>5. /\ yes \in Seq(RecordType) /\ Len(yes) = 2 /\ Len(yes[1].parts) = 0
      /\ yes[2].enc # 0 /\ \A i \in 1 .. Len(yes[2].parts) : yes[2].parts[i].msg.conn <= conn
  <2>1. <<part>> \in Seq(PartType)
    BY <1>4
  <2>2. Sealed(conn, 0, "handshake", <<part>>, 1) \in RecordType /\ Clear("ccs", <<>>) \in RecordType
    BY <1>2, <2>1, EmptyParts DEF Sealed, Clear, RecordType, Text
  <2>3. /\ Sealed(conn, 0, "handshake", <<part>>, 1).enc = conn
        /\ Sealed(conn, 0, "handshake", <<part>>, 1).parts = <<part>>
        /\ Clear("ccs", <<>>).parts = <<>>
    BY DEF Sealed, Clear
  <2>4. \A i \in 1 .. Len(<<part>>) : <<part>>[i].msg.conn <= conn
    BY <1>2, <1>4
  <2>5. Len(Clear("ccs", <<>>).parts) = 0
    BY <2>3
  <2> DEFINE r1 == Clear("ccs", <<>>)
             r2 == Sealed(conn, 0, "handshake", <<part>>, 1)
  <2>6. /\ r1 \in RecordType /\ r2 \in RecordType /\ Len(r1.parts) = 0 /\ r2.enc # 0
        /\ \A i \in 1 .. Len(r2.parts) : r2.parts[i].msg.conn <= conn
    BY <1>2, <2>2, <2>3, <2>4, <2>5
  <2>7. yes = <<r1, r2>>
    OBVIOUS
  <2> HIDE DEF r1, r2, yes
  <2> QED
    BY <2>6, <2>7
<1>6. no \in Seq(RecordType) /\ Len(no) = 1 /\ Len(no[1].parts) = 0
  <2>1. Clear("alert", <<>>) \in RecordType /\ Clear("alert", <<>>).parts = <<>>
    BY EmptyParts DEF Clear, RecordType, Text
  <2>2. Len(Clear("alert", <<>>).parts) = 0
    BY <2>1
  <2> DEFINE r == Clear("alert", <<>>)
  <2>3. r \in RecordType /\ Len(r.parts) = 0 /\ no = <<r>>
    BY <2>1, <2>2
  <2> HIDE DEF r, no
  <2> QED
    BY <2>3
<1> HIDE DEF yes, no
<1>7. /\ recs \in Seq(RecordType)
      /\ \A j \in 1 .. Len(recs) :
            \/ Len(recs[j].parts) = 0
            \/ recs[j].enc # 0 /\ \A i \in 1 .. Len(recs[j].parts) : recs[j].parts[i].msg.conn <= conn
  <2>1. CASE recs = yes
    <3> HIDE DEF recs
    <3>1. \A j \in 1 .. Len(recs) : j = 1 \/ j = 2
      BY <1>5, <2>1
    <3> QED
      BY <1>5, <2>1, <3>1
  <2>2. CASE recs = no
    <3> HIDE DEF recs
    <3>1. \A j \in 1 .. Len(recs) : j = 1
      <4>1. Len(recs) = 1
        BY <1>6, <2>2
      <4> QED
        BY <4>1
    <3> QED
      BY <1>6, <2>2, <3>1
  <2> QED
    BY <2>1, <2>2
<1> HIDE DEF recs
<1>8. /\ server'.transcript = Append(theirs, fin)
      /\ server'.done = (upTo = theirs)
  BY <1>1 DEF AgreeInv, Inv, TokensOK
<1>9. /\ theirs \in Seq(MsgType) /\ Len(theirs) = Len(server.transcript) + 1
      /\ theirs[Len(server.transcript) + 1] = ke
      /\ \A i \in 1 .. Len(server.transcript) : theirs[i] = server.transcript[i]
  <2>1. theirs = Append(server.transcript, ke)
    BY DEF theirs
  <2> QED
    BY <1>2, <1>3, <2>1, AppendProperties
<1>10. /\ server'.transcript \in Seq(MsgType) /\ Len(server'.transcript) = Len(theirs) + 1
       /\ server'.transcript[Len(theirs) + 1] = fin
       /\ \A i \in 1 .. Len(theirs) : server'.transcript[i] = theirs[i]
  BY <1>3, <1>8, <1>9, AppendProperties
<1>11. Len(server.transcript) \in Nat /\ Len(theirs) \in Nat
  BY <1>2, <1>9
<1>12. \A i \in 1 .. Len(server.transcript) :
          i \in 1 .. Len(server'.transcript) /\ server'.transcript[i] = server.transcript[i]
  BY <1>9, <1>10, <1>11
<1>13. \A i \in 1 .. Len(theirs) : theirs[i].conn = conn
  <2>1. ASSUME NEW i \in 1 .. Len(theirs) PROVE theirs[i].conn = conn
    <3>1. CASE i = Len(server.transcript) + 1
      BY <1>3, <1>9, <3>1
    <3>2. CASE i # Len(server.transcript) + 1
      <4>1. i \in 1 .. Len(server.transcript)
        BY <1>9, <1>11, <3>2
      <4> QED
        BY <1>2, <1>9, <4>1
    <3> QED
      BY <3>1, <3>2
  <2> QED
    BY <2>1
<1>14. \A i \in 1 .. Len(server'.transcript) : server'.transcript[i].conn = conn
  <2>1. ASSUME NEW i \in 1 .. Len(server'.transcript) PROVE server'.transcript[i].conn = conn
    <3>1. CASE i = Len(theirs) + 1
      BY <1>3, <1>10, <3>1
    <3>2. CASE i # Len(theirs) + 1
      <4>1. i \in 1 .. Len(theirs)
        BY <1>10, <1>11, <3>2
      <4> QED
        BY <1>10, <1>13, <4>1
    <3> QED
      BY <3>1, <3>2
  <2> QED
    BY <2>1
<1>15. /\ upTo \in Seq(MsgType) /\ TotalSize(upTo) <= TranscriptMax /\ upTo \in {transcript, Append(transcript, ke)}
  <2>1. upTo = Extended(transcript, ke)
    BY DEF upTo
  <2> QED
    BY <1>2, <1>3, <2>1, TranscriptGrows
<1>16. transcript' \in Seq(MsgType) /\ TotalSize(transcript') <= TranscriptMax
  BY <1>1, <1>3, <1>15, TranscriptGrows
<1>17. ASSUME upTo = theirs PROVE Pure
  <2>1. \A i \in 1 .. Len(transcript) : i \in 1 .. Len(upTo) /\ upTo[i] = transcript[i]
    <3>1. CASE upTo = transcript
      BY <3>1
    <3>2. CASE upTo = Append(transcript, ke)
      <4>1. Len(upTo) = Len(transcript) + 1 /\ Len(transcript) \in Nat
            /\ \A i \in 1 .. Len(transcript) : upTo[i] = transcript[i]
        BY <1>2, <1>3, <3>2, AppendProperties
      <4> QED
        BY <4>1
    <3> QED
      BY <1>15, <3>1, <3>2
  <2> QED
    BY <1>13, <1>17, <2>1 DEF Pure
<1>18. BufferOK'
  BY <1>1, <1>7, <1>12, WireAgrees
<1>19. TypeOK'
  <2>1. TotalSize(transcript)' = TotalSize(transcript') /\ TotalParts(flight)' = TotalParts(flight)
    BY <1>1 DEF TotalSize, TotalParts
  <2>2. RespSize' <= RespMax
    BY <1>1, RespStays
  <2> QED
    BY <1>1, <1>16, <2>1, <2>2 DEF AgreeInv, TypeOK
<1>20. VarsOK'
  BY <1>1, <1>10, <1>14, <1>16 DEF AgreeInv, VarsOK
<1>21. FlightOK'
  <2>1. \A m : SaidBy(m) => SaidBy(m)'
    BY <1>12 DEF SaidBy
  <2>2. (\A i \in 1 .. Len(flight) : PartOK(flight[i]))'
    BY <1>1, <2>1 DEF AgreeInv, FlightOK, PartOK
  <2> QED
    BY <1>1, <2>2 DEF FlightOK
<1>22. GotIsSaid'
  <2>1. ASSUME server'.done = TRUE PROVE AllSaid'
    <3>1. Pure
      BY <1>8, <1>17, <2>1
    <3>2. AllSaid
      BY <1>1, <3>1 DEF AgreeInv, GotIsSaid
    <3> QED
      BY <1>1, <1>12, <3>2, ServerGrows
  <2> QED
    BY <1>1, <2>1 DEF GotIsSaid
<1> QED
  BY <1>18, <1>19, <1>20, <1>21, <1>22 DEF AgreeInv

(* A connection begins: what is left in the buffer is of earlier ones.     *)
LEMMA OpenAgrees ==
    ASSUME AgreeInv, conn' = conn + 1, stream' = stream
    PROVE  /\ \A i \in 1 .. Len(stream') : TokenOK(stream[i])'
           /\ \A i \in 1 .. Len(stream') : ~HasNew(stream[i])'
<1>1. conn \in Nat /\ stream \in Seq(TokenType)
  BY DEF AgreeInv, Inv, TokensOK
<1>2. ASSUME NEW i \in 1 .. Len(stream), NEW j \in 1 .. Len(stream[i][1].parts)
      PROVE  /\ stream[i][1].parts[j].msg.conn <= conn' /\ stream[i][1].parts[j].msg.conn # conn'
             /\ stream[i][1].enc = 0 /\ stream[i][1].parts[j].last = TRUE =>
                   stream[i][1].parts[j].msg.size < TranscriptMax
  <2> DEFINE p == stream[i][1].parts[j]
  <2>1. TokenOK(stream[i])
    BY DEF AgreeInv, BufferOK
  <2>2. p.msg.conn <= conn /\ (stream[i][1].enc = 0 /\ p.last = TRUE => p.msg.size < TranscriptMax)
    BY <2>1 DEF TokenOK, PartOK
  <2>3. p.msg.conn \in Nat
    <3>1. stream[i] \in TokenType
      BY <1>1
    <3>2. stream[i][1].parts \in Seq(PartType)
      BY <3>1 DEF TokenType, RecordType
    <3>3. p \in PartType
      BY <3>2
    <3> QED
      BY <3>3 DEF PartType
  <2> HIDE DEF p
  <2>4. p.msg.conn <= conn' /\ p.msg.conn # conn'
    BY <1>1, <2>2, <2>3
  <2> QED
    BY <2>2, <2>4 DEF p
<1>3. ASSUME NEW i \in 1 .. Len(stream') PROVE TokenOK(stream[i])'
  BY <1>2 DEF TokenOK, PartOK
<1>4. ASSUME NEW i \in 1 .. Len(stream') PROVE ~HasNew(stream[i])'
  BY <1>2 DEF HasNew, New
<1> QED
  BY <1>3, <1>4

(* There is room for everything in the beginning.                          *)
LEMMA OpenType ==
    ASSUME AgreeInv, Open(conn + 1), conn < MaxCalls, pc' \in {"idle", "flight"}, res' = FALSE, flaws' \subseteq Flaws,
           TotalSize(transcript') <= TranscriptMax
    PROVE  TypeOK' /\ flight' \in Seq(PartType) /\ got' \in GotType
<1>1. /\ conn' = conn + 1 /\ got' = NoneGot /\ readSeq' = 0 /\ resp' = <<>> /\ flight' = <<>>
      /\ clean' = (stream = <<>>) /\ stream' = stream
  BY DEF Open
<1>2. conn \in 0 .. MaxCalls /\ MaxCalls \in Nat /\ FlightMax \in Nat /\ RespMax \in Nat
  BY TlsAssumption DEF AgreeInv, TypeOK
<1>3. NoneGot \in GotType /\ NoneGot.random = 0
  BY DEF NoneGot, GotType, Text
<1>4. TotalParts(flight)' = 0
  <2>1. <<>> \in Seq(PartType) /\ 0 \in 0 .. Len(<<>>)
    OBVIOUS
  <2>2. TotalParts(<<>>) = 0
    BY <2>1, SizeOfParts
  <2>3. TotalParts(flight)' = TotalParts(flight')
    BY DEF TotalParts
  <2> QED
    BY <1>1, <2>2, <2>3
<1>5. RespSize' = 0
  <2>1. \A x \in Nat : Hello(x) \in MsgType
    BY DEF Hello, Msg, MsgType, Text
  <2>2. Hello(0) \in MsgType /\ <<>> \in Seq(MsgType) /\ \A x \in MsgType : x.size \in Nat
    BY <2>1 DEF MsgType
  <2>3. TotalSize(<<>>) = 0
    BY <2>2, SizeGrows
  <2>4. RespSize' = TotalSize(resp')
    BY DEF RespSize, TotalSize
  <2> QED
    BY <1>1, <2>3, <2>4
<1>6. TotalSize(transcript)' <= TranscriptMax
  BY DEF TotalSize
<1>7. clean' \in BOOLEAN
  BY <1>1
<1>8. conn' \in 0 .. MaxCalls /\ got'.random \in 0 .. conn'
  BY <1>1, <1>2, <1>3
<1>9. Len(stream') <= StreamMax
  BY <1>1 DEF AgreeInv, TypeOK
<1>10. TypeOK'
  <2>1. res' \in BOOLEAN /\ readSeq' \in Nat
    BY <1>1
  <2>2. TotalParts(flight)' <= FlightMax /\ RespSize' <= RespMax
    BY <1>2, <1>4, <1>5
  <2> QED
    BY <1>6, <1>7, <1>8, <1>9, <2>1, <2>2 DEF TypeOK, Flaws
<1> QED
  BY <1>1, <1>3, <1>10

(* The ClientHello is sent and the server answers, or there is no          *)
(* connection.                                                             *)
LEMMA ConnectAgrees == ASSUME MessagesFit, AgreeInv, Inv', Connect PROVE AgreeInv'
<1> DEFINE k == conn + 1
           h == Hello(k)
<1>1. /\ Open(k) /\ pc' = "flight" /\ res' = FALSE /\ flaws' = {} /\ conn < MaxCalls
      /\ transcript' = Extended(<<>>, h)
  BY DEF Connect
<1>2. PICK s \in Servers :
          /\ wire' = Tokens(FlightOf(s, k))
          /\ server' = [name |-> s.name, flight |-> s.flight, reply |-> s.reply, done |-> FALSE,
                        transcript |-> <<h>> \o SentMessages(k, s)]
  BY DEF Connect
<1>3. conn \in Nat /\ k \in Nat
  BY DEF AgreeInv, Inv, TokensOK
<1>4. /\ conn' = k /\ got' = NoneGot /\ flight' = <<>> /\ stream' = stream
  BY <1>1 DEF Open
<1>5. /\ transcript' \in Seq(MsgType) /\ TotalSize(transcript') <= TranscriptMax /\ h \in MsgType
  BY <1>1, <1>3, HelloFirst
<1>6. TypeOK' /\ flight' \in Seq(PartType) /\ got' \in GotType
  BY <1>1, <1>5, OpenType
<1> DEFINE F == FlightOf(s, k)
           M == SentMessages(k, s)
<1>7. /\ M \in Seq(MsgType) /\ (\A n \in 1 .. Len(M) : M[n].conn = k)
      /\ \A i \in 1 .. Len(F) : \A j \in 1 .. Len(F[i].parts) :
            /\ F[i].parts[j].msg.conn = k /\ F[i].parts[j].msg.size < TranscriptMax
            /\ F[i].parts[j].last = TRUE => \E n \in 1 .. Len(M) : M[n] = F[i].parts[j].msg
  <2> HIDE DEF k
  <2>1. M = SentMessages(k, s) /\ F = FlightOf(s, k)
    OBVIOUS
  <2> HIDE DEF M, F
  <2>2. M \in Seq(MsgType) /\ (\A n \in 1 .. Len(M) : M[n].conn = k) /\ Speaks(k, F, M)
    BY <1>3, <2>1, FlightSaid
  <2> QED
    BY <2>2 DEF Speaks
<1>8. F \in Seq(RecordType) /\ \A j \in 1 .. Len(F) : F[j].enc = 0
  BY <1>3, FlightInClear
<1>9. \A i \in 1 .. Len(wire') : \E j \in 1 .. Len(F) : wire'[i][1] = F[j]
  <2>1. wire' = Tokens(F)
    BY <1>2
  <2> HIDE DEF F
  <2> QED
    BY <1>8, <2>1, TokensOf
<1>10. h.conn = k
  BY DEF Hello, Msg
<1>11. server'.transcript = <<h>> \o M
  BY <1>2
<1> HIDE DEF h, F, M
<1>12. /\ server'.transcript \in Seq(MsgType)
       /\ \A i \in 1 .. Len(server'.transcript) : server'.transcript[i].conn = k
       /\ \A n \in 1 .. Len(M) : \E i \in 1 .. Len(server'.transcript) : server'.transcript[i] = M[n]
  <2> DEFINE t == <<h>> \o M
  <2>1. <<h>> \in Seq(MsgType) /\ Len(<<h>>) = 1 /\ <<h>>[1] = h /\ Len(M) \in Nat
    BY <1>5, <1>7
  <2>2. /\ t \in Seq(MsgType) /\ Len(t) = Len(<<h>>) + Len(M)
        /\ \A i \in 1 .. Len(<<h>>) + Len(M) : t[i] = IF i <= Len(<<h>>) THEN <<h>>[i] ELSE M[i - Len(<<h>>)]
    BY <1>7, <2>1, ConcatProperties
  <2> HIDE DEF t
  <2>3. Len(t) = 1 + Len(M) /\ \A i \in 1 .. 1 + Len(M) : t[i] = IF i <= 1 THEN h ELSE M[i - 1]
    BY <2>1, <2>2
  <2>4. ASSUME NEW i \in 1 .. Len(t) PROVE t[i].conn = k
    <3>1. CASE i = 1
      BY <1>10, <2>1, <2>3, <3>1
    <3>2. CASE i # 1
      <4>1. i - 1 \in 1 .. Len(M) /\ t[i] = M[i - 1]
        BY <2>1, <2>3, <3>2
      <4> QED
        BY <1>7, <4>1
    <3> QED
      BY <3>1, <3>2
  <2>5. ASSUME NEW n \in 1 .. Len(M) PROVE \E i \in 1 .. Len(t) : t[i] = M[n]
    <3>1. n + 1 \in 1 .. Len(t) /\ t[n + 1] = M[n]
      BY <2>1, <2>3
    <3> QED
      BY <3>1
  <2>6. server'.transcript = t
    BY <1>11 DEF t
  <2> QED
    BY <2>2, <2>4, <2>5, <2>6
<1>13. VarsOK'
  BY <1>4, <1>5, <1>6, <1>12 DEF VarsOK
<1>14. BufferOK'
  <2>1. (\A i \in 1 .. Len(stream) : TokenOK(stream[i]))' /\ \A i \in 1 .. Len(stream') : ~HasNew(stream[i])'
    BY <1>4, OpenAgrees
  <2>2. (\A i \in 1 .. Len(stream), j \in 1 .. Len(stream) : i <= j /\ HasNew(stream[i]) => ~HasOld(stream[j]))'
    BY <2>1
  <2>3. ASSUME NEW i \in 1 .. Len(wire')
        PROVE  TokenOK(wire[i])' /\ ~HasOld(wire[i])'
    <3>1. PICK j \in 1 .. Len(F) : wire'[i][1] = F[j]
      BY <1>9
    <3>2. \A x \in 1 .. Len(F[j].parts) :
             /\ F[j].parts[x].msg.conn = k /\ F[j].parts[x].msg.size < TranscriptMax
             /\ F[j].parts[x].last = TRUE =>
                   \E n \in 1 .. Len(server'.transcript) : server'.transcript[n] = F[j].parts[x].msg
      BY <1>7, <1>12
    <3>3. k <= k
      BY <1>3
    <3>4. TokenOK(wire[i])'
      <4> HIDE DEF k
      <4> QED
        BY <1>4, <3>1, <3>2, <3>3 DEF TokenOK, PartOK, SaidBy
    <3>5. ~HasOld(wire[i])'
      <4> HIDE DEF k
      <4> QED
        BY <1>4, <3>1, <3>2 DEF HasOld, Old
    <3> QED
      BY <3>4, <3>5
  <2> QED
    BY <2>1, <2>2, <2>3 DEF BufferOK
<1>15. FlightOK'
  <2>1. Len(flight') = 0
    BY <1>4
  <2>2. \A i \in 1 .. Len(flight') : FALSE
    BY <2>1
  <2>3. (transcript = Extended(<<>>, Hello(conn)))'
    <3>1. transcript' = Extended(<<>>, Hello(conn'))
      BY <1>1, <1>4 DEF h
    <3> QED
      BY <3>1 DEF Extended, Hello, Msg, TotalSize, TotalOf
  <2> QED
    BY <2>2, <2>3 DEF FlightOK
<1>16. GotIsSaid'
  <2>1. AllSaid'
    BY <1>4 DEF AllSaid, NoneGot
  <2> QED
    BY <2>1 DEF GotIsSaid
<1> QED
  BY <1>6, <1>13, <1>14, <1>15, <1>16 DEF AgreeInv

(* There is no connection.                                                 *)
LEMMA ConnectFailsAgrees == ASSUME AgreeInv, Inv', ConnectFails PROVE AgreeInv'
<1>1. /\ Open(conn + 1) /\ pc' = "idle" /\ res' = FALSE /\ flaws' = {"send"} /\ conn < MaxCalls
      /\ transcript' = <<>> /\ wire' = <<>> /\ server' = NoServer
  BY DEF ConnectFails, Fail
<1>2. conn' = conn + 1 /\ stream' = stream /\ flight' = <<>>
  BY <1>1 DEF Open
<1>3. TotalSize(transcript') <= TranscriptMax
  <2>1. \A x \in Nat : Hello(x) \in MsgType
    BY DEF Hello, Msg, MsgType, Text
  <2>2. Hello(0) \in MsgType /\ <<>> \in Seq(MsgType) /\ \A x \in MsgType : x.size \in Nat
    BY <2>1 DEF MsgType
  <2>3. TotalSize(<<>>) = 0
    BY <2>2, SizeGrows
  <2> QED
    BY <1>1, <2>3, TlsAssumption
<1>4. flaws' \subseteq Flaws
  BY <1>1 DEF Flaws
<1>5. TypeOK' /\ flight' \in Seq(PartType) /\ got' \in GotType
  BY <1>1, <1>3, <1>4, OpenType
<1>6. VarsOK'
  <2>1. server'.transcript = <<>> /\ transcript' \in Seq(MsgType)
    BY <1>1 DEF NoServer
  <2>2. server'.transcript \in Seq(MsgType) /\ \A i \in 1 .. Len(server'.transcript) : FALSE
    BY <2>1
  <2> QED
    BY <1>5, <2>1, <2>2 DEF VarsOK
<1>7. BufferOK'
  <2>1. (\A i \in 1 .. Len(stream) : TokenOK(stream[i]))' /\ \A i \in 1 .. Len(stream') : ~HasNew(stream[i])'
    BY <1>2, OpenAgrees
  <2>2. (\A i \in 1 .. Len(stream), j \in 1 .. Len(stream) : i <= j /\ HasNew(stream[i]) => ~HasOld(stream[j]))'
    BY <2>1
  <2>3. \A i \in 1 .. Len(wire') : FALSE
    BY <1>1
  <2> QED
    BY <2>1, <2>2, <2>3 DEF BufferOK
<1>8. FlightOK'
  <2>1. \A i \in 1 .. Len(flight') : FALSE
    BY <1>2
  <2> QED
    BY <1>1, <2>1 DEF FlightOK
<1>9. GotIsSaid'
  BY <1>1 DEF GotIsSaid
<1> QED
  BY <1>5, <1>6, <1>7, <1>8, <1>9 DEF AgreeInv

(* Nothing is there in the beginning.                                      *)
LEMMA InitAgrees == ASSUME Init PROVE AgreeInv
<1>1. Inv
  BY InitHolds
<1>2. /\ pc = "idle" /\ conn = 0 /\ stream = <<>> /\ flight = <<>> /\ got = NoneGot /\ transcript = <<>>
      /\ readSeq = 0 /\ resp = <<>> /\ res = FALSE /\ wire = <<>> /\ server = NoServer /\ clean = TRUE /\ flaws = {}
  BY DEF Init
<1>3. NoneGot \in GotType /\ NoneGot.random = 0 /\ NoServer.transcript = <<>>
  BY DEF NoneGot, GotType, Text, NoServer
<1>4. TotalParts(<<>>) = 0
  <2>1. <<>> \in Seq(PartType) /\ 0 \in 0 .. Len(<<>>)
    OBVIOUS
  <2> QED
    BY <2>1, SizeOfParts
<1>5. TotalSize(<<>>) = 0
  <2>1. \A x \in Nat : Hello(x) \in MsgType
    BY DEF Hello, Msg, MsgType, Text
  <2>2. Hello(0) \in MsgType /\ <<>> \in Seq(MsgType) /\ \A x \in MsgType : x.size \in Nat
    BY <2>1 DEF MsgType
  <2> QED
    BY <2>2, SizeGrows
<1>6. RespSize = 0
  <2>1. RespSize = TotalSize(resp)
    BY DEF RespSize, TotalSize
  <2> QED
    BY <1>2, <1>5, <2>1
<1>7. TypeOK
  <2>1. res \in BOOLEAN /\ clean \in BOOLEAN
    BY <1>2
  <2>2. Len(stream) <= StreamMax /\ TotalParts(flight) <= FlightMax /\ TotalSize(transcript) <= TranscriptMax
    BY <1>2, <1>4, <1>5, TlsAssumption
  <2>3. RespSize <= RespMax /\ conn \in 0 .. MaxCalls /\ got.random \in 0 .. conn /\ readSeq \in Nat
    BY <1>2, <1>3, <1>6, TlsAssumption
  <2> QED
    BY <1>2, <2>1, <2>2, <2>3 DEF TypeOK
<1>8. VarsOK
  BY <1>2, <1>3 DEF VarsOK
<1>9. BufferOK /\ FlightOK /\ GotIsSaid
  BY <1>2 DEF BufferOK, FlightOK, GotIsSaid
<1> QED
  BY <1>1, <1>7, <1>8, <1>9 DEF AgreeInv

(* Nothing moves.                                                          *)
LEMMA StutterAgrees == ASSUME AgreeInv, Inv', UNCHANGED session PROVE AgreeInv'
<1>1. /\ UNCHANGED <<pc, conn, stream, flight, got, transcript, readSeq, resp, res, wire, server>>
      /\ UNCHANGED <<clean, flaws>>
  BY DEF session
<1>2. BufferOK'
  BY <1>1, BufferConsumed DEF AgreeInv
<1>3. VarsOK' /\ FlightOK' /\ GotIsSaid'
  BY <1>1, <1>2, CalmStep
<1>4. RespSize' <= RespMax
  BY <1>1, RespStays
<1>5. pc' \in Places /\ res' \in BOOLEAN /\ flaws' \subseteq Flaws /\ Len(stream') <= StreamMax /\ readSeq' \in Nat
  BY <1>1 DEF AgreeInv, TypeOK, Places, Flaws
<1>6. TypeOK'
  BY <1>1, <1>4, <1>5, TypeFrame
<1> QED
  BY <1>2, <1>3, <1>6 DEF AgreeInv

(* Every step keeps the invariant.                                         *)
LEMMA StepAgrees == ASSUME MessagesFit, AgreeInv, [Next]_vars PROVE AgreeInv'
<1>0. Inv'
  BY StepHolds DEF AgreeInv
<1>1. CASE Connect
  BY <1>0, <1>1, ConnectAgrees
<1>2. CASE ConnectFails
  BY <1>0, <1>2, ConnectFailsAgrees
<1>3. CASE Fill
  BY <1>0, <1>3, FillAgrees
<1>4. CASE RecvTimeout \/ WalkEnds \/ WalkGarbage \/ CheckFails \/ SendFails \/ RecvCcs \/ RecvFinished \/ Extract
  BY <1>0, <1>4, QuietAgrees
<1>5. CASE RecvFlight
  BY <1>0, <1>5, RecvFlightAgrees
<1>6. CASE WalkMessage
  BY <1>0, <1>6, WalkMessageAgrees
<1>7. CASE SendFinished
  BY <1>0, <1>7, SendFinishedAgrees
<1>8. CASE SendRequest
  BY <1>0, <1>8, SendRequestAgrees
<1>9. CASE RecvBody
  BY <1>0, <1>9, RecvBodyAgrees
<1>10. CASE UNCHANGED session
  BY <1>0, <1>10, StutterAgrees
<1> QED
  BY <1>1, <1>2, <1>3, <1>4, <1>5, <1>6, <1>7, <1>8, <1>9, <1>10 DEF Next, Client, Step, Handshake, Chatter, vars

(* What was said is in the transcript, which is the server's.              *)
LEMMA AgreeInvSuffices == ASSUME AgreeInv PROVE Agreement
<1>1. TypeOK /\ Completed
  BY DEF AgreeInv, Inv
<1>2. ASSUME pc \in {"request", "body", "extract"}
      PROVE  /\ \E i \in DOMAIN transcript :
                   transcript[i].conn = conn /\ transcript[i].m = "hello" /\ transcript[i].arg = got.suite
             /\ \E i \in DOMAIN transcript :
                   transcript[i].conn = conn /\ transcript[i].m = "cert" /\ transcript[i].arg = Host
             /\ got.suite = "ecdhe" =>
                   \E i \in DOMAIN transcript :
                       transcript[i].conn = conn /\ transcript[i].m = "ske" /\ transcript[i].arg = "signed"
  <2>1. server.done /\ transcript = server.transcript /\ Acceptable
    BY <1>1, <1>2 DEF Completed
  <2>2. DOMAIN transcript = 1 .. Len(server.transcript)
    <3>1. transcript \in Seq(MsgType)
      BY DEF AgreeInv, VarsOK
    <3> QED
      BY <2>1, <3>1
  <2>3. server.done = TRUE
    BY <2>1
  <2>4. AllSaid
    BY <1>2, <2>3 DEF AgreeInv, GotIsSaid
  <2>5. got.hello = TRUE /\ got.cert # "none" /\ got.cert = Host /\ (got.suite = "ecdhe" => got.ske = TRUE)
    <3>1. got.hello \in BOOLEAN /\ got.ske \in BOOLEAN
      BY DEF AgreeInv, VarsOK, GotType
    <3>2. got.hello /\ got.cert # "none" /\ got.cert = Host /\ (got.suite = "ecdhe" => got.ske)
      BY <2>1 DEF Acceptable, NameIgnored
    <3> QED
      BY <3>1, <3>2
  <2>6. Said("hello", got.suite) /\ Said("cert", Host) /\ (got.suite = "ecdhe" => Said("ske", "signed"))
    BY <2>4, <2>5 DEF AllSaid
  <2> QED
    BY <2>1, <2>2, <2>6 DEF Said
<1> QED
  BY <1>1, <1>2 DEF Agreement

(* handshake_done is set only when the server of this very connection has  *)
(* completed the same handshake: the suite is the one it chose, the        *)
(* certificate has the name that was asked for, and the key exchange was   *)
(* signed for this connection - for any servers whose messages fit into    *)
(* transcript[], and whatever earlier connections left in the buffer.      *)
THEOREM HandshakeAgreed == ASSUME MessagesFit PROVE Spec => []Agreement
<1>1. Init => AgreeInv
  BY InitAgrees
<1>2. AgreeInv /\ [Next]_vars => AgreeInv'
  BY StepAgrees
<1>3. AgreeInv => Agreement
  BY AgreeInvSuffices
<1> QED
  BY <1>1, <1>2, <1>3, PTL DEF Spec
-----------------------------------------------------------------------------
(* Two flattened sequences, one after the other *)

(* The first i sequences of s, flattened                                   *)
FlatTo(s, i) == IF i = 0 THEN <<>> ELSE TheFlat(s)[i]

(* Each adds what it holds.                                                *)
LEMMA FlatRows ==
    ASSUME NEW S, NEW s \in Seq(Seq(S))
    PROVE  /\ FlattenSeq(s) = FlatTo(s, Len(s)) /\ FlatTo(s, 0) = <<>>
           /\ \A i \in 0 .. Len(s) : FlatTo(s, i) \in Seq(S)
           /\ \A i \in 1 .. Len(s) : FlatTo(s, i) = FlatTo(s, i - 1) \o s[i]
<1> DEFINE F == TheFlat(s)
<1>1. Len(s) \in Nat /\ \A i \in 1 .. Len(s) : s[i] \in Seq(S)
  OBVIOUS
<1>2. IsFlat(s, Len(s), F)
  BY <1>1, FlatExists DEF TheFlat
<1>3. FlattenSeq(s) = FlatTo(s, Len(s))
  <2>1. CASE Len(s) = 0
    <3>1. FlattenSeq(s) = s /\ s = <<>>
      BY <2>1 DEF FlattenSeq
    <3> QED
      BY <2>1, <3>1 DEF FlatTo
  <2>2. CASE Len(s) # 0
    BY <2>2 DEF FlatTo, FlattenSeq, F, TheFlat, IsFlat
  <2> QED
    BY <2>1, <2>2
<1> HIDE DEF F
<1>4. ASSUME NEW i \in 1 .. Len(s) PROVE FlatTo(s, i) = FlatTo(s, i - 1) \o s[i]
  <2>1. F[i] = IF i = 1 THEN s[i] ELSE F[i - 1] \o s[i]
    BY <1>2 DEF IsFlat
  <2>2. <<>> \o s[i] = s[i]
    BY <1>1, ConcatEmptySeq
  <2>3. i # 0 /\ (i = 1 <=> i - 1 = 0)
    BY <1>1
  <2> QED
    BY <2>1, <2>2, <2>3 DEF FlatTo, F
<1>5. FlatTo(s, 0) = <<>>
  BY DEF FlatTo
<1> DEFINE T == {i \in 0 .. Len(s) : FlatTo(s, i) \notin Seq(S)}
<1>6. ASSUME T # {} PROVE FALSE
  <2>1. PICK i \in T : \A j \in T : i <= j
    <3>1. T \subseteq Nat
      BY <1>1
    <3> HIDE DEF T
    <3> QED
      BY <1>6, <3>1, LeastNumber
  <2>2. i # 0
    <3>1. <<>> \in Seq(S)
      OBVIOUS
    <3> QED
      BY <1>5, <2>1, <3>1
  <2>3. i \in 1 .. Len(s) /\ i - 1 \in 0 .. Len(s) /\ ~(i <= i - 1)
    BY <1>1, <2>1, <2>2
  <2>4. FlatTo(s, i - 1) \in Seq(S) /\ s[i] \in Seq(S)
    BY <1>1, <2>1, <2>3
  <2>5. FlatTo(s, i) \in Seq(S)
    BY <1>4, <2>3, <2>4, ConcatProperties
  <2> QED
    BY <2>1, <2>5
<1> QED
  BY <1>3, <1>4, <1>5, <1>6

(* So both together hold what the one holds, and then the other.           *)
LEMMA FlatConcat ==
    ASSUME NEW S, NEW s \in Seq(Seq(S)), NEW t \in Seq(Seq(S))
    PROVE  FlattenSeq(s \o t) = FlattenSeq(s) \o FlattenSeq(t)
<1> DEFINE u == s \o t
           m == Len(s)
           n == Len(t)
<1>1. /\ u \in Seq(Seq(S)) /\ Len(u) = m + n
      /\ \A i \in 1 .. m + n : u[i] = IF i <= m THEN s[i] ELSE t[i - m]
  BY ConcatProperties
<1>2. m \in Nat /\ n \in Nat /\ \A i \in 1 .. n : t[i] \in Seq(S)
  OBVIOUS
<1>3. /\ FlattenSeq(s) = FlatTo(s, m) /\ \A i \in 0 .. m : FlatTo(s, i) \in Seq(S)
      /\ \A i \in 1 .. m : FlatTo(s, i) = FlatTo(s, i - 1) \o s[i]
  BY FlatRows
<1>4. /\ FlattenSeq(t) = FlatTo(t, n) /\ FlatTo(t, 0) = <<>> /\ \A i \in 0 .. n : FlatTo(t, i) \in Seq(S)
      /\ \A i \in 1 .. n : FlatTo(t, i) = FlatTo(t, i - 1) \o t[i]
  BY FlatRows
<1> HIDE DEF u, m, n
<1>5. /\ FlattenSeq(u) = FlatTo(u, m + n) /\ FlatTo(u, 0) = <<>> /\ FlatTo(s, 0) = <<>>
      /\ \A i \in 1 .. m + n : FlatTo(u, i) = FlatTo(u, i - 1) \o u[i]
  BY <1>1, FlatRows DEF FlatTo
<1> DEFINE want(i) == IF i <= m THEN FlatTo(s, i) ELSE FlatTo(s, m) \o FlatTo(t, i - m)
           T == {i \in 0 .. m + n : FlatTo(u, i) # want(i)}
<1>6. FlatTo(s, m) \in Seq(S) /\ FlatTo(s, m) \o <<>> = FlatTo(s, m)
  <2>1. FlatTo(s, m) \in Seq(S)
    BY <1>2, <1>3
  <2> QED
    BY <2>1, ConcatEmptySeq
<1>7. ASSUME T # {} PROVE FALSE
  <2>1. PICK i \in T : \A j \in T : i <= j
    <3>1. T \subseteq Nat
      BY <1>2
    <3> HIDE DEF T
    <3> QED
      BY <1>7, <3>1, LeastNumber
  <2>2. i # 0
    BY <1>2, <1>5, <2>1
  <2>3. i \in 1 .. m + n /\ i - 1 \in 0 .. m + n /\ ~(i <= i - 1)
    BY <1>2, <2>1, <2>2
  <2>4. FlatTo(u, i - 1) = want(i - 1)
    BY <2>1, <2>3
  <2>5. FlatTo(u, i) = want(i - 1) \o u[i]
    BY <1>5, <2>3, <2>4
  <2>6. CASE i <= m
    <3>1. i \in 1 .. m /\ i - 1 <= m /\ u[i] = s[i]
      BY <1>1, <1>2, <2>3, <2>6
    <3>2. FlatTo(u, i) = FlatTo(s, i)
      BY <1>3, <2>5, <3>1
    <3> QED
      BY <2>1, <2>6, <3>2
  <2>7. CASE ~(i <= m)
    <3>1. i - m \in 1 .. n /\ (i - m) - 1 \in 0 .. n /\ (i - 1) - m = (i - m) - 1 /\ u[i] = t[i - m]
      BY <1>1, <1>2, <2>3, <2>7
    <3>2. want(i - 1) = FlatTo(s, m) \o FlatTo(t, (i - m) - 1)
      <4>1. CASE i - 1 <= m
        <5>1. i - 1 = m /\ (i - m) - 1 = 0
          BY <1>2, <2>3, <2>7, <4>1
        <5> QED
          BY <1>2, <1>4, <1>6, <5>1
      <4>2. CASE ~(i - 1 <= m)
        BY <3>1, <4>2
      <4> QED
        BY <4>1, <4>2
    <3>3. FlatTo(t, (i - m) - 1) \in Seq(S) /\ t[i - m] \in Seq(S)
      BY <1>2, <1>4, <3>1
    <3>4. FlatTo(u, i) = FlatTo(s, m) \o (FlatTo(t, (i - m) - 1) \o t[i - m])
      <4> DEFINE a == FlatTo(s, m)
                 b == FlatTo(t, (i - m) - 1)
                 c == t[i - m]
      <4>1. a \in Seq(S) /\ b \in Seq(S) /\ c \in Seq(S) /\ FlatTo(u, i) = (a \o b) \o c
        BY <1>6, <2>5, <3>1, <3>2, <3>3
      <4> HIDE DEF a, b, c
      <4>2. (a \o b) \o c = a \o (b \o c)
        <5>1. a \in Seq(S) /\ b \in Seq(S) /\ c \in Seq(S)
          BY <4>1
        <5> QED
          BY <5>1, SMTT(60)
      <4> QED
        BY <4>1, <4>2 DEF a, b, c
    <3>5. FlatTo(u, i) = FlatTo(s, m) \o FlatTo(t, i - m)
      BY <1>4, <3>1, <3>4
    <3> QED
      BY <2>1, <2>7, <3>5
  <2> QED
    BY <2>6, <2>7
<1>8. FlatTo(u, m + n) = want(m + n)
  <2>1. m + n \in 0 .. m + n
    BY <1>2
  <2>2. T = {}
    BY <1>7
  <2> HIDE DEF want
  <2> QED
    BY <2>1, <2>2
<1>9. want(m + n) = FlatTo(s, m) \o FlatTo(t, n)
  <2>1. CASE n = 0
    BY <1>2, <1>4, <1>6, <2>1
  <2>2. CASE n # 0
    <3>1. ~(m + n <= m) /\ (m + n) - m = n
      BY <1>2, <2>2
    <3> QED
      BY <3>1
  <2> QED
    BY <2>1, <2>2
<1> QED
  BY <1>3, <1>4, <1>5, <1>8, <1>9 DEF u

-----------------------------------------------------------------------------
(* The messages in parts, and the parts in records *)

(* A sequence before, at and behind a place, with more to follow           *)
LEMMA Parted ==
    ASSUME NEW S, NEW p \in Seq(S), NEW q \in Seq(S), NEW i \in 1 .. Len(p)
    PROVE  p \o q = SubSeq(p, 1, i - 1) \o (<<p[i]>> \o (SubSeq(p, i + 1, Len(p)) \o q))
<1> DEFINE a == SubSeq(p, 1, i - 1)
           b == <<p[i]>>
           c == SubSeq(p, i + 1, Len(p))
<1>1. Len(p) \in Nat /\ i \in Nat /\ \A j \in 1 .. Len(p) : p[j] \in S
  OBVIOUS
<1>2. a \in Seq(S)
  <2>1. \A j \in 1 .. i - 1 : p[j] \in S
    BY <1>1
  <2> QED
    BY <1>1, <2>1, SubSeqProperties
<1>3. b \in Seq(S)
  BY <1>1
<1>4. c \in Seq(S)
  <2>1. \A j \in i + 1 .. Len(p) : p[j] \in S
    BY <1>1
  <2> QED
    BY <1>1, <2>1, SubSeqProperties
<1>5. p = a \o (b \o c)
  <2>1. SubSeq(p, 1, i - 1) \o SubSeq(p, (i - 1) + 1, Len(p)) = SubSeq(p, 1, Len(p))
    <3>1. 1 \in 1 .. Len(p) + 1 /\ i - 1 \in 1 - 1 .. Len(p) /\ Len(p) \in i - 1 .. Len(p)
      BY <1>1
    <3> QED
      BY <3>1, ConcatAdjacentSubSeq
  <2>2. (i - 1) + 1 = i /\ SubSeq(p, 1, Len(p)) = p
    BY <1>1, SubSeqFull
  <2>3. SubSeq(p, i, Len(p)) = <<p[i]>> \o SubSeq(p, i + 1, Len(p))
    <3>1. Len(p) \in i .. Len(p)
      BY <1>1
    <3> QED
      BY <3>1, SubSeqRecursiveFirst
  <2> QED
    BY <2>1, <2>2, <2>3
<1> HIDE DEF a, b, c
<1>6. (a \o (b \o c)) \o q = a \o (b \o (c \o q))
  <2>1. b \o c \in Seq(S)
    BY <1>3, <1>4, ConcatProperties
  <2>2. (a \o (b \o c)) \o q = a \o ((b \o c) \o q)
    BY <1>2, <2>1, SMTT(60)
  <2>3. (b \o c) \o q = b \o (c \o q)
    BY <1>3, <1>4, SMTT(60)
  <2> QED
    BY <2>2, <2>3
<1> QED
  BY <1>5, <1>6 DEF a, b, c

(* What a part contributes to the messages                                 *)
Given(parts) == [i \in DOMAIN parts |-> IF parts[i].last THEN <<parts[i].msg>> ELSE <<>>]

(* Its rows                                                                *)
LEMMA GivenParts ==
    ASSUME NEW p \in Seq(PartType)
    PROVE  /\ Given(p) \in Seq(Seq(MsgType)) /\ Len(Given(p)) = Len(p)
           /\ Messages(p) = FlattenSeq(Given(p))
           /\ \A i \in 1 .. Len(p) : Given(p)[i] = IF p[i].last THEN <<p[i].msg>> ELSE <<>>
<1>1. DOMAIN p = 1 .. Len(p) /\ Len(p) \in Nat /\ \A i \in 1 .. Len(p) : p[i] \in PartType
  OBVIOUS
<1>2. \A x \in PartType : x.msg \in MsgType
  BY DEF PartType, MsgType
<1>3. \A i \in 1 .. Len(p) : (IF p[i].last THEN <<p[i].msg>> ELSE <<>>) \in Seq(MsgType)
  BY <1>1, <1>2
<1>4. Given(p) \in Seq(Seq(MsgType)) /\ Len(Given(p)) = Len(p)
  BY <1>1, <1>3 DEF Given
<1> QED
  BY <1>1, <1>4 DEF Given, Messages

(* Parts that end no message make up none, and others do.                  *)
LEMMA MessagesType ==
    ASSUME NEW p \in Seq(PartType)
    PROVE  /\ Messages(p) \in Seq(MsgType)
           /\ HasLast(p) <=> Messages(p) # <<>>
<1> DEFINE g == Given(p)
           M == FlattenSeq(g)
<1>1. /\ g \in Seq(Seq(MsgType)) /\ Len(g) = Len(p) /\ Messages(p) = M
      /\ \A i \in 1 .. Len(p) : g[i] = IF p[i].last THEN <<p[i].msg>> ELSE <<>>
  BY GivenParts
<1> HIDE DEF g
<1>2. /\ M \in Seq(MsgType)
      /\ \A i \in 1 .. Len(g) : \A j \in 1 .. Len(g[i]) : \E k \in 1 .. Len(M) : M[k] = g[i][j]
      /\ \A k \in 1 .. Len(M) : \E i \in 1 .. Len(g) : \E j \in 1 .. Len(g[i]) : M[k] = g[i][j]
  BY <1>1, Flattened
<1> HIDE DEF M
<1>3. ASSUME HasLast(p) PROVE M # <<>>
  <2>1. PICK i \in 1 .. Len(p) : p[i].last = TRUE
    BY <1>3 DEF HasLast
  <2>2. i \in 1 .. Len(g) /\ g[i] = <<p[i].msg>>
    BY <1>1, <2>1
  <2>3. 1 \in 1 .. Len(g[i])
    BY <2>2
  <2>4. \E k \in 1 .. Len(M) : M[k] = g[i][1]
    BY <1>2, <2>2, <2>3
  <2> QED
    BY <1>2, <2>4
<1>4. ASSUME M # <<>> PROVE HasLast(p)
  <2>1. 1 \in 1 .. Len(M)
    BY <1>2, <1>4
  <2>2. PICK i \in 1 .. Len(g) : \E j \in 1 .. Len(g[i]) : M[1] = g[i][j]
    BY <1>2, <2>1
  <2>3. i \in 1 .. Len(p) /\ g[i] # <<>>
    BY <1>1, <2>2
  <2>4. p[i].last \in BOOLEAN
    <3>1. p[i] \in PartType
      BY <2>3
    <3> QED
      BY <3>1 DEF PartType
  <2>5. p[i].last = TRUE
    BY <1>1, <2>3, <2>4
  <2> QED
    BY <2>3, <2>5 DEF HasLast
<1> QED
  BY <1>1, <1>2, <1>3, <1>4

(* Parts that follow parts                                                 *)
LEMMA MessagesConcat ==
    ASSUME NEW p \in Seq(PartType), NEW q \in Seq(PartType)
    PROVE  Messages(p \o q) = Messages(p) \o Messages(q)
<1> DEFINE u == p \o q
           a == Given(p)
           b == Given(q)
           c == Given(u)
           d == a \o b
<1>1. /\ u \in Seq(PartType) /\ Len(u) = Len(p) + Len(q)
      /\ \A i \in 1 .. Len(p) + Len(q) : u[i] = IF i <= Len(p) THEN p[i] ELSE q[i - Len(p)]
  BY ConcatProperties
<1>2. Len(p) \in Nat /\ Len(q) \in Nat
  OBVIOUS
<1> HIDE DEF u
<1>3. /\ a \in Seq(Seq(MsgType)) /\ Len(a) = Len(p) /\ Messages(p) = FlattenSeq(a)
      /\ \A i \in 1 .. Len(p) : a[i] = IF p[i].last THEN <<p[i].msg>> ELSE <<>>
  BY GivenParts
<1>4. /\ b \in Seq(Seq(MsgType)) /\ Len(b) = Len(q) /\ Messages(q) = FlattenSeq(b)
      /\ \A i \in 1 .. Len(q) : b[i] = IF q[i].last THEN <<q[i].msg>> ELSE <<>>
  BY GivenParts
<1>5. /\ c \in Seq(Seq(MsgType)) /\ Len(c) = Len(u) /\ Messages(u) = FlattenSeq(c)
      /\ \A i \in 1 .. Len(u) : c[i] = IF u[i].last THEN <<u[i].msg>> ELSE <<>>
  BY <1>1, GivenParts
<1> HIDE DEF a, b, c
<1>6. /\ d \in Seq(Seq(MsgType)) /\ Len(d) = Len(a) + Len(b)
      /\ \A i \in 1 .. Len(a) + Len(b) : d[i] = IF i <= Len(a) THEN a[i] ELSE b[i - Len(a)]
  <2>1. \A x, y \in Seq(Seq(MsgType)) :
           /\ x \o y \in Seq(Seq(MsgType)) /\ Len(x \o y) = Len(x) + Len(y)
           /\ \A i \in 1 .. Len(x) + Len(y) : (x \o y)[i] = IF i <= Len(x) THEN x[i] ELSE y[i - Len(x)]
    BY ConcatProperties
  <2> QED
    BY <1>3, <1>4, <2>1
<1> HIDE DEF d
<1>7. ASSUME NEW i \in 1 .. Len(c) PROVE c[i] = d[i]
  <2>1. i \in 1 .. Len(p) + Len(q)
    BY <1>1, <1>5
  <2>2. CASE i <= Len(p)
    <3>1. i \in 1 .. Len(p) /\ u[i] = p[i] /\ d[i] = a[i]
      BY <1>1, <1>2, <1>3, <1>4, <1>6, <2>1, <2>2
    <3> QED
      BY <1>1, <1>3, <1>5, <2>1, <3>1
  <2>3. CASE ~(i <= Len(p))
    <3>1. i - Len(p) \in 1 .. Len(q) /\ u[i] = q[i - Len(p)] /\ d[i] = b[i - Len(p)]
      BY <1>1, <1>2, <1>3, <1>4, <1>6, <2>1, <2>3
    <3> QED
      BY <1>1, <1>4, <1>5, <2>1, <3>1
  <2> QED
    BY <2>2, <2>3
<1>8. c = d
  <2>1. Len(c) = Len(d)
    BY <1>1, <1>3, <1>4, <1>5, <1>6
  <2> QED
    BY <1>5, <1>6, <1>7, <2>1, SeqEqual
<1>9. FlattenSeq(d) = FlattenSeq(a) \o FlattenSeq(b)
  BY <1>3, <1>4, FlatConcat DEF d
<1> QED
  BY <1>3, <1>4, <1>5, <1>8, <1>9 DEF u

(* The first message is the one whose last part comes first.               *)
LEMMA FirstMessage ==
    ASSUME NEW p \in Seq(PartType), NEW q \in Seq(PartType), NEW i \in 1 .. Len(p),
           p[i].last = TRUE, \A j \in 1 .. i - 1 : ~p[j].last
    PROVE  /\ SubSeq(p, i + 1, Len(p)) \in Seq(PartType)
           /\ Messages(p \o q) = <<p[i].msg>> \o Messages(SubSeq(p, i + 1, Len(p)) \o q)
<1> DEFINE a == SubSeq(p, 1, i - 1)
           b == <<p[i]>>
           c == SubSeq(p, i + 1, Len(p))
<1>1. Len(p) \in Nat /\ i \in Nat /\ \A j \in 1 .. Len(p) : p[j] \in PartType
  OBVIOUS
<1>2. a \in Seq(PartType) /\ Len(a) = i - 1 /\ \A j \in 1 .. i - 1 : a[j] = p[j]
  <2>1. \A j \in 1 .. i - 1 : p[j] \in PartType
    BY <1>1
  <2>2. /\ a \in Seq(PartType) /\ Len(a) = (IF 1 <= i - 1 THEN (i - 1) - 1 + 1 ELSE 0)
        /\ \A j \in 1 .. (i - 1) - 1 + 1 : a[j] = p[1 + j - 1]
    BY <1>1, <2>1, SubSeqProperties
  <2> HIDE DEF a
  <2>3. (i - 1) - 1 + 1 = i - 1 /\ (\A j \in 1 .. i - 1 : 1 + j - 1 = j) /\ (~(1 <= i - 1) => i - 1 = 0)
    BY <1>1
  <2> QED
    BY <2>2, <2>3
<1>3. b \in Seq(PartType) /\ Len(b) = 1 /\ b[1] = p[i]
  BY <1>1
<1>4. c \in Seq(PartType)
  <2>1. \A j \in i + 1 .. Len(p) : p[j] \in PartType
    BY <1>1
  <2> QED
    BY <1>1, <2>1, SubSeqProperties
<1> HIDE DEF a, c
<1>6. Messages(a) = <<>>
  <2>1. ~HasLast(a)
    BY <1>2 DEF HasLast
  <2> QED
    BY <1>2, <2>1, MessagesType
<1>7. Messages(b) = <<p[i].msg>>
  <2>1. /\ Given(b) \in Seq(Seq(MsgType)) /\ Len(Given(b)) = 1 /\ Messages(b) = FlattenSeq(Given(b))
        /\ Given(b)[1] = <<p[i].msg>>
    <3> HIDE DEF b
    <3>1. /\ Given(b) \in Seq(Seq(MsgType)) /\ Len(Given(b)) = Len(b) /\ Messages(b) = FlattenSeq(Given(b))
          /\ \A j \in 1 .. Len(b) : Given(b)[j] = IF b[j].last THEN <<b[j].msg>> ELSE <<>>
      BY <1>3, GivenParts
    <3>2. 1 \in 1 .. Len(b)
      BY <1>3
    <3> QED
      BY <1>3, <3>1, <3>2
  <2> DEFINE g == Given(b)
  <2>2. g \in Seq(Seq(MsgType)) /\ Len(g) = 1 /\ g[1] = <<p[i].msg>>
    BY <2>1
  <2> HIDE DEF g
  <2>3. FlattenSeq(g) = FlatTo(g, 1) /\ FlatTo(g, 0) = <<>> /\ FlatTo(g, 1) = FlatTo(g, 0) \o g[1]
    <3>1. /\ FlattenSeq(g) = FlatTo(g, Len(g)) /\ FlatTo(g, 0) = <<>>
          /\ \A j \in 1 .. Len(g) : FlatTo(g, j) = FlatTo(g, j - 1) \o g[j]
      BY <2>2, FlatRows
    <3>2. 1 \in 1 .. Len(g) /\ 1 - 1 = 0
      BY <2>2
    <3> QED
      BY <2>2, <3>1, <3>2
  <2>4. <<>> \o g[1] = g[1]
    <3>1. 1 \in 1 .. Len(g)
      BY <2>2
    <3>2. g[1] \in Seq(MsgType)
      BY <2>2, <3>1, ElementOfSeq
    <3> QED
      BY <3>2, ConcatEmptySeq
  <2> QED
    BY <2>1, <2>2, <2>3, <2>4 DEF g
<1> HIDE DEF b
<1> DEFINE d == c \o q
<1>8. d \in Seq(PartType) /\ b \o c \in Seq(PartType) /\ b \o d \in Seq(PartType)
  BY <1>3, <1>4, ConcatProperties
<1>9. p \o q = a \o (b \o d)
  BY Parted DEF a, b, c, d
<1> HIDE DEF d
<1>10. Messages(a \o (b \o d)) = Messages(a) \o Messages(b \o d)
  BY <1>2, <1>8, MessagesConcat
<1>11. Messages(b \o d) = Messages(b) \o Messages(d)
  BY <1>3, <1>8, MessagesConcat
<1>12. <<>> \o Messages(b \o d) = Messages(b \o d)
  <2>1. Messages(b \o d) \in Seq(MsgType)
    BY <1>8, MessagesType
  <2> QED
    BY <2>1, ConcatEmptySeq
<1>13. Messages(p \o q) = <<p[i].msg>> \o Messages(d)
  BY <1>6, <1>7, <1>9, <1>10, <1>11, <1>12
<1> QED
  BY <1>4, <1>13 DEF c, d

(* The parts in the records of a flight                                    *)
LEMMA PartsOfFlight ==
    ASSUME NEW recs \in Seq(RecordType)
    PROVE  /\ AllParts(recs) \in Seq(PartType)
           /\ recs = <<>> => AllParts(recs) = <<>>
           /\ recs # <<>> => AllParts(recs) = recs[1].parts \o AllParts(Tail(recs))
           /\ recs # <<>> /\ HasLast(recs[Len(recs)].parts) => HasLast(AllParts(recs))
<1> DEFINE ps(q) == [i \in DOMAIN q |-> q[i].parts]
           t == Tail(recs)
<1>1. ASSUME NEW q \in Seq(RecordType)
      PROVE  /\ ps(q) \in Seq(Seq(PartType)) /\ Len(ps(q)) = Len(q)
             /\ \A i \in 1 .. Len(q) : ps(q)[i] = q[i].parts
             /\ AllParts(q) = FlattenSeq(ps(q))
  <2>1. DOMAIN q = 1 .. Len(q) /\ Len(q) \in Nat /\ \A i \in 1 .. Len(q) : q[i] \in RecordType
    OBVIOUS
  <2>2. \A x \in RecordType : x.parts \in Seq(PartType)
    BY DEF RecordType
  <2>3. \A i \in 1 .. Len(q) : q[i].parts \in Seq(PartType)
    BY <2>1, <2>2
  <2> QED
    BY <2>1, <2>3 DEF AllParts
<1> HIDE DEF ps
<1>2. AllParts(recs) \in Seq(PartType)
  BY <1>1, Flattened
<1>3. ASSUME recs = <<>> PROVE AllParts(recs) = <<>>
  <2>1. ps(recs) = <<>> /\ AllParts(recs) = FlattenSeq(ps(recs))
    <3>1. ps(recs) \in Seq(Seq(PartType)) /\ Len(ps(recs)) = 0
      BY <1>1, <1>3
    <3> QED
      BY <1>1, <3>1
  <2> QED
    BY <2>1 DEF FlattenSeq
<1>4. ASSUME recs # <<>> PROVE AllParts(recs) = recs[1].parts \o AllParts(t)
  <2>1. t \in Seq(RecordType) /\ Len(t) = Len(recs) - 1 /\ \A i \in 1 .. Len(t) : t[i] = recs[i + 1]
    BY <1>4, HeadTailProperties
  <2>2. Len(recs) \in Nat \ {0} /\ 1 \in 1 .. Len(recs)
    BY <1>4
  <2> HIDE DEF t
  <2> DEFINE a == ps(recs)
             h == <<recs[1].parts>>
             c == ps(t)
             d == h \o c
  <2>3. /\ a \in Seq(Seq(PartType)) /\ Len(a) = Len(recs) /\ AllParts(recs) = FlattenSeq(a)
        /\ \A i \in 1 .. Len(recs) : a[i] = recs[i].parts
    BY <1>1
  <2>4. /\ c \in Seq(Seq(PartType)) /\ Len(c) = Len(t) /\ AllParts(t) = FlattenSeq(c)
        /\ \A i \in 1 .. Len(t) : c[i] = t[i].parts
    BY <1>1, <2>1
  <2>5. recs[1].parts \in Seq(PartType)
    <3>1. a[1] \in Seq(PartType)
      BY <2>2, <2>3
    <3> QED
      BY <2>2, <2>3, <3>1
  <2>6. h \in Seq(Seq(PartType)) /\ Len(h) = 1 /\ h[1] = recs[1].parts
    BY <2>5
  <2> HIDE DEF a, c, h
  <2>7. /\ d \in Seq(Seq(PartType)) /\ Len(d) = Len(h) + Len(c)
        /\ \A i \in 1 .. Len(h) + Len(c) : d[i] = IF i <= Len(h) THEN h[i] ELSE c[i - Len(h)]
    BY <2>4, <2>6, ConcatProperties
  <2>8. FlattenSeq(d) = FlattenSeq(h) \o FlattenSeq(c)
    BY <2>4, <2>6, FlatConcat
  <2> HIDE DEF d
  <2>9. a = d
    <3>1. Len(a) = Len(d)
      BY <2>1, <2>2, <2>3, <2>4, <2>6, <2>7
    <3>2. ASSUME NEW i \in 1 .. Len(a) PROVE a[i] = d[i]
      <4>1. CASE i = 1
        BY <2>2, <2>3, <2>4, <2>6, <2>7, <3>1, <4>1
      <4>2. CASE i # 1
        <5>1. i \in 1 .. Len(recs) /\ i - 1 \in 1 .. Len(t) /\ ~(i <= 1) /\ (i - 1) + 1 = i
          BY <2>1, <2>2, <2>3, <4>2
        <5>2. d[i] = c[i - 1]
          BY <2>6, <2>7, <3>1, <5>1
        <5>3. c[i - 1] = recs[i].parts
          BY <2>1, <2>4, <5>1
        <5> QED
          BY <2>3, <5>1, <5>2, <5>3
      <4> QED
        BY <4>1, <4>2
    <3> QED
      BY <2>3, <2>7, <3>1, <3>2, SeqEqual
  <2>10. FlattenSeq(h) = recs[1].parts
    <3>1. /\ FlattenSeq(h) = FlatTo(h, Len(h)) /\ FlatTo(h, 0) = <<>>
          /\ \A j \in 1 .. Len(h) : FlatTo(h, j) = FlatTo(h, j - 1) \o h[j]
      BY <2>6, FlatRows
    <3>2. 1 \in 1 .. Len(h) /\ 1 - 1 = 0
      BY <2>6
    <3>3. <<>> \o recs[1].parts = recs[1].parts
      BY <2>5, ConcatEmptySeq
    <3> QED
      BY <2>6, <3>1, <3>2, <3>3
  <2> QED
    BY <2>3, <2>4, <2>8, <2>9, <2>10
<1>5. ASSUME recs # <<>>, HasLast(recs[Len(recs)].parts) PROVE HasLast(AllParts(recs))
  <2> DEFINE n == Len(recs)
             A == AllParts(recs)
  <2>1. n \in 1 .. Len(recs)
    BY <1>5
  <2>2. PICK j \in 1 .. Len(recs[n].parts) : recs[n].parts[j].last = TRUE
    BY <1>5 DEF HasLast
  <2>3. n \in 1 .. Len(ps(recs)) /\ ps(recs)[n] = recs[n].parts
    BY <1>1, <2>1
  <2>4. \A i \in 1 .. Len(ps(recs)) : \A k \in 1 .. Len(ps(recs)[i]) :
           \E l \in 1 .. Len(A) : A[l] = ps(recs)[i][k]
    <3> DEFINE g == ps(recs)
    <3>1. g \in Seq(Seq(PartType)) /\ A = FlattenSeq(g)
      BY <1>1
    <3> HIDE DEF g, A
    <3>2. \A i \in 1 .. Len(g) : \A k \in 1 .. Len(g[i]) :
             \E l \in 1 .. Len(FlattenSeq(g)) : FlattenSeq(g)[l] = g[i][k]
      BY <3>1, Flattened
    <3> QED
      BY <3>1, <3>2 DEF g
  <2> HIDE DEF A
  <2>5. PICK l \in 1 .. Len(A) : A[l] = recs[n].parts[j]
    BY <2>2, <2>3, <2>4
  <2> QED
    BY <2>2, <2>5 DEF HasLast, A
<1> QED
  BY <1>2, <1>3, <1>4, <1>5

-----------------------------------------------------------------------------
(* The record layer, when nothing is in the buffer but records *)

(* The tokens of records, by number                                        *)
LEMMA TokenRows ==
    ASSUME NEW recs \in Seq(RecordType)
    PROVE  /\ Tokens(recs) \in Seq(TokenType) /\ Len(Tokens(recs)) = 2 * Len(recs)
           /\ \A i \in 1 .. Len(recs) : /\ Tokens(recs)[2 * i - 1] = <<recs[i], "header">>
                                        /\ Tokens(recs)[2 * i] = <<recs[i], "payload">>
<1> DEFINE n == Len(recs)
           half(i) == IF i % 2 = 1 THEN "header" ELSE "payload"
           tok(i) == <<recs[(i + 1) \div 2], half(i)>>
<1>1. n \in Nat
  OBVIOUS
<1>2. Tokens(recs) = [i \in 1 .. 2 * n |-> tok(i)] /\ 2 * n \in Nat
  BY <1>1 DEF Tokens
<1>3. Tokens(recs) \in Seq(TokenType)
  BY TokensOf
<1>4. ASSUME NEW i \in 1 .. n
      PROVE  tok(2 * i - 1) = <<recs[i], "header">> /\ tok(2 * i) = <<recs[i], "payload">>
  <2>1. /\ ((2 * i - 1) + 1) \div 2 = i /\ (2 * i + 1) \div 2 = i
        /\ (2 * i - 1) % 2 = 1 /\ (2 * i) % 2 = 0
    BY <1>1
  <2> QED
    BY <2>1
<1>5. \A i \in 1 .. n : 2 * i - 1 \in 1 .. 2 * n /\ 2 * i \in 1 .. 2 * n
  BY <1>1
<1> HIDE DEF tok
<1>6. Len(Tokens(recs)) = 2 * n
  BY <1>2
<1> QED
  BY <1>2, <1>3, <1>4, <1>5, <1>6

(* No tokens are the tokens of no record.                                  *)
LEMMA NoTokens == Tokens(<<>>) = <<>>
<1>1. <<>> \in Seq(RecordType) /\ Len(<<>>) = 0
  OBVIOUS
<1>2. Tokens(<<>>) \in Seq(TokenType) /\ Len(Tokens(<<>>)) = 2 * Len(<<>>)
  BY <1>1, TokenRows
<1> QED
  BY <1>1, <1>2

(* The tokens behind those of the first record are those of the others.    *)
LEMMA TokensTail ==
    ASSUME NEW recs \in Seq(RecordType), recs # <<>>
    PROVE  /\ Tail(recs) \in Seq(RecordType) /\ Len(Tail(recs)) = Len(recs) - 1
           /\ \A i \in 1 .. Len(Tail(recs)) : Tail(recs)[i] = recs[i + 1]
           /\ Len(Tokens(recs)) = Len(Tokens(Tail(recs))) + 2
           /\ \A i \in 1 .. Len(Tokens(Tail(recs))) : Tokens(Tail(recs))[i] = Tokens(recs)[i + 2]
<1> DEFINE t == Tail(recs)
<1>1. t \in Seq(RecordType) /\ Len(t) = Len(recs) - 1 /\ \A i \in 1 .. Len(t) : t[i] = recs[i + 1]
  BY HeadTailProperties
<1>2. Len(recs) \in Nat \ {0}
  OBVIOUS
<1> HIDE DEF t
<1>3. /\ Tokens(recs) \in Seq(TokenType) /\ Len(Tokens(recs)) = 2 * Len(recs)
      /\ \A i \in 1 .. Len(recs) : /\ Tokens(recs)[2 * i - 1] = <<recs[i], "header">>
                                   /\ Tokens(recs)[2 * i] = <<recs[i], "payload">>
  BY TokenRows
<1>4. /\ Len(Tokens(t)) = 2 * Len(t)
      /\ \A i \in 1 .. Len(t) : /\ Tokens(t)[2 * i - 1] = <<t[i], "header">>
                                /\ Tokens(t)[2 * i] = <<t[i], "payload">>
  BY <1>1, TokenRows
<1>5. Len(Tokens(recs)) = Len(Tokens(t)) + 2
  BY <1>1, <1>2, <1>3, <1>4
<1>6. ASSUME NEW i \in 1 .. Len(Tokens(t)) PROVE Tokens(t)[i] = Tokens(recs)[i + 2]
  <2>1. i \in 1 .. 2 * Len(t) /\ Len(t) \in Nat
    BY <1>1, <1>2, <1>4
  <2>2. PICK k \in 1 .. Len(t) : i = 2 * k - 1 \/ i = 2 * k
    <3>1. CASE i % 2 = 1
      <4>1. (i + 1) \div 2 \in 1 .. Len(t) /\ i = 2 * ((i + 1) \div 2) - 1
        BY <2>1, <3>1
      <4> QED
        BY <4>1
    <3>2. CASE i % 2 # 1
      <4>1. i \div 2 \in 1 .. Len(t) /\ i = 2 * (i \div 2)
        BY <2>1, <3>2
      <4> QED
        BY <4>1
    <3> QED
      BY <3>1, <3>2
  <2>3. /\ k + 1 \in 1 .. Len(recs) /\ t[k] = recs[k + 1]
        /\ 2 * (k + 1) - 1 = (2 * k - 1) + 2 /\ 2 * (k + 1) = 2 * k + 2
    BY <1>1, <1>2, <2>2
  <2>4. /\ Tokens(recs)[(2 * k - 1) + 2] = <<t[k], "header">> /\ Tokens(recs)[2 * k + 2] = <<t[k], "payload">>
    BY <1>3, <2>3
  <2> QED
    BY <1>4, <2>2, <2>4
<1> QED
  BY <1>1, <1>5, <1>6 DEF t

(* What is on the way, behind the record in front                          *)
LEMMA FrontTaken ==
    ASSUME stream \in Seq(TokenType), wire \in Seq(TokenType), Complete
    PROVE  LET u == stream \o wire
               v == SubSeq(stream, 3, Len(stream)) \o wire IN
           /\ u \in Seq(TokenType) /\ v \in Seq(TokenType) /\ Len(u) = Len(v) + 2
           /\ \A i \in 1 .. Len(v) : v[i] = u[i + 2]
           /\ u[1] = stream[1] /\ Len(u) = Len(stream) + Len(wire)
<1> DEFINE u == stream \o wire
           m == Len(stream)
           n == Len(wire)
           c == SubSeq(stream, 3, m)
           v == c \o wire
<1>1. m \in Nat /\ n \in Nat /\ m >= 2 /\ \A i \in 1 .. m : stream[i] \in TokenType
  BY DEF Complete
<1>2. /\ u \in Seq(TokenType) /\ Len(u) = m + n
      /\ \A i \in 1 .. m + n : u[i] = IF i <= m THEN stream[i] ELSE wire[i - m]
  BY ConcatProperties
<1> HIDE DEF u, n, m
<1>3. c \in Seq(TokenType) /\ Len(c) = m - 2 /\ \A i \in 1 .. m - 2 : c[i] = stream[i + 2]
  <2>1. \A i \in 3 .. m : stream[i] \in TokenType
    BY <1>1
  <2>2. /\ c \in Seq(TokenType) /\ Len(c) = (IF 3 <= m THEN m - 3 + 1 ELSE 0)
        /\ \A i \in 1 .. m - 3 + 1 : c[i] = stream[3 + i - 1]
    BY <1>1, <2>1, SubSeqProperties
  <2> HIDE DEF c
  <2>3. m - 3 + 1 = m - 2 /\ (~(3 <= m) => m - 2 = 0) /\ \A i \in 1 .. m - 2 : 3 + i - 1 = i + 2
    BY <1>1
  <2> QED
    BY <2>2, <2>3
<1> HIDE DEF c
<1>4. /\ v \in Seq(TokenType) /\ Len(v) = Len(c) + n
      /\ \A i \in 1 .. Len(c) + n : v[i] = IF i <= Len(c) THEN c[i] ELSE wire[i - Len(c)]
  BY <1>3, ConcatProperties DEF n
<1> HIDE DEF v
<1>5. ASSUME NEW i \in 1 .. Len(v) PROVE v[i] = u[i + 2]
  <2>1. i \in 1 .. (m - 2) + n /\ i + 2 \in 1 .. m + n
    BY <1>1, <1>3, <1>4
  <2>2. CASE i <= m - 2
    <3>1. i + 2 <= m /\ i \in 1 .. m - 2
      BY <1>1, <2>1, <2>2
    <3> QED
      BY <1>2, <1>3, <1>4, <2>1, <2>2, <3>1
  <2>3. CASE ~(i <= m - 2)
    <3>1. ~(i + 2 <= m) /\ (i + 2) - m = i - (m - 2)
      BY <1>1, <2>1, <2>3
    <3> QED
      BY <1>2, <1>3, <1>4, <2>1, <2>3, <3>1
  <2> QED
    BY <2>2, <2>3
<1>6. Len(u) = Len(v) + 2 /\ u[1] = stream[1]
  BY <1>1, <1>2, <1>3, <1>4
<1> QED
  BY <1>2, <1>4, <1>5, <1>6 DEF u, v, c, m, n

(* tls_recv_record finds the first of the records that are on the way.     *)
LEMMA FrontRecord ==
    ASSUME stream \in Seq(TokenType), wire \in Seq(TokenType), Complete,
           NEW recs \in Seq(RecordType), stream \o wire = Tokens(recs)
    PROVE  /\ recs # <<>> /\ ~Garbled /\ First = recs[1] /\ FrontType = {recs[1].type}
           /\ SubSeq(stream, 3, Len(stream)) \o wire = Tokens(Tail(recs))
<1> DEFINE u == stream \o wire
           m == Len(stream)
           n == Len(wire)
<1>1. m \in Nat /\ n \in Nat /\ m >= 2
  BY DEF Complete
<1>2. /\ u \in Seq(TokenType) /\ Len(u) = m + n
      /\ \A i \in 1 .. m + n : u[i] = IF i <= m THEN stream[i] ELSE wire[i - m]
  BY ConcatProperties
<1>3. u = Tokens(recs)
  OBVIOUS
<1> HIDE DEF u
<1>4. recs # <<>>
  BY <1>1, <1>2, <1>3, NoTokens
<1>5. /\ Len(u) = 2 * Len(recs)
      /\ \A i \in 1 .. Len(recs) : u[2 * i - 1] = <<recs[i], "header">> /\ u[2 * i] = <<recs[i], "payload">>
  BY <1>3, TokenRows
<1>6. stream[1] = <<recs[1], "header">> /\ stream[2] = <<recs[1], "payload">>
  <2>1. 1 \in 1 .. Len(recs) /\ 2 * 1 - 1 = 1 /\ 2 * 1 = 2
    BY <1>4
  <2>2. u[1] = <<recs[1], "header">> /\ u[2] = <<recs[1], "payload">>
    BY <1>5, <2>1
  <2>3. 1 \in 1 .. m + n /\ 2 \in 1 .. m + n /\ 1 <= m /\ 2 <= m
    BY <1>1
  <2> QED
    BY <1>2, <2>2, <2>3
<1>7. ~Garbled /\ First = recs[1] /\ FrontType = {recs[1].type}
  BY <1>6 DEF Garbled, First, FrontType
<1> DEFINE t == Tokens(Tail(recs))
           v == SubSeq(stream, 3, Len(stream)) \o wire
<1>8. t \in Seq(TokenType) /\ Len(u) = Len(t) + 2 /\ \A i \in 1 .. Len(t) : t[i] = u[i + 2]
  BY <1>3, <1>4, TokensTail, TokenRows
<1>9. v \in Seq(TokenType) /\ Len(u) = Len(v) + 2 /\ \A i \in 1 .. Len(v) : v[i] = u[i + 2]
  BY FrontTaken DEF u
<1> HIDE DEF v, t
<1>10. v = t
  <2>1. Len(v) \in Nat /\ Len(t) \in Nat
    BY <1>8, <1>9
  <2>2. Len(v) = Len(t)
    BY <1>8, <1>9, <2>1
  <2>3. \A i \in 1 .. Len(v) : v[i] = t[i]
    BY <1>8, <1>9, <2>2
  <2> QED
    BY <1>8, <1>9, <2>2, <2>3, SeqEqual
<1> QED
  BY <1>4, <1>7, <1>10 DEF v, t

(* A segment moves from the wire to the end of the buffer.                 *)
LEMMA SegmentMoves ==
    ASSUME NEW S, NEW s \in Seq(S), NEW w \in Seq(S), NEW n \in 1 .. Len(w)
    PROVE  (s \o SubSeq(w, 1, n)) \o SubSeq(w, n + 1, Len(w)) = s \o w
<1> DEFINE a == SubSeq(w, 1, n)
           b == SubSeq(w, n + 1, Len(w))
<1>1. Len(w) \in Nat /\ \A i \in 1 .. Len(w) : w[i] \in S
  OBVIOUS
<1>2. a \in Seq(S)
  <2>1. \A i \in 1 .. n : w[i] \in S
    BY <1>1
  <2> QED
    BY <1>1, <2>1, SubSeqProperties
<1>3. b \in Seq(S)
  <2>1. \A i \in n + 1 .. Len(w) : w[i] \in S
    BY <1>1
  <2> QED
    BY <1>1, <2>1, SubSeqProperties
<1>4. a \o b = w
  <2>1. 1 \in 1 .. Len(w) + 1 /\ n \in 1 - 1 .. Len(w) /\ Len(w) \in n .. Len(w)
    BY <1>1
  <2>2. SubSeq(w, 1, n) \o SubSeq(w, n + 1, Len(w)) = SubSeq(w, 1, Len(w))
    BY <2>1, ConcatAdjacentSubSeq
  <2> QED
    BY <2>2, SubSeqFull
<1> HIDE DEF a, b
<1>5. (s \o a) \o b = s \o (a \o b)
  BY <1>2, <1>3, SMTT(60)
<1> QED
  BY <1>4, <1>5 DEF a, b

(* Every token is one of the two of a record.                              *)
LEMMA TokenAt ==
    ASSUME NEW recs \in Seq(RecordType), NEW j \in 1 .. Len(Tokens(recs))
    PROVE  \E i \in 1 .. Len(recs) : \/ j = 2 * i - 1 /\ Tokens(recs)[j] = <<recs[i], "header">>
                                     \/ j = 2 * i /\ Tokens(recs)[j] = <<recs[i], "payload">>
<1>1. Len(recs) \in Nat /\ j \in 1 .. 2 * Len(recs)
  BY TokenRows
<1>2. PICK i \in 1 .. Len(recs) : j = 2 * i - 1 \/ j = 2 * i
  <2>1. CASE j % 2 = 1
    <3>1. (j + 1) \div 2 \in 1 .. Len(recs) /\ j = 2 * ((j + 1) \div 2) - 1
      BY <1>1, <2>1
    <3> QED
      BY <3>1
  <2>2. CASE j % 2 # 1
    <3>1. j \div 2 \in 1 .. Len(recs) /\ j = 2 * (j \div 2)
      BY <1>1, <2>2
    <3> QED
      BY <3>1
  <2> QED
    BY <2>1, <2>2
<1>3. /\ Tokens(recs)[2 * i - 1] = <<recs[i], "header">> /\ Tokens(recs)[2 * i] = <<recs[i], "payload">>
  BY TokenRows
<1> QED
  BY <1>2, <1>3

(* The rest of a response of which n records have been received            *)
Reply(i) ==
    IF i <= Len(server.reply) THEN Sealed(conn, i, "data", <<>>, server.reply[i])
    ELSE Sealed(conn, i, "alert", <<>>, 1)
RepliesFrom(n) == [i \in 1 .. (Len(server.reply) - n) + 1 |-> Reply(i + n)]

(* Its records                                                             *)
LEMMA RepliesAre ==
    ASSUME TokensOK, NEW n \in 0 .. Len(server.reply)
    PROVE  /\ RepliesFrom(n) \in Seq(RecordType) /\ Len(RepliesFrom(n)) = (Len(server.reply) - n) + 1
           /\ \A i \in 1 .. (Len(server.reply) - n) + 1 : RepliesFrom(n)[i] = Reply(i + n)
<1>1. Len(server.reply) \in Nat /\ conn \in Nat /\ \A i \in 1 .. Len(server.reply) : server.reply[i] \in Nat
  BY DEF TokensOK
<1>2. ASSUME NEW i \in 1 .. (Len(server.reply) - n) + 1 PROVE Reply(i + n) \in RecordType
  <2>1. i + n \in Nat /\ (i + n <= Len(server.reply) => i + n \in 1 .. Len(server.reply))
    BY <1>1
  <2>2. \A k \in Nat, x \in Nat : Sealed(conn, k, "data", <<>>, x) \in RecordType
    BY <1>1, EmptyParts DEF Sealed, RecordType, Text
  <2>3. \A k \in Nat : Sealed(conn, k, "alert", <<>>, 1) \in RecordType
    BY <1>1, EmptyParts DEF Sealed, RecordType, Text
  <2> QED
    BY <1>1, <2>1, <2>2, <2>3 DEF Reply
<1>3. (Len(server.reply) - n) + 1 \in Nat
  BY <1>1
<1> QED
  BY <1>2, <1>3 DEF RepliesFrom

(* A request has the server send all of its response.                      *)
LEMMA ReplySent ==
    ASSUME TokensOK, SendRequest
    PROVE  wire' = wire \o Tokens(RepliesFrom(0))
<1> DEFINE k == Len(server.reply)
           data == [i \in DOMAIN server.reply |-> Sealed(conn, i, "data", <<>>, server.reply[i])]
           close == Sealed(conn, k + 1, "alert", <<>>, 1)
           all == data \o <<close>>
<1>1. k \in Nat /\ conn \in Nat /\ DOMAIN server.reply = 1 .. k /\ \A i \in 1 .. k : server.reply[i] \in Nat
  BY DEF TokensOK
<1>2. ASSUME NEW i \in 1 .. k PROVE Sealed(conn, i, "data", <<>>, server.reply[i]) \in RecordType
  BY <1>1, EmptyParts DEF Sealed, RecordType, Text
<1>3. data \in Seq(RecordType) /\ Len(data) = k /\ \A i \in 1 .. k : data[i] = Sealed(conn, i, "data", <<>>, server.reply[i])
  BY <1>1, <1>2
<1>4. close \in RecordType
  BY <1>1, EmptyParts DEF Sealed, RecordType, Text
<1> HIDE DEF data, close
<1>5. <<close>> \in Seq(RecordType) /\ Len(<<close>>) = 1 /\ <<close>>[1] = close
  BY <1>4
<1>6. /\ all \in Seq(RecordType) /\ Len(all) = k + 1
      /\ \A i \in 1 .. k + 1 : all[i] = IF i <= k THEN data[i] ELSE <<close>>[i - k]
  <2> DEFINE one == <<close>>
  <2>1. one \in Seq(RecordType) /\ Len(one) = 1
    BY <1>5
  <2> HIDE DEF one, k
  <2>2. /\ data \o one \in Seq(RecordType) /\ Len(data \o one) = Len(data) + Len(one)
        /\ \A i \in 1 .. Len(data) + Len(one) : (data \o one)[i] = IF i <= Len(data) THEN data[i] ELSE one[i - Len(data)]
    BY <1>3, <2>1, ConcatProperties
  <2> QED
    BY <1>3, <2>1, <2>2 DEF one
<1> HIDE DEF all
<1>7. /\ RepliesFrom(0) \in Seq(RecordType) /\ Len(RepliesFrom(0)) = k + 1
      /\ \A i \in 1 .. k + 1 : RepliesFrom(0)[i] = Reply(i)
  <2>1. 0 \in 0 .. k /\ (k - 0) + 1 = k + 1 /\ \A i \in 1 .. k + 1 : i + 0 = i
    BY <1>1
  <2> QED
    BY <2>1, RepliesAre
<1>8. ASSUME NEW i \in 1 .. k + 1 PROVE all[i] = RepliesFrom(0)[i]
  <2>1. CASE i <= k
    <3>1. i \in 1 .. k
      BY <1>1, <2>1
    <3> QED
      BY <1>3, <1>6, <1>7, <2>1, <3>1 DEF Reply
  <2>2. CASE ~(i <= k)
    <3>1. i = k + 1 /\ i - k = 1
      BY <1>1, <2>2
    <3>2. all[i] = close
      BY <1>5, <1>6, <2>2, <3>1
    <3> QED
      BY <1>7, <2>2, <3>1, <3>2 DEF Reply, close
  <2> QED
    BY <2>1, <2>2
<1>9. all = RepliesFrom(0)
  BY <1>6, <1>7, <1>8, SeqEqual
<1>10. wire' = wire \o Tokens(all)
  BY DEF SendRequest, all, data, close
<1> QED
  BY <1>9, <1>10

-----------------------------------------------------------------------------
(* A response that ended with a close_notify leaves nothing behind. *)

OnWay == stream \o wire
Early == {"flight", "walk", "check", "ccs", "finished", "request"}

(* The close_notify of this connection comes last, and not before the      *)
(* request; with it the buffer is empty.                                   *)
Closing(t) == t[1].enc = conn /\ t[1].type = "alert"
CloseOK ==
    /\ pc \in Early => \A i \in 1 .. Len(OnWay) : ~Closing(OnWay[i])
    /\ pc = "body" => \A i \in 1 .. Len(OnWay) :
                         Closing(OnWay[i]) /\ OnWay[i][2] = "header" => i = Len(OnWay) - 1
    /\ (pc = "extract" \/ (pc = "idle" /\ res = TRUE)) /\ flaws \cap {"timeout", "full", "record"} = {} =>
          stream = <<>>

(* The types of what is on the way                                         *)
LEMMA OnWayType ==
    ASSUME Inv
    PROVE  /\ stream \in Seq(TokenType) /\ wire \in Seq(TokenType) /\ OnWay \in Seq(TokenType)
           /\ Len(OnWay) \in Nat /\ TokensOK
<1>1. stream \in Seq(TokenType) /\ wire \in Seq(TokenType) /\ TokensOK
  BY DEF Inv, TokensOK
<1>2. OnWay \in Seq(TokenType)
  BY <1>1, ConcatProperties DEF OnWay
<1> QED
  BY <1>1, <1>2

(* More is sent.                                                           *)
LEMMA OnWayGrows ==
    ASSUME Inv, NEW recs \in Seq(RecordType), wire' = wire \o Tokens(recs), UNCHANGED stream
    PROVE  /\ OnWay' = OnWay \o Tokens(recs) /\ Len(OnWay') = Len(OnWay) + 2 * Len(recs)
           /\ \A i \in 1 .. Len(OnWay) : OnWay'[i] = OnWay[i]
           /\ \A i \in 1 .. 2 * Len(recs) : OnWay'[Len(OnWay) + i] = Tokens(recs)[i]
<1> DEFINE t == Tokens(recs)
           u == OnWay
           v == OnWay'
<1>1. t \in Seq(TokenType) /\ Len(t) = 2 * Len(recs) /\ Len(recs) \in Nat
  BY TokenRows
<1>2. stream \in Seq(TokenType) /\ wire \in Seq(TokenType) /\ u \in Seq(TokenType)
  BY OnWayType
<1> HIDE DEF t
<1>3. stream \o (wire \o t) = (stream \o wire) \o t
  BY <1>1, <1>2, SMTT(60)
<1>4. v = u \o t
  BY <1>3 DEF OnWay, t
<1> HIDE DEF u, v
<1>5. /\ Len(u \o t) = Len(u) + Len(t)
      /\ \A i \in 1 .. Len(u) + Len(t) : (u \o t)[i] = IF i <= Len(u) THEN u[i] ELSE t[i - Len(u)]
  BY <1>1, <1>2, ConcatProperties
<1>6. Len(u) \in Nat /\ Len(t) \in Nat
  BY <1>1, <1>2
<1>7. /\ \A i \in 1 .. Len(u) : i \in 1 .. Len(u) + Len(t) /\ i <= Len(u)
      /\ \A i \in 1 .. Len(t) : Len(u) + i \in 1 .. Len(u) + Len(t) /\ ~(Len(u) + i <= Len(u)) /\ (Len(u) + i) - Len(u) = i
  BY <1>6
<1>8. /\ \A i \in 1 .. Len(u) : v[i] = u[i]
      /\ \A i \in 1 .. Len(t) : v[Len(u) + i] = t[i]
  BY <1>4, <1>5, <1>7
<1> QED
  BY <1>1, <1>4, <1>5, <1>8 DEF u, v, t

(* tls_stream_fill leaves what is on the way as it is.                     *)
LEMMA FillMoves ==
    ASSUME Inv, Fill
    PROVE  \/ OnWay' = OnWay /\ UNCHANGED <<pc, res, flaws>>
           \/ Refused("full")
<1>1. PICK n \in 1 .. SegMax :
         /\ n <= Len(wire) /\ wire' = SubSeq(wire, n + 1, Len(wire))
         /\ IF Len(stream) + n > StreamMax THEN Refused("full") /\ UNCHANGED stream
            ELSE stream' = stream \o SubSeq(wire, 1, n) /\ UNCHANGED <<pc, res, flaws>>
  BY DEF Fill
<1>2. stream \in Seq(TokenType) /\ wire \in Seq(TokenType) /\ SegMax \in Nat
  BY OnWayType, TlsAssumption
<1>3. n \in 1 .. Len(wire)
  BY <1>1, <1>2
<1>4. (stream \o SubSeq(wire, 1, n)) \o SubSeq(wire, n + 1, Len(wire)) = stream \o wire
  BY <1>2, <1>3, SegmentMoves
<1> QED
  BY <1>1, <1>4 DEF OnWay

(* tls_stream_consume takes the first two tokens.                          *)
LEMMA ConsumeTakes ==
    ASSUME Inv, Complete, Consume, UNCHANGED wire
    PROVE  /\ OnWay \in Seq(TokenType) /\ Len(OnWay) \in Nat
           /\ OnWay' \in Seq(TokenType) /\ Len(OnWay') \in Nat /\ Len(OnWay) = Len(OnWay') + 2
           /\ \A i \in 1 .. Len(OnWay') : OnWay'[i] = OnWay[i + 2]
           /\ OnWay[1] = stream[1] /\ Len(OnWay) = Len(stream) + Len(wire)
<1>1. stream \in Seq(TokenType) /\ wire \in Seq(TokenType)
  BY OnWayType
<1>2. OnWay = stream \o wire /\ OnWay' = SubSeq(stream, 3, Len(stream)) \o wire
  BY DEF OnWay, Consume
<1>3. /\ OnWay \in Seq(TokenType) /\ OnWay' \in Seq(TokenType) /\ Len(OnWay) = Len(OnWay') + 2
      /\ \A i \in 1 .. Len(OnWay') : OnWay'[i] = OnWay[i + 2]
      /\ OnWay[1] = stream[1] /\ Len(OnWay) = Len(stream) + Len(wire)
  BY <1>1, <1>2, FrontTaken
<1> QED
  BY <1>3

(* The call returns without a response, or goes on as far as before.       *)
LEMMA ClosePlain ==
    ASSUME CloseOK,
           \/ pc' = "idle" /\ res' = FALSE
           \/ pc' = "extract" /\ flaws' \cap {"timeout", "full", "record"} # {}
           \/ OnWay' = OnWay /\ UNCHANGED conn /\ pc \in Early /\ pc' \in Early
           \/ OnWay' = OnWay /\ UNCHANGED conn /\ pc = "body" /\ pc' = "body"
    PROVE  CloseOK'
  BY DEF CloseOK, Closing, Early

(* A record before the request is taken.                                   *)
LEMMA CloseTakes ==
    ASSUME Inv, CloseOK, Complete, Consume, UNCHANGED <<wire, conn>>, pc \in Early,
           pc' \in Early \/ (pc' = "idle" /\ res' = FALSE)
    PROVE  CloseOK'
<1>1. CASE pc' = "idle" /\ res' = FALSE
  BY <1>1, ClosePlain
<1>2. CASE pc' \in Early
  <2>1. /\ Len(OnWay) \in Nat /\ Len(OnWay') \in Nat /\ Len(OnWay) = Len(OnWay') + 2
        /\ \A i \in 1 .. Len(OnWay') : OnWay'[i] = OnWay[i + 2]
    BY ConsumeTakes
  <2>2. ASSUME NEW i \in 1 .. Len(OnWay') PROVE ~(OnWay'[i][1].enc = conn /\ OnWay'[i][1].type = "alert")
    <3>1. i + 2 \in 1 .. Len(OnWay) /\ OnWay'[i] = OnWay[i + 2]
      BY <2>1
    <3>2. ~Closing(OnWay[i + 2])
      BY <3>1 DEF CloseOK
    <3> QED
      BY <3>1, <3>2 DEF Closing
  <2> QED
    BY <1>2, <2>2 DEF CloseOK, Closing, Early
<1> QED
  BY <1>1, <1>2

(* The client's Finished: the server's answer is none.                     *)
LEMMA CloseFinished == ASSUME Inv, CloseOK, SendFinished PROVE CloseOK'
<1> DEFINE upTo == Extended(transcript, KeyExchange(conn))
           theirs == Append(server.transcript, KeyExchange(conn))
           fin == Sealed(conn, 0, "handshake", <<[msg |-> Finished(conn, "server"), last |-> TRUE]>>, 1)
           recs == IF upTo = theirs THEN <<Clear("ccs", <<>>), fin>> ELSE <<Clear("alert", <<>>)>>
<1>1. /\ pc = "check" /\ pc' = "ccs" /\ UNCHANGED <<conn, stream>> /\ wire' = wire \o Tokens(recs)
  BY DEF SendFinished
<1>2. conn \in Nat /\ conn # 0
  BY <1>1 DEF Inv, TokensOK
<1>3. /\ fin \in RecordType /\ fin.type = "handshake"
      /\ Clear("ccs", <<>>) \in RecordType /\ Clear("ccs", <<>>).enc = 0
      /\ Clear("alert", <<>>) \in RecordType /\ Clear("alert", <<>>).enc = 0
  <2>1. [msg |-> Finished(conn, "server"), last |-> TRUE] \in PartType
    BY <1>2 DEF Finished, Msg, PartType, Text
  <2>2. <<[msg |-> Finished(conn, "server"), last |-> TRUE]>> \in Seq(PartType)
    BY <2>1
  <2> QED
    BY <1>2, <2>2, EmptyParts DEF Sealed, Clear, RecordType, Text
<1> HIDE DEF fin
<1>4. /\ recs \in Seq(RecordType) /\ Len(recs) \in Nat
      /\ \A i \in 1 .. Len(recs) : recs[i].enc = 0 \/ recs[i].type = "handshake"
  BY <1>3
<1> HIDE DEF recs
<1>5. /\ Len(OnWay') = Len(OnWay) + 2 * Len(recs) /\ Len(OnWay) \in Nat
      /\ \A i \in 1 .. Len(OnWay) : OnWay'[i] = OnWay[i]
      /\ \A i \in 1 .. 2 * Len(recs) : OnWay'[Len(OnWay) + i] = Tokens(recs)[i]
  BY <1>1, <1>4, OnWayGrows, OnWayType
<1>6. ASSUME NEW i \in 1 .. Len(OnWay') PROVE ~(OnWay'[i][1].enc = conn /\ OnWay'[i][1].type = "alert")
  <2>1. CASE i <= Len(OnWay)
    <3>1. i \in 1 .. Len(OnWay)
      BY <1>5, <2>1
    <3>2. ~Closing(OnWay[i])
      BY <1>1, <3>1 DEF CloseOK, Early
    <3> QED
      BY <1>5, <3>1, <3>2 DEF Closing
  <2>2. CASE ~(i <= Len(OnWay))
    <3> DEFINE j == i - Len(OnWay)
    <3>1. j \in 1 .. 2 * Len(recs) /\ Len(OnWay) + j = i
      BY <1>4, <1>5, <2>2
    <3> HIDE DEF j
    <3>2. OnWay'[i] = Tokens(recs)[j] /\ j \in 1 .. Len(Tokens(recs))
      BY <1>4, <1>5, <3>1, TokenRows
    <3>3. PICK k \in 1 .. Len(recs) : Tokens(recs)[j][1] = recs[k]
      BY <1>4, <3>2, TokenAt
    <3> QED
      BY <1>2, <1>4, <3>2, <3>3
  <2> QED
    BY <2>1, <2>2
<1> QED
  BY <1>1, <1>6 DEF CloseOK, Closing, Early

(* The request: the close_notify is the last record that will come.        *)
LEMMA CloseRequest == ASSUME Inv, CloseOK, SendRequest PROVE CloseOK'
<1> DEFINE k == Len(server.reply)
           recs == RepliesFrom(0)
<1>1. /\ pc = "request" /\ pc' = "body" /\ UNCHANGED <<conn, stream>> /\ TokensOK
  BY OnWayType DEF SendRequest
<1>2. k \in Nat /\ recs \in Seq(RecordType) /\ Len(recs) = k + 1 /\ \A i \in 1 .. k + 1 : recs[i] = Reply(i)
  <2>1. k \in Nat
    BY <1>1 DEF TokensOK
  <2>2. 0 \in 0 .. k /\ (k - 0) + 1 = k + 1 /\ \A i \in 1 .. k + 1 : i + 0 = i
    BY <2>1
  <2> QED
    BY <1>1, <2>1, <2>2, RepliesAre
<1>3. wire' = wire \o Tokens(recs)
  BY <1>1, ReplySent
<1> HIDE DEF recs
<1>4. /\ Len(OnWay') = Len(OnWay) + 2 * Len(recs) /\ Len(OnWay) \in Nat
      /\ \A i \in 1 .. Len(OnWay) : OnWay'[i] = OnWay[i]
      /\ \A i \in 1 .. 2 * Len(recs) : OnWay'[Len(OnWay) + i] = Tokens(recs)[i]
  BY <1>1, <1>2, <1>3, OnWayGrows, OnWayType
<1>5. ASSUME NEW i \in 1 .. Len(OnWay'),
             OnWay'[i][1].enc = conn /\ OnWay'[i][1].type = "alert" /\ OnWay'[i][2] = "header"
      PROVE  i = Len(OnWay') - 1
  <2>1. CASE i <= Len(OnWay)
    <3>1. i \in 1 .. Len(OnWay)
      BY <1>4, <2>1
    <3>2. ~Closing(OnWay[i])
      BY <1>1, <3>1 DEF CloseOK, Early
    <3> QED
      BY <1>4, <1>5, <3>1, <3>2 DEF Closing
  <2>2. CASE ~(i <= Len(OnWay))
    <3> DEFINE j == i - Len(OnWay)
    <3>1. j \in 1 .. 2 * Len(recs) /\ Len(OnWay) + j = i
      BY <1>2, <1>4, <2>2
    <3> HIDE DEF j
    <3>2. OnWay'[i] = Tokens(recs)[j] /\ j \in 1 .. Len(Tokens(recs))
      BY <1>2, <1>4, <3>1, TokenRows
    <3>3. PICK n \in 1 .. Len(recs) : \/ j = 2 * n - 1 /\ Tokens(recs)[j] = <<recs[n], "header">>
                                      \/ j = 2 * n /\ Tokens(recs)[j] = <<recs[n], "payload">>
      BY <1>2, <3>2, TokenAt
    <3>4. j = 2 * n - 1 /\ recs[n].type = "alert"
      BY <1>5, <3>2, <3>3
    <3>5. n = k + 1
      <4>1. ASSUME n <= k PROVE FALSE
        <5>1. recs[n] = Sealed(conn, n, "data", <<>>, server.reply[n])
          BY <1>2, <4>1 DEF Reply
        <5> QED
          BY <3>4, <5>1 DEF Sealed
      <4> QED
        BY <1>2, <3>3, <4>1
    <3> QED
      BY <1>2, <1>4, <3>1, <3>4, <3>5
  <2> QED
    BY <2>1, <2>2
<1> QED
  BY <1>1, <1>5 DEF CloseOK, Closing, Early

(* A record of the response, or the close_notify, with which the buffer is *)
(* empty                                                                   *)
LEMMA CloseBody == ASSUME Inv, CloseOK, RecvBody PROVE CloseOK'
<1>1. /\ pc = "body" /\ Complete /\ Consume /\ UNCHANGED <<conn, wire>>
      /\ pc' = (IF IsData THEN "body" ELSE "extract")
      /\ flaws' = flaws \cup
            (IF IsData THEN IF RespSize + First.size <= RespMax THEN {} ELSE {"skipped"}
             ELSE IF Authentic /\ First.type = "alert" THEN {} ELSE {"record"})
  BY DEF RecvBody
<1>2. /\ Len(OnWay) \in Nat /\ Len(OnWay') \in Nat /\ Len(OnWay) = Len(OnWay') + 2
      /\ \A i \in 1 .. Len(OnWay') : OnWay'[i] = OnWay[i + 2]
      /\ OnWay[1] = stream[1] /\ Len(OnWay) = Len(stream) + Len(wire)
  BY <1>1, ConsumeTakes
<1>3. CASE IsData
  <2>1. ASSUME NEW i \in 1 .. Len(OnWay'),
               OnWay'[i][1].enc = conn /\ OnWay'[i][1].type = "alert" /\ OnWay'[i][2] = "header"
        PROVE  i = Len(OnWay') - 1
    <3>1. i + 2 \in 1 .. Len(OnWay) /\ OnWay'[i] = OnWay[i + 2]
      BY <1>2
    <3>2. i + 2 = Len(OnWay) - 1
      BY <1>1, <2>1, <3>1 DEF CloseOK, Closing
    <3> QED
      BY <1>2, <3>2
  <2> QED
    BY <1>1, <1>3, <2>1 DEF CloseOK, Closing, Early
<1>4. CASE ~IsData
  <2>1. CASE Authentic /\ First.type = "alert"
    <3>1. Closing(OnWay[1]) /\ OnWay[1][2] = "header"
      BY <1>2, <2>1 DEF Authentic, Garbled, First, Closing
    <3>2. 1 \in 1 .. Len(OnWay)
      BY <1>2
    <3>3. 1 = Len(OnWay) - 1
      BY <1>1, <3>1, <3>2 DEF CloseOK
    <3>4. stream \in Seq(TokenType) /\ wire \in Seq(TokenType) /\ Len(stream) >= 2
      BY <1>1, OnWayType DEF Complete
    <3>5. Len(stream) = 2
      <4> DEFINE a == Len(stream)
                 b == Len(wire)
                 c == Len(OnWay)
      <4>1. a \in Nat /\ b \in Nat /\ c = a + b /\ a >= 2 /\ 1 = c - 1
        BY <1>2, <3>3, <3>4
      <4> HIDE DEF a, b, c
      <4>2. a = 2
        BY <4>1
      <4> QED
        BY <4>2 DEF a
    <3>6. stream' = SubSeq(stream, 3, 2)
      BY <1>1, <3>5 DEF Consume
    <3>7. stream' = <<>>
      BY <3>6, SubSeqEmpty
    <3> QED
      BY <1>1, <1>4, <3>7 DEF CloseOK, Early
  <2>2. CASE ~(Authentic /\ First.type = "alert")
    BY <1>1, <1>4, <2>2, ClosePlain
  <2> QED
    BY <2>1, <2>2
<1> QED
  BY <1>3, <1>4

(* A new connection: what the buffer holds is of earlier ones.             *)
LEMMA CloseConnect == ASSUME Inv, CloseOK, Connect PROVE CloseOK'
<1>1. /\ pc = "idle" /\ pc' = "flight" /\ conn' = conn + 1 /\ stream' = stream /\ conn \in Nat
      /\ \E s \in Servers : wire' = Tokens(FlightOf(s, conn + 1))
  BY DEF Connect, Open, Inv, TokensOK
<1>2. PICK s \in Servers : wire' = Tokens(FlightOf(s, conn + 1))
  BY <1>1
<1> DEFINE recs == FlightOf(s, conn + 1)
<1>3. recs \in Seq(RecordType) /\ \A j \in 1 .. Len(recs) : recs[j].enc = 0
  BY <1>1, FlightInClear
<1> HIDE DEF recs
<1>4. stream \in Seq(TokenType) /\ \A i \in 1 .. Len(stream) : stream[i][1].enc \in Nat /\ stream[i][1].enc <= conn
  <2>1. stream \in Seq(TokenType) /\ \A i \in 1 .. Len(stream) : stream[i] \in TokenType
    BY OnWayType
  <2>2. \A t \in TokenType : t[1].enc \in Nat
    BY DEF TokenType, RecordType
  <2>3. \A i \in 1 .. Len(stream) : stream[i][1].enc <= conn
    <3>1. CASE conn = 0
      BY <3>1 DEF Inv, TokensOK
    <3>2. CASE conn # 0
      BY <3>2 DEF Inv, TokensOK, Sound
    <3> QED
      BY <3>1, <3>2
  <2> QED
    BY <2>1, <2>2, <2>3
<1> DEFINE w == Tokens(recs)
<1>5. w \in Seq(TokenType) /\ \A i \in 1 .. Len(w) : w[i][1].enc = 0
  <2>1. w \in Seq(TokenType) /\ \A i \in 1 .. Len(w) : \E j \in 1 .. Len(recs) : w[i][1] = recs[j]
    BY <1>3, TokensOf
  <2> QED
    BY <1>3, <2>1
<1> HIDE DEF w
<1>6. /\ Len(stream \o w) = Len(stream) + Len(w) /\ Len(stream) \in Nat /\ Len(w) \in Nat
      /\ \A i \in 1 .. Len(stream) + Len(w) : (stream \o w)[i] = IF i <= Len(stream) THEN stream[i] ELSE w[i - Len(stream)]
  BY <1>4, <1>5, ConcatProperties
<1>7. OnWay' = stream \o w
  BY <1>1, <1>2 DEF OnWay, w, recs
<1>8. ASSUME NEW i \in 1 .. Len(OnWay') PROVE OnWay'[i][1].enc # conn + 1
  <2>1. i \in 1 .. Len(stream) + Len(w)
    BY <1>6, <1>7
  <2>2. CASE i <= Len(stream)
    <3>1. i \in 1 .. Len(stream) /\ OnWay'[i] = stream[i]
      BY <1>6, <1>7, <2>1, <2>2
    <3> QED
      BY <1>1, <1>4, <3>1
  <2>3. CASE ~(i <= Len(stream))
    <3>1. i - Len(stream) \in 1 .. Len(w) /\ OnWay'[i] = w[i - Len(stream)]
      BY <1>6, <1>7, <2>1, <2>3
    <3> QED
      BY <1>1, <1>5, <3>1
  <2> QED
    BY <2>2, <2>3
<1> QED
  BY <1>1, <1>8 DEF CloseOK, Closing, Early

(* One case per action                                                     *)
LEMMA CloseStep == ASSUME Inv, CloseOK, [Next]_vars PROVE CloseOK'
<1>1. CASE Connect
  BY <1>1, CloseConnect
<1>2. CASE ConnectFails
  BY <1>2, ClosePlain DEF ConnectFails, Fail
<1>3. CASE Fill
  <2>1. pc \in Receiving /\ UNCHANGED conn
    BY <1>3 DEF Fill
  <2>2. CASE Refused("full")
    BY <2>2, ClosePlain DEF Refused, Fail
  <2>3. CASE OnWay' = OnWay /\ UNCHANGED <<pc, res, flaws>>
    <3>1. pc \in Early \/ pc = "body"
      BY <2>1 DEF Receiving, Early
    <3> QED
      BY <2>1, <2>3, <3>1, ClosePlain
  <2> QED
    BY <1>3, <2>2, <2>3, FillMoves
<1>4. CASE RecvTimeout
  BY <1>4, ClosePlain DEF RecvTimeout, Refused, Fail
<1>5. CASE RecvFlight
  <2>1. pc = "flight" /\ Complete /\ Consume /\ UNCHANGED <<conn, wire>>
        /\ (pc' \in {"flight", "walk"} \/ (pc' = "idle" /\ res' = FALSE))
    BY <1>5 DEF RecvFlight, Fail
  <2> QED
    BY <2>1, CloseTakes DEF Early
<1>6. CASE WalkMessage \/ WalkEnds \/ WalkGarbage \/ CheckFails \/ SendFails
  <2>1. /\ OnWay' = OnWay /\ UNCHANGED conn /\ pc \in Early
        /\ pc' \in Early \/ (pc' = "idle" /\ res' = FALSE)
    BY <1>6 DEF WalkMessage, WalkEnds, WalkGarbage, CheckFails, SendFails, Fail, OnWay, Early
  <2> QED
    BY <2>1, ClosePlain
<1>7. CASE SendFinished
  BY <1>7, CloseFinished
<1>8. CASE RecvCcs \/ RecvFinished
  <2>1. /\ pc \in Early /\ Complete /\ Consume /\ UNCHANGED <<conn, wire>>
        /\ pc' \in Early \/ (pc' = "idle" /\ res' = FALSE)
    BY <1>8 DEF RecvCcs, RecvFinished, Fail, Early
  <2> QED
    BY <2>1, CloseTakes
<1>9. CASE SendRequest
  BY <1>9, CloseRequest
<1>10. CASE RecvBody
  BY <1>10, CloseBody
<1>11. CASE Extract
  BY <1>11 DEF Extract, CloseOK, Early
<1>12. CASE UNCHANGED session
  BY <1>12 DEF session, CloseOK, Closing, OnWay, Early
<1> QED
  BY <1>1, <1>2, <1>3, <1>4, <1>5, <1>6, <1>7, <1>8, <1>9, <1>10, <1>11, <1>12
  DEF Next, Client, Step, Handshake, Chatter, vars

-----------------------------------------------------------------------------
(* A server that keeps to the protocol is served *)

(* What is still to come of the flight, and what the client has made of    *)
(* the rest                                                                *)
FlightComes(recs) ==
    /\ recs \in Seq(RecordType) /\ OnWay = Tokens(recs)
    /\ \A i \in 1 .. Len(recs) :
          /\ recs[i].type = "handshake" /\ recs[i].enc = 0
          /\ \A j \in 1 .. Len(recs[i].parts) : recs[i].parts[j].msg.conn = conn
    /\ recs # <<>> => HasLast(recs[Len(recs)].parts)
    /\ \A i \in 1 .. Len(flight) : flight[i].msg.conn = conn
    /\ server.transcript = transcript \o Messages(flight \o AllParts(recs))
GotSoFar(n, t) ==
    /\ n >= 1 /\ got.hello = (n >= 2) /\ got.done = (n = Len(t))
    /\ n >= 2 => got.random = conn /\ got.suite = t[2].arg
    /\ n >= 3 => got.cert = Host
    /\ n >= 4 /\ Len(t) = 5 => got.ske = TRUE
GotInOrder ==
    /\ flight \in Seq(PartType) /\ got \in GotType
    /\ transcript \in Seq(MsgType) /\ server.transcript \in Seq(MsgType)
    /\ server.transcript # <<>> /\ InOrder(Tail(server.transcript))
    /\ GotSoFar(Len(transcript), server.transcript)

(* The response as far as it has come                                      *)
RespAsSent ==
    Len(resp) <= Len(server.reply) /\ \A i \in 1 .. Len(resp) : resp[i].size = server.reply[i]
FinishedRec ==
    Sealed(conn, 0, "handshake", <<[msg |-> Finished(conn, "server"), last |-> TRUE]>>, 1)

Track ==
    /\ server.reply # <<>>
    /\ pc \in {"flight", "walk"} => GotInOrder /\ \E recs \in Seq(RecordType) : FlightComes(recs)
    /\ pc = "check" => GotInOrder /\ got.done = TRUE /\ transcript = server.transcript /\ OnWay = <<>>
    /\ pc \in {"ccs", "finished"} => transcript = server.transcript
    /\ pc = "ccs" => OnWay = Tokens(<<Clear("ccs", <<>>), FinishedRec>>)
    /\ pc = "finished" => OnWay = Tokens(<<FinishedRec>>)
    /\ pc = "request" => OnWay = <<>>
    /\ pc = "body" => RespAsSent /\ OnWay = Tokens(RepliesFrom(Len(resp)))
    /\ pc \in {"extract", "idle"} => RespAsSent /\ Len(resp) = Len(server.reply)
    /\ pc = "idle" => res = TRUE

(* While nothing has gone wrong, all is as it should be.                   *)
Smooth == clean = TRUE /\ flaws = {} /\ Honest
TrackOK == Smooth => Track

(* Messages that follow messages add to their size.                        *)
LEMMA SizeConcat ==
    ASSUME NEW s \in Seq(MsgType), NEW t \in Seq(MsgType)
    PROVE  /\ TotalSize(s) \in Nat /\ TotalSize(s \o t) \in Nat /\ TotalSize(s) <= TotalSize(s \o t)
<1> DEFINE sizes(q) == [i \in DOMAIN q |-> q[i].size]
           u == s \o t
<1>1. ASSUME NEW q \in Seq(MsgType)
      PROVE  /\ sizes(q) \in Seq(Nat) /\ Len(sizes(q)) = Len(q) /\ TotalSize(q) = TotalOf(sizes(q))
             /\ \A i \in 1 .. Len(q) : sizes(q)[i] = q[i].size
  <2>1. DOMAIN q = 1 .. Len(q) /\ Len(q) \in Nat /\ \A i \in 1 .. Len(q) : q[i] \in MsgType
    OBVIOUS
  <2>2. \A x \in MsgType : x.size \in Nat
    BY DEF MsgType
  <2>3. \A i \in 1 .. Len(q) : q[i].size \in Nat
    BY <2>1, <2>2
  <2> QED
    BY <2>1, <2>3 DEF TotalSize
<1>2. /\ u \in Seq(MsgType) /\ Len(u) = Len(s) + Len(t)
      /\ \A i \in 1 .. Len(s) + Len(t) : u[i] = IF i <= Len(s) THEN s[i] ELSE t[i - Len(s)]
  BY ConcatProperties
<1> HIDE DEF u, sizes
<1> DEFINE a == sizes(s)
           b == sizes(t)
           c == sizes(u)
           d == a \o b
<1>3. a \in Seq(Nat) /\ Len(a) = Len(s) /\ TotalSize(s) = TotalOf(a) /\ \A i \in 1 .. Len(s) : a[i] = s[i].size
  BY <1>1
<1>4. b \in Seq(Nat) /\ Len(b) = Len(t) /\ \A i \in 1 .. Len(t) : b[i] = t[i].size
  BY <1>1
<1>5. c \in Seq(Nat) /\ Len(c) = Len(u) /\ TotalSize(u) = TotalOf(c) /\ \A i \in 1 .. Len(u) : c[i] = u[i].size
  BY <1>1, <1>2
<1> HIDE DEF a, b, c
<1>6. /\ d \in Seq(Nat) /\ Len(d) = Len(a) + Len(b)
      /\ \A i \in 1 .. Len(a) + Len(b) : d[i] = IF i <= Len(a) THEN a[i] ELSE b[i - Len(a)]
  BY <1>3, <1>4, ConcatProperties
<1>7. TotalOf(a) \in Nat /\ TotalOf(b) \in Nat /\ TotalOf(d) = TotalOf(a) + TotalOf(b)
  BY <1>3, <1>4, SumConcat
<1> HIDE DEF d
<1>8. Len(s) \in Nat /\ Len(t) \in Nat
  OBVIOUS
<1>9. ASSUME NEW i \in 1 .. Len(c) PROVE c[i] = d[i]
  <2>1. i \in 1 .. Len(s) + Len(t)
    BY <1>2, <1>5
  <2>2. CASE i <= Len(s)
    <3>1. i \in 1 .. Len(s) /\ u[i] = s[i] /\ d[i] = a[i]
      BY <1>2, <1>3, <1>4, <1>6, <1>8, <2>1, <2>2
    <3> QED
      BY <1>2, <1>3, <1>5, <2>1, <3>1
  <2>3. CASE ~(i <= Len(s))
    <3>1. i - Len(s) \in 1 .. Len(t) /\ u[i] = t[i - Len(s)] /\ d[i] = b[i - Len(s)]
      BY <1>2, <1>3, <1>4, <1>6, <1>8, <2>1, <2>3
    <3> QED
      BY <1>2, <1>4, <1>5, <2>1, <3>1
  <2> QED
    BY <2>2, <2>3
<1>10. c = d
  <2>1. Len(c) = Len(d)
    BY <1>2, <1>3, <1>4, <1>5, <1>6
  <2> QED
    BY <1>5, <1>6, <1>9, <2>1, SeqEqual
<1> QED
  BY <1>3, <1>5, <1>7, <1>10 DEF u

(* The flight of a server that keeps to the protocol                       *)
LEMMA ProperFlight ==
    ASSUME NEW s \in Servers, KeepsProtocol(s), NEW k \in Nat
    PROVE  LET recs == FlightOf(s, k) IN
           /\ recs \in Seq(RecordType) /\ recs # <<>>
           /\ \A i \in 1 .. Len(recs) :
                 /\ recs[i].type = "handshake" /\ recs[i].enc = 0
                 /\ \A j \in 1 .. Len(recs[i].parts) : recs[i].parts[j].msg.conn = k
           /\ HasLast(recs[Len(recs)].parts)
<1> DEFINE recs == FlightOf(s, k)
           P == [m : STRING, arg : STRING, size : Nat, last : BOOLEAN]
           R == [type : STRING, parts : Seq(P)]
           n == Len(s.flight)
<1>1. recs \in Seq(RecordType) /\ \A i \in 1 .. Len(recs) : recs[i].enc = 0
  BY FlightInClear
<1>2. s.flight \in Seq(R)
  BY TlsAssumption DEF FlightType
<1>3. \A x \in R : x.parts \in Seq(P)
  OBVIOUS
<1>4. n \in Nat /\ n # 0 /\ DOMAIN s.flight = 1 .. n /\ \A i \in 1 .. n : s.flight[i] \in R
  <2> HIDE DEF R
  <2> QED
    BY <1>2 DEF KeepsProtocol
<1>5. DOMAIN recs = 1 .. n
  BY <1>4 DEF FlightOf
<1>6. Len(recs) = n
  BY <1>1, <1>4, <1>5
<1>7. ASSUME NEW i \in 1 .. n
      PROVE  /\ recs[i].type = s.flight[i].type /\ Len(recs[i].parts) = Len(s.flight[i].parts)
             /\ \A j \in 1 .. Len(s.flight[i].parts) :
                   recs[i].parts[j].msg.conn = k /\ recs[i].parts[j].last = s.flight[i].parts[j].last
  <2> DEFINE ps == s.flight[i].parts
             qs == [x \in DOMAIN ps |-> [msg |-> Msg(k, ps[x].m, ps[x].arg, ps[x].size), last |-> ps[x].last]]
  <2>1. recs[i] = Clear(s.flight[i].type, qs)
    BY <1>4 DEF FlightOf
  <2>2. recs[i].type = s.flight[i].type /\ recs[i].parts = qs
    <3> HIDE DEF recs, ps, qs
    <3> QED
      BY <2>1 DEF Clear
  <2>3. ps \in Seq(P)
    BY <1>3, <1>4
  <2>4. DOMAIN ps = 1 .. Len(ps) /\ Len(ps) \in Nat
    BY <2>3
  <2>5. Len(qs) = Len(ps)
    BY <2>4
  <2>6. ASSUME NEW j \in 1 .. Len(ps) PROVE qs[j].msg.conn = k /\ qs[j].last = ps[j].last
    BY <2>4 DEF Msg
  <2> HIDE DEF recs, qs
  <2> QED
    BY <2>2, <2>5, <2>6
<1> HIDE DEF recs, R
<1>8. recs # <<>>
  BY <1>4, <1>6
<1>9. HasLast(recs[n].parts)
  <2>1. n \in 1 .. n
    BY <1>4
  <2>2. PICK j \in 1 .. Len(s.flight[n].parts) : s.flight[n].parts[j].last = TRUE
    BY DEF KeepsProtocol, HasLast
  <2> QED
    BY <1>7, <2>1, <2>2 DEF HasLast
<1>10. \A i \in 1 .. n : s.flight[i].type = "handshake"
  BY DEF KeepsProtocol
<1>11. /\ \A i \in 1 .. Len(recs) :
             /\ recs[i].type = "handshake" /\ recs[i].enc = 0
             /\ \A j \in 1 .. Len(recs[i].parts) : recs[i].parts[j].msg.conn = k
       /\ HasLast(recs[Len(recs)].parts)
  BY <1>1, <1>6, <1>7, <1>9, <1>10
<1> QED
  BY <1>1, <1>8, <1>11 DEF recs

-----------------------------------------------------------------------------
(* One lemma per action *)

(* What was smooth until now was so before.                                *)
LEMMA SmoothBefore ==
    ASSUME TrackOK, Smooth', UNCHANGED <<clean, server>>, flaws \subseteq flaws'
    PROVE  Smooth /\ Track
<1>1. Smooth
  BY DEF Smooth, Honest
<1> QED
  BY <1>1 DEF TrackOK

(* A call with a flaw is not smooth any more.                              *)
LEMMA TrackFails == ASSUME NEW x, flaws' = flaws \cup {x} PROVE TrackOK'
  BY DEF TrackOK, Smooth

(* Nothing moves but between wire and buffer.                              *)
LEMMA TrackStays ==
    ASSUME TrackOK, OnWay' = OnWay,
           UNCHANGED <<pc, conn, flight, got, transcript, resp, res, server, clean, flaws>>
    PROVE  TrackOK'
<1>1. SUFFICES ASSUME Smooth' PROVE Track'
  BY DEF TrackOK
<1>2. Smooth /\ Track
  BY <1>1, SmoothBefore
<1>3. GotInOrder => GotInOrder'
  BY DEF GotInOrder, GotSoFar
<1>4. \A recs \in Seq(RecordType) : FlightComes(recs) => FlightComes(recs)'
  BY DEF FlightComes
<1>5. RespAsSent => RespAsSent'
  BY DEF RespAsSent
<1>6. FinishedRec' = FinishedRec /\ RepliesFrom(Len(resp))' = RepliesFrom(Len(resp))
  BY DEF FinishedRec, RepliesFrom, Reply
<1> QED
  BY <1>2, <1>3, <1>4, <1>5, <1>6 DEF Track

(* A record of the flight is taken.                                        *)
LEMMA RecvFlightTracks == ASSUME Inv, TrackOK, RecvFlight PROVE TrackOK'
<1>1. SUFFICES ASSUME Smooth' PROVE Track'
  BY DEF TrackOK
<1>2. /\ pc = "flight" /\ Complete /\ Consume
      /\ UNCHANGED <<conn, got, transcript, readSeq, resp, wire, server, clean>>
      /\ flaws \subseteq flaws'
  BY DEF RecvFlight
<1>3. Smooth /\ Track
  BY <1>1, <1>2, SmoothBefore
<1>4. PICK recs \in Seq(RecordType) : FlightComes(recs)
  BY <1>2, <1>3 DEF Track
<1>5. GotInOrder /\ server.reply # <<>>
  BY <1>2, <1>3 DEF Track
<1>6. stream \in Seq(TokenType) /\ wire \in Seq(TokenType)
  BY OnWayType
<1>7. /\ recs # <<>> /\ ~Garbled /\ First = recs[1] /\ FrontType = {recs[1].type}
      /\ SubSeq(stream, 3, Len(stream)) \o wire = Tokens(Tail(recs))
  <2>1. stream \o wire = Tokens(recs)
    BY <1>4 DEF FlightComes, OnWay
  <2> QED
    BY <1>2, <1>6, <2>1, FrontRecord
<1>8. Len(recs) \in Nat \ {0} /\ 1 \in 1 .. Len(recs) /\ recs[1] \in RecordType
  BY <1>7
<1>9. recs[1].type = "handshake" /\ recs[1].enc = 0
  BY <1>4, <1>8 DEF FlightComes
<1>10. pc' = "walk" /\ flight' = flight \o recs[1].parts
  <2>1. Parts = recs[1].parts
    BY <1>7, <1>9 DEF Parts
  <2>2. ~(flaws' = flaws \cup {"full"})
    BY <1>1 DEF Smooth
  <2>3. FrontType = {"handshake"}
    BY <1>7, <1>9
  <2> QED
    BY <1>7, <2>1, <2>2, <2>3 DEF RecvFlight
<1> DEFINE t == Tail(recs)
           a == recs[1].parts
           b == AllParts(t)
<1>11. t \in Seq(RecordType) /\ Len(t) = Len(recs) - 1 /\ \A i \in 1 .. Len(t) : t[i] = recs[i + 1]
  BY <1>7, TokensTail
<1>12. flight \in Seq(PartType) /\ a \in Seq(PartType) /\ b \in Seq(PartType) /\ AllParts(recs) = a \o b
  <2>1. a \in Seq(PartType)
    BY <1>8 DEF RecordType
  <2>2. b \in Seq(PartType) /\ AllParts(recs) = a \o b
    BY <1>7, <1>11, PartsOfFlight
  <2> QED
    BY <1>5, <2>1, <2>2 DEF GotInOrder
<1> HIDE DEF t, a, b
<1>13. flight \o (a \o b) = (flight \o a) \o b
  BY <1>12, SMTT(60)
<1>14. server'.transcript = transcript' \o Messages(flight' \o AllParts(t))
  <2>1. server.transcript = transcript \o Messages(flight \o AllParts(recs))
    BY <1>4 DEF FlightComes
  <2>2. flight \o AllParts(recs) = flight' \o AllParts(t)
    BY <1>10, <1>12, <1>13 DEF a, b
  <2> QED
    BY <1>2, <2>1, <2>2
<1>15. flight' \in Seq(PartType) /\ \A i \in 1 .. Len(flight') : flight'[i].msg.conn = conn
  <2>1. flight' = flight \o a
    BY <1>10 DEF a
  <2>2. /\ flight' \in Seq(PartType) /\ Len(flight') = Len(flight) + Len(a)
        /\ \A i \in 1 .. Len(flight) + Len(a) : flight'[i] = IF i <= Len(flight) THEN flight[i] ELSE a[i - Len(flight)]
    BY <1>12, <2>1, ConcatProperties
  <2>3. /\ \A i \in 1 .. Len(flight) : flight[i].msg.conn = conn
        /\ \A i \in 1 .. Len(a) : a[i].msg.conn = conn
    BY <1>4, <1>8 DEF FlightComes, a
  <2>4. Len(flight) \in Nat /\ Len(a) \in Nat
    BY <1>12
  <2>5. ASSUME NEW i \in 1 .. Len(flight') PROVE flight'[i].msg.conn = conn
    <3>1. CASE i <= Len(flight)
      <4>1. i \in 1 .. Len(flight) /\ flight'[i] = flight[i]
        BY <2>2, <2>4, <3>1
      <4> QED
        BY <2>3, <4>1
    <3>2. CASE ~(i <= Len(flight))
      <4>1. i - Len(flight) \in 1 .. Len(a) /\ flight'[i] = a[i - Len(flight)]
        BY <2>2, <2>4, <3>2
      <4> QED
        BY <2>3, <4>1
    <3> QED
      BY <3>1, <3>2
  <2> QED
    BY <2>2, <2>5
<1>16. OnWay' = Tokens(t)
  BY <1>2, <1>7 DEF OnWay, Consume, t
<1>17. /\ \A i \in 1 .. Len(t) :
             /\ t[i].type = "handshake" /\ t[i].enc = 0
             /\ \A j \in 1 .. Len(t[i].parts) : t[i].parts[j].msg.conn = conn
       /\ t # <<>> => HasLast(t[Len(t)].parts)
  <2>1. \A i \in 1 .. Len(t) : i + 1 \in 1 .. Len(recs) /\ t[i] = recs[i + 1]
    BY <1>8, <1>11
  <2>2. \A i \in 1 .. Len(recs) :
          /\ recs[i].type = "handshake" /\ recs[i].enc = 0
          /\ \A j \in 1 .. Len(recs[i].parts) : recs[i].parts[j].msg.conn = conn
    BY <1>4 DEF FlightComes
  <2>3. t # <<>> => t[Len(t)] = recs[Len(recs)]
    <3>1. t # <<>> => Len(t) \in 1 .. Len(t) /\ Len(t) + 1 = Len(recs)
      BY <1>8, <1>11
    <3> QED
      BY <2>1, <3>1
  <2>4. HasLast(recs[Len(recs)].parts)
    BY <1>4, <1>7 DEF FlightComes
  <2> QED
    BY <2>1, <2>2, <2>3, <2>4
<1>18. FlightComes(t)'
  BY <1>2, <1>11, <1>14, <1>15, <1>16, <1>17 DEF FlightComes
<1>19. GotInOrder'
  BY <1>2, <1>5, <1>15 DEF GotInOrder, GotSoFar
<1>20. server'.reply # <<>>
  BY <1>2, <1>5
<1> QED
  BY <1>10, <1>11, <1>18, <1>19, <1>20 DEF Track

(* The message a server in order sends next is accepted, and known.        *)
LEMMA NextAccepted ==
    ASSUME HonestKeepProtocol, GotInOrder, NEW m \in MsgType, m.conn = conn,
           Len(transcript) + 1 <= Len(server.transcript),
           m = server.transcript[Len(transcript) + 1]
    PROVE  \E g \in GotType : LET n == Len(transcript) + 1
                                  t == server.transcript IN
              /\ Accepted(m) = {g} /\ g.hello = TRUE /\ g.done = (n = Len(t))
              /\ g.random = conn /\ g.suite = t[2].arg
              /\ n >= 3 => g.cert = Host
              /\ n >= 4 /\ Len(t) = 5 => g.ske = TRUE
<1> DEFINE n == Len(transcript)
           t == server.transcript
           q == Tail(t)
           k == Len(t)
<1>1. t \in Seq(MsgType) /\ t # <<>> /\ n \in Nat /\ n >= 1 /\ k \in Nat
  BY DEF GotInOrder, GotSoFar
<1>2. Len(q) = k - 1 /\ \A i \in 1 .. Len(q) : q[i] = t[i + 1]
  BY <1>1, HeadTailProperties
<1>3. InOrder(q) /\ GotSoFar(n, t) /\ got \in GotType
  BY DEF GotInOrder
<1> HIDE DEF n, t, q
<1>4. k \in {4, 5} /\ Len(q) = k - 1 /\ Len(q) \in {3, 4}
  BY <1>1, <1>2, <1>3 DEF InOrder
<1>5. t[2].m = "hello" /\ t[3].m = "cert" /\ t[3].arg = Host
  <2>1. 1 \in 1 .. Len(q) /\ 2 \in 1 .. Len(q)
    BY <1>4
  <2>2. q[1] = t[2] /\ q[2] = t[3]
    BY <1>2, <2>1
  <2> QED
    BY <1>3, <2>2 DEF InOrder
<1>6. k = 4 => t[2].arg = "rsa" /\ t[4].m = "done"
  <2>1. SUFFICES ASSUME k = 4 PROVE t[2].arg = "rsa" /\ t[4].m = "done"
    OBVIOUS
  <2>2. 1 \in 1 .. Len(q) /\ 3 \in 1 .. Len(q) /\ Len(q) = 3
    BY <1>4, <2>1
  <2>3. q[1] = t[2] /\ q[3] = t[4]
    BY <1>2, <2>2
  <2> QED
    BY <1>3, <2>2, <2>3 DEF InOrder
<1>7. k = 5 => t[2].arg = "ecdhe" /\ t[4].m = "ske" /\ t[4].arg = "signed" /\ t[5].m = "done"
  <2>1. SUFFICES ASSUME k = 5 PROVE t[2].arg = "ecdhe" /\ t[4].m = "ske" /\ t[4].arg = "signed" /\ t[5].m = "done"
    OBVIOUS
  <2>2. 1 \in 1 .. Len(q) /\ 3 \in 1 .. Len(q) /\ 4 \in 1 .. Len(q) /\ Len(q) = 4
    BY <1>4, <2>1
  <2>3. q[1] = t[2] /\ q[3] = t[4] /\ q[4] = t[5]
    BY <1>2, <2>2
  <2> QED
    BY <1>3, <2>2, <2>3 DEF InOrder
<1> HIDE DEF k
<1>8. m = t[n + 1] /\ n + 1 <= k
  BY DEF n, t, k
<1>9. m.conn \in Nat /\ m.arg \in Text /\ Host \notin {"none", "unparsable"}
  BY DEF MsgType, HonestKeepProtocol
<1>10. /\ got.hello = (n >= 2) /\ got.done = (n = k)
       /\ n >= 2 => got.random = conn /\ got.suite = t[2].arg
       /\ n >= 3 => got.cert = Host
       /\ n >= 4 /\ k = 5 => got.ske = TRUE
  BY <1>3 DEF GotSoFar, k
<1>11. n # k /\ got.done = FALSE
  <2>1. n # k
    BY <1>1, <1>4, <1>8
  <2> QED
    BY <1>10, <2>1
<1>12. \E g \in GotType :
          /\ Accepted(m) = {g} /\ g.hello = TRUE /\ g.done = (n + 1 = k)
          /\ g.random = conn /\ g.suite = t[2].arg
          /\ n + 1 >= 3 => g.cert = Host
          /\ n + 1 >= 4 /\ k = 5 => g.ske = TRUE
  <2>1. CASE n = 1
    <3> DEFINE g == [got EXCEPT !.hello = TRUE, !.random = m.conn, !.suite = m.arg]
    <3>1. m = t[2] /\ n + 1 # k /\ ~(n + 1 >= 3) /\ ~(n + 1 >= 4)
      BY <1>4, <1>8, <2>1
    <3>2. m.m = "hello" /\ m.arg \in {"ecdhe", "rsa"}
      BY <1>4, <1>5, <1>6, <1>7, <3>1
    <3>3. Accepted(m) = {g}
      BY <3>2 DEF Accepted, OfferedSuite
    <3>4. g \in GotType /\ g.hello = TRUE /\ g.random = m.conn /\ g.suite = m.arg /\ g.done = got.done
      BY <1>3, <1>9 DEF GotType
    <3> HIDE DEF g
    <3> QED
      BY <1>11, <3>1, <3>3, <3>4
  <2>2. CASE n = 2
    <3> DEFINE g == [got EXCEPT !.cert = m.arg]
    <3>1. m = t[3] /\ n + 1 # k /\ n >= 2 /\ ~(n + 1 >= 4)
      BY <1>4, <1>8, <2>2
    <3>2. m.m = "cert" /\ m.arg = Host
      BY <1>5, <3>1
    <3>3. Accepted(m) = {g}
      BY <1>9, <3>2 DEF Accepted, Parsed
    <3>4. g \in GotType /\ g.hello = got.hello /\ g.random = got.random /\ g.suite = got.suite /\ g.done = got.done
          /\ g.cert = m.arg
      BY <1>3, <1>9 DEF GotType
    <3> HIDE DEF g
    <3> QED
      BY <1>10, <1>11, <3>1, <3>2, <3>3, <3>4
  <2>3. CASE n = 3 /\ k = 5
    <3> DEFINE g == [got EXCEPT !.ske = TRUE]
    <3>1. m = t[4] /\ n + 1 # k /\ n >= 2 /\ n >= 3
      BY <1>8, <2>3
    <3>2. m.m = "ske" /\ m.arg = "signed"
      BY <1>7, <2>3, <3>1
    <3>3. got.cert # "none" /\ Signed(m)
      BY <1>9, <1>10, <3>1, <3>2 DEF Signed
    <3>4. Accepted(m) = {g}
      BY <3>2, <3>3 DEF Accepted
    <3>5. g \in GotType /\ g.hello = got.hello /\ g.random = got.random /\ g.suite = got.suite /\ g.done = got.done
          /\ g.cert = got.cert /\ g.ske = TRUE
      BY <1>3 DEF GotType
    <3> HIDE DEF g
    <3> QED
      BY <1>10, <1>11, <3>1, <3>4, <3>5
  <2>4. CASE n + 1 = k
    <3> DEFINE g == [got EXCEPT !.done = TRUE]
    <3>1. m.m = "done" /\ n >= 2 /\ n >= 3 /\ (k = 5 => n >= 4)
      BY <1>1, <1>4, <1>6, <1>7, <1>8, <2>4
    <3>2. Accepted(m) = {g}
      BY <3>1 DEF Accepted
    <3>3. g \in GotType /\ g.hello = got.hello /\ g.random = got.random /\ g.suite = got.suite /\ g.done = TRUE
          /\ g.cert = got.cert /\ g.ske = got.ske
      BY <1>3 DEF GotType
    <3> HIDE DEF g
    <3> QED
      BY <1>10, <2>4, <3>1, <3>2, <3>3
  <2>5. n = 1 \/ n = 2 \/ (n = 3 /\ k = 5) \/ n + 1 = k
    BY <1>1, <1>4, <1>8
  <2> QED
    BY <2>1, <2>2, <2>3, <2>4, <2>5
<1> QED
  BY <1>12 DEF n, t, k

(* A message is taken from the flight.                                     *)
LEMMA WalkMessageTracks ==
    ASSUME HonestKeepProtocol, Inv, TrackOK, WalkMessage PROVE TrackOK'
<1>1. SUFFICES ASSUME Smooth' PROVE Track'
  BY DEF TrackOK
<1> DEFINE i == EndOfFirst
           m == flight[i].msg
<1>2. /\ pc = "walk" /\ WholeMessage /\ transcript' = Extended(transcript, m)
      /\ flight' = SubSeq(flight, i + 1, Len(flight))
      /\ \/ got' \in Accepted(m) /\ UNCHANGED <<pc, res>>
         \/ Accepted(m) = {}
      /\ UNCHANGED <<conn, stream, resp, wire, server, clean, flaws>>
  BY DEF WalkMessage
<1>3. Smooth /\ Track
  BY <1>1, <1>2, SmoothBefore
<1>4. PICK recs \in Seq(RecordType) : FlightComes(recs)
  BY <1>2, <1>3 DEF Track
<1>5. /\ GotInOrder /\ server.reply # <<>> /\ flight \in Seq(PartType) /\ transcript \in Seq(MsgType)
      /\ DOMAIN flight = 1 .. Len(flight) /\ Len(flight) \in Nat
  BY <1>2, <1>3 DEF Track, GotInOrder
<1>6. i \in 1 .. Len(flight) /\ EndsFirst(i)
  BY <1>2, <1>5 DEF WholeMessage, EndOfFirst
<1> HIDE DEF i
<1>7. flight[i] \in PartType /\ m \in MsgType /\ m.conn = conn /\ flight[i].last = TRUE
      /\ \A j \in 1 .. i - 1 : ~flight[j].last
  <2>1. flight[i] \in PartType
    BY <1>5, <1>6
  <2>2. m \in MsgType /\ flight[i].last \in BOOLEAN
    BY <2>1 DEF PartType, MsgType
  <2> QED
    BY <1>4, <1>6, <2>1, <2>2 DEF FlightComes, EndsFirst
<1> DEFINE all == AllParts(recs)
           rest == Messages(flight' \o all)
           more == Append(transcript, m)
<1>8. all \in Seq(PartType)
  BY PartsOfFlight
<1>9. /\ flight' \in Seq(PartType)
      /\ Messages(flight \o all) = <<m>> \o rest
  BY <1>2, <1>5, <1>6, <1>7, <1>8, FirstMessage
<1>10. rest \in Seq(MsgType)
  <2>1. flight' \o all \in Seq(PartType)
    BY <1>8, <1>9, ConcatProperties
  <2> QED
    BY <2>1, MessagesType
<1>11. server.transcript = transcript \o Messages(flight \o all)
  BY <1>4 DEF FlightComes
<1> HIDE DEF m, all, rest
<1>12. more \in Seq(MsgType) /\ Len(more) = Len(transcript) + 1 /\ more[Len(transcript) + 1] = m
  BY <1>5, <1>7, AppendProperties
<1>13. server.transcript = more \o rest
  <2> DEFINE one == <<m>>
  <2>1. one \in Seq(MsgType)
    BY <1>7 DEF m
  <2>2. more = transcript \o one
    BY <1>5, <1>7, AppendIsConcat DEF m
  <2> HIDE DEF one, more
  <2>3. transcript \o (one \o rest) = (transcript \o one) \o rest
    BY <1>5, <1>10, <2>1, SMTT(60)
  <2> QED
    BY <1>9, <1>11, <2>2, <2>3 DEF one
<1>14. transcript' = more
  <2>1. TotalSize(more) \in Nat /\ TotalSize(more \o rest) \in Nat /\ TotalSize(more) <= TotalSize(more \o rest)
    BY <1>10, <1>12, SizeConcat
  <2>2. TotalSize(more \o rest) <= TranscriptMax
    BY <1>3, <1>13 DEF Smooth, Honest
  <2>3. \A x \in MsgType : x.size \in Nat
    BY DEF MsgType
  <2>4. TotalSize(transcript) \in Nat /\ TotalSize(more) = TotalSize(transcript) + m.size
    BY <1>5, <1>7, <2>3, SizeGrows
  <2>5. TranscriptMax \in Nat
    BY TlsAssumption
  <2>6. ~(TotalSize(transcript) + m.size > TranscriptMax)
    BY <2>1, <2>2, <2>4, <2>5
  <2> QED
    BY <1>2, <2>6 DEF Extended, m
<1> HIDE DEF more
<1> DEFINE t == server.transcript
<1>len. PICK n \in Nat : n = Len(transcript)
  BY <1>5
<1>15. n \in Nat /\ n + 1 <= Len(t) /\ t[n + 1] = m
  <2>1. /\ Len(more \o rest) = Len(more) + Len(rest)
        /\ \A j \in 1 .. Len(more) + Len(rest) : (more \o rest)[j] = IF j <= Len(more) THEN more[j] ELSE rest[j - Len(more)]
    BY <1>10, <1>12, ConcatProperties
  <2>2. n \in Nat /\ Len(rest) \in Nat /\ Len(more) = n + 1
    BY <1>5, <1>10, <1>12, <1>len
  <2>3. n + 1 \in 1 .. Len(more) + Len(rest) /\ n + 1 <= Len(more)
    BY <2>2
  <2>4. (more \o rest)[n + 1] = more[n + 1]
    BY <2>1, <2>3
  <2> QED
    BY <1>12, <1>13, <1>len, <2>1, <2>2, <2>4
<1>16. PICK g \in GotType :
          /\ Accepted(m) = {g} /\ g.hello = TRUE /\ g.done = (n + 1 = Len(t))
          /\ g.random = conn /\ g.suite = t[2].arg
          /\ n + 1 >= 3 => g.cert = Host
          /\ n + 1 >= 4 /\ Len(t) = 5 => g.ske = TRUE
  <2>1. m.conn = conn /\ m \in MsgType
    BY <1>7 DEF m
  <2> QED
    BY <1>5, <1>15, <1>len, <2>1, NextAccepted
<1>17. got' = g /\ pc' = "walk"
  BY <1>2, <1>16 DEF m
<1>18. Len(transcript') = n + 1 /\ n + 1 >= 1 /\ n + 1 >= 2
  <2>1. n >= 1
    BY <1>5, <1>len DEF GotInOrder, GotSoFar
  <2> QED
    BY <1>12, <1>14, <1>15, <1>len, <2>1
<1>19. GotInOrder'
  <2>1. GotSoFar(n + 1, t)'
    BY <1>2, <1>16, <1>17, <1>18 DEF GotSoFar
  <2> QED
    BY <1>2, <1>5, <1>9, <1>12, <1>14, <1>17, <1>18, <2>1 DEF GotInOrder
<1>20. \A j \in 1 .. Len(flight') : flight'[j].msg.conn = conn
  <2>1. \A j \in i + 1 .. Len(flight) : flight[j] \in PartType
    BY <1>5, <1>6
  <2>2. i + 1 \in Int /\ Len(flight) \in Int
    BY <1>5, <1>6
  <2>3. /\ Len(flight') = IF i + 1 <= Len(flight) THEN Len(flight) - (i + 1) + 1 ELSE 0
        /\ \A j \in 1 .. Len(flight) - (i + 1) + 1 : flight'[j] = flight[(i + 1) + j - 1]
    BY <1>2, <2>1, <2>2, SubSeqProperties
  <2>4. \A j \in 1 .. Len(flight') : i + j \in 1 .. Len(flight) /\ flight'[j] = flight[i + j]
    <3> DEFINE k == Len(flight)
               l == Len(flight')
    <3>1. k \in Nat /\ i \in 1 .. k /\ l = IF i + 1 <= k THEN k - (i + 1) + 1 ELSE 0
      BY <1>5, <1>6, <2>3
    <3>2. \A j \in 1 .. k - (i + 1) + 1 : flight'[j] = flight[(i + 1) + j - 1]
      BY <2>3
    <3> HIDE DEF k, l
    <3>3. \A j \in 1 .. l : i + j \in 1 .. k /\ j \in 1 .. k - (i + 1) + 1 /\ (i + 1) + j - 1 = i + j
      BY <3>1
    <3> QED
      BY <3>2, <3>3 DEF k, l
  <2> QED
    BY <1>4, <2>4 DEF FlightComes
<1>21. FlightComes(recs)'
  <2>1. server'.transcript = transcript' \o Messages(flight' \o AllParts(recs))
    BY <1>2, <1>13, <1>14 DEF rest, all
  <2>2. OnWay' = OnWay
    BY <1>2 DEF OnWay
  <2> QED
    BY <1>2, <1>4, <1>20, <2>1, <2>2 DEF FlightComes
<1> QED
  BY <1>2, <1>5, <1>17, <1>19, <1>21 DEF Track

(* The messages that are there have been looked at: the flight is over, or *)
(* more of it is waited for.  None of it is of another connection.         *)
LEMMA WalkEndsTracks == ASSUME Inv, TrackOK, WalkEnds \/ WalkGarbage PROVE TrackOK'
<1>1. SUFFICES ASSUME Smooth' PROVE Track'
  BY DEF TrackOK
<1>2. /\ pc = "walk"
      /\ UNCHANGED <<conn, stream, flight, got, transcript, resp, wire, server, clean, flaws>>
  BY DEF WalkEnds, WalkGarbage
<1>3. Smooth /\ Track
  BY <1>1, <1>2, SmoothBefore
<1>4. PICK recs \in Seq(RecordType) : FlightComes(recs)
  BY <1>2, <1>3 DEF Track
<1>5. /\ GotInOrder /\ server.reply # <<>> /\ flight \in Seq(PartType)
      /\ transcript \in Seq(MsgType) /\ server.transcript \in Seq(MsgType)
  BY <1>2, <1>3 DEF Track, GotInOrder
<1>6. ~WalkGarbage
  <2>1. DOMAIN flight = 1 .. Len(flight)
    BY <1>5
  <2> QED
    BY <1>4, <2>1 DEF WalkGarbage, FlightComes
<1>7. pc' = (IF got.done THEN "check" ELSE "flight")
  BY <1>6 DEF WalkEnds
<1>8. GotInOrder' /\ FlightComes(recs)' /\ OnWay' = OnWay
  BY <1>2, <1>4, <1>5 DEF GotInOrder, GotSoFar, FlightComes, OnWay
<1>9. CASE got.done = TRUE
  <2> DEFINE a == AllParts(recs)
             x == Messages(flight)
             y == Messages(a)
             z == x \o y
  <2>1. a \in Seq(PartType) /\ (recs # <<>> /\ HasLast(recs[Len(recs)].parts) => HasLast(a))
    BY PartsOfFlight
  <2>2. x \in Seq(MsgType) /\ y \in Seq(MsgType) /\ (HasLast(a) => y # <<>>)
    BY <1>5, <2>1, MessagesType
  <2>3. Messages(flight \o a) = z
    BY <1>5, <2>1, MessagesConcat
  <2>4. server.transcript = transcript \o z
    BY <1>4, <2>3 DEF FlightComes
  <2> HIDE DEF a, x, y
  <2>5. z \in Seq(MsgType) /\ Len(z) = Len(x) + Len(y)
    BY <2>2, ConcatProperties
  <2> HIDE DEF z
  <2>6. Len(transcript) = Len(server.transcript)
    BY <1>5, <1>9 DEF GotInOrder, GotSoFar
  <2>7. Len(server.transcript) = Len(transcript) + Len(z)
    BY <1>5, <2>4, <2>5, ConcatProperties
  <2>8. Len(z) = 0
    <3> DEFINE k == Len(transcript)
               l == Len(z)
    <3>1. k \in Nat /\ l \in Nat
      BY <1>5, <2>5
    <3>2. k = k + l
      BY <2>6, <2>7, Zenon
    <3> HIDE DEF k, l
    <3>3. l = 0
      BY <3>1, <3>2
    <3> QED
      BY <3>3 DEF l
  <2>9. y = <<>>
    <3> DEFINE k == Len(x)
               l == Len(y)
    <3>1. k \in Nat /\ l \in Nat
      BY <2>2
    <3>2. 0 = k + l
      BY <2>5, <2>8, Zenon
    <3> HIDE DEF k, l
    <3>3. l = 0
      BY <3>1, <3>2
    <3> QED
      BY <2>2, <3>3 DEF l
  <2>10. transcript = server.transcript
    <3>1. z = <<>>
      BY <2>5, <2>8
    <3> QED
      BY <1>5, <2>4, <2>5, <3>1, ConcatEmptySeq
  <2>11. recs = <<>>
    BY <1>4, <2>1, <2>2, <2>9 DEF FlightComes
  <2>12. OnWay = <<>>
    BY <1>4, <2>11, NoTokens DEF FlightComes
  <2> QED
    BY <1>2, <1>5, <1>7, <1>8, <1>9, <2>10, <2>12 DEF Track
<1>10. CASE got.done # TRUE
  <2>1. got.done = FALSE
    BY <1>5, <1>10 DEF GotInOrder, GotType
  <2> QED
    BY <1>2, <1>5, <1>7, <1>8, <2>1 DEF Track
<1> QED
  BY <1>9, <1>10

(* What the server has sent is acceptable.                                 *)
LEMMA AllGot ==
    ASSUME HonestKeepProtocol, GotInOrder, transcript = server.transcript
    PROVE  Acceptable
<1> DEFINE n == Len(transcript)
           q == Tail(transcript)
<1>1. transcript \in Seq(MsgType) /\ transcript # <<>> /\ n \in Nat
  BY DEF GotInOrder
<1>2. Len(q) = n - 1 /\ \A i \in 1 .. Len(q) : q[i] = transcript[i + 1]
  BY <1>1, HeadTailProperties
<1>3. InOrder(q) /\ GotSoFar(n, transcript) /\ got \in GotType
  BY DEF GotInOrder
<1> HIDE DEF n, q
<1>4. n \in {4, 5}
  BY <1>1, <1>2, <1>3 DEF InOrder
<1>5. /\ got.hello = TRUE /\ got.cert = Host /\ got.suite = transcript[2].arg
      /\ n = 5 => got.ske = TRUE
  <2>1. n >= 2 /\ n >= 3 /\ n >= 4
    BY <1>4
  <2> QED
    BY <1>3, <2>1 DEF GotSoFar, n
<1>6. n = 4 => transcript[2].arg = "rsa"
  <2>1. SUFFICES ASSUME n = 4 PROVE transcript[2].arg = "rsa"
    OBVIOUS
  <2>2. Len(q) = 3 /\ 1 \in 1 .. Len(q)
    BY <1>2, <2>1
  <2>3. q[1] = transcript[2]
    BY <1>2, <2>2
  <2> QED
    BY <1>3, <2>2, <2>3 DEF InOrder
<1>7. got.suite = "ecdhe" => got.ske = TRUE
  BY <1>4, <1>5, <1>6
<1> QED
  BY <1>5, <1>7 DEF Acceptable, NameIgnored, HonestKeepProtocol

(* So the checks pass.                                                     *)
LEMMA CheckTracks == ASSUME HonestKeepProtocol, Inv, TrackOK, CheckFails PROVE TrackOK'
<1>1. SUFFICES ASSUME Smooth' PROVE FALSE
  BY DEF TrackOK
<1>2. pc = "check" /\ ~Acceptable /\ UNCHANGED <<server, clean, flaws>>
  BY DEF CheckFails
<1>3. Smooth /\ Track
  BY <1>1, <1>2, SmoothBefore
<1> QED
  BY <1>2, <1>3, AllGot DEF Track

(* What a server has said is a sequence of messages.                       *)
SaidOK == server.transcript \in Seq(MsgType)

(* The record of the server's Finished, behind its ChangeCipherSpec        *)
LEMMA FinishedIsRecord ==
    ASSUME conn \in Nat
    PROVE  /\ FinishedRec \in RecordType /\ Clear("ccs", <<>>) \in RecordType
           /\ <<Clear("ccs", <<>>), FinishedRec>> \in Seq(RecordType)
<1> DEFINE part == [msg |-> Finished(conn, "server"), last |-> TRUE]
<1>1. Finished(conn, "server") \in [conn : Nat, m : Text, arg : Text, size : Nat]
  BY DEF Finished, Msg, Text
<1>2. part \in PartType
  <2>1. TRUE \in BOOLEAN
    OBVIOUS
  <2> QED
    BY <1>1, <2>1, Zenon DEF PartType
<1> HIDE DEF part
<1>3. <<part>> \in Seq(PartType)
  BY <1>2
<1>4. FinishedRec = Sealed(conn, 0, "handshake", <<part>>, 1)
  BY DEF FinishedRec, part
<1>5. FinishedRec \in RecordType
  BY <1>3, <1>4 DEF Sealed, RecordType, Text
<1>6. Clear("ccs", <<>>) \in RecordType
  BY EmptyParts DEF Clear, RecordType, Text
<1> DEFINE r == Clear("ccs", <<>>)
<1> HIDE DEF r
<1>7. <<r, FinishedRec>> \in Seq(RecordType)
  BY <1>5, <1>6 DEF r
<1> QED
  BY <1>5, <1>6, <1>7 DEF r

(* The client's Finished, with which the server's transcript is the same   *)
LEMMA SendFinishedTracks == ASSUME Inv, SaidOK, TrackOK, SendFinished PROVE TrackOK'
<1>1. SUFFICES ASSUME Smooth' PROVE Track'
  BY DEF TrackOK
<1> DEFINE t == server.transcript
           ke == KeyExchange(conn)
           fc == Finished(conn, "client")
           upTo == Extended(transcript, ke)
           theirs == Append(t, ke)
           all == Append(theirs, fc)
           recs == <<Clear("ccs", <<>>), FinishedRec>>
<1>2. /\ pc = "check" /\ pc' = "ccs" /\ UNCHANGED <<conn, stream, resp, res, clean, flaws>>
      /\ transcript' = Extended(upTo, fc)
      /\ server' = [server EXCEPT !.done = (upTo = theirs), !.transcript = all]
      /\ wire' = wire \o Tokens(IF upTo = theirs THEN recs ELSE <<Clear("alert", <<>>)>>)
  BY DEF SendFinished, FinishedRec
<1>3. TokensOK /\ conn \in Nat /\ conn # 0
  BY <1>2 DEF Inv, TokensOK
<1>4. /\ server'.transcript = all /\ server'.name = server.name /\ server'.reply = server.reply
  BY <1>2, <1>3 DEF TokensOK
<1>5. clean = TRUE /\ flaws = {} /\ server.name = "honest"
      /\ (\A i \in DOMAIN server.reply : server.reply[i] <= ChunkMax)
      /\ TotalSize(all) <= TranscriptMax
  BY <1>1, <1>2, <1>4 DEF Smooth, Honest
<1>6. ke \in MsgType /\ fc \in MsgType /\ \A x \in MsgType : x.size \in Nat
  BY <1>3 DEF KeyExchange, Finished, Msg, MsgType, Text
<1>7. t \in Seq(MsgType) /\ theirs \in Seq(MsgType) /\ all \in Seq(MsgType)
  BY <1>6, AppendProperties DEF SaidOK
<1>8. /\ TotalSize(t) \in Nat /\ TotalSize(theirs) = TotalSize(t) + ke.size
      /\ TotalSize(all) = TotalSize(theirs) + fc.size
  BY <1>6, <1>7, SizeGrows
<1>9. ke.size \in Nat /\ fc.size \in Nat /\ TranscriptMax \in Nat
  BY <1>6, TlsAssumption
<1>10. /\ TotalSize(t) <= TranscriptMax /\ ~(TotalSize(t) + ke.size > TranscriptMax)
       /\ ~(TotalSize(theirs) + fc.size > TranscriptMax)
  <2> HIDE DEF t, theirs, all, ke, fc
  <2> QED
    BY <1>5, <1>8, <1>9
<1>11. Smooth /\ Track
  <2>1. Smooth
    BY <1>5, <1>10 DEF Smooth, Honest
  <2> QED
    BY <2>1 DEF TrackOK
<1>12. transcript = t /\ OnWay = <<>> /\ server.reply # <<>>
  BY <1>2, <1>11 DEF Track
<1>13. upTo = theirs
  BY <1>10, <1>12 DEF Extended
<1>14. transcript' = server'.transcript
  <2>1. Extended(theirs, fc) = all
    BY <1>10 DEF Extended
  <2> QED
    BY <1>2, <1>4, <1>13, <2>1
<1>15. recs \in Seq(RecordType)
  BY <1>3, FinishedIsRecord
<1>16. wire' = wire \o Tokens(recs)
  BY <1>2, <1>13
<1> HIDE DEF recs
<1>17. OnWay' = OnWay \o Tokens(recs) /\ Tokens(recs) \in Seq(TokenType)
  BY <1>2, <1>15, <1>16, OnWayGrows, TokenRows
<1>18. OnWay' = Tokens(recs)
  <2> DEFINE w == Tokens(recs)
  <2>1. w \in Seq(TokenType) /\ OnWay' = <<>> \o w
    BY <1>12, <1>17
  <2> HIDE DEF w
  <2>2. <<>> \o w = w
    BY <2>1, ConcatEmptySeq
  <2> QED
    BY <2>1, <2>2 DEF w
<1>19. FinishedRec' = FinishedRec
  BY <1>2 DEF FinishedRec
<1>20. OnWay' = Tokens(<<Clear("ccs", <<>>), FinishedRec>>)'
  BY <1>18, <1>19 DEF recs
<1> QED
  BY <1>2, <1>4, <1>12, <1>14, <1>20 DEF Track

(* The ChangeCipherSpec is in front, and then the Finished.                *)
LEMMA RecvCcsTracks == ASSUME Inv, TrackOK, RecvCcs PROVE TrackOK'
<1>1. SUFFICES ASSUME Smooth' PROVE Track'
  BY DEF TrackOK
<1>2. /\ pc = "ccs" /\ Complete /\ Consume /\ UNCHANGED <<conn, transcript, wire, server, clean, flaws>>
      /\ \E type \in FrontType : IF type = "ccs" THEN pc' = "finished" /\ UNCHANGED res ELSE Fail
  BY DEF RecvCcs
<1>3. Smooth /\ Track
  BY <1>1, <1>2, SmoothBefore
<1> DEFINE r == Clear("ccs", <<>>)
           f == FinishedRec
           recs == <<r, f>>
<1>4. stream \in Seq(TokenType) /\ wire \in Seq(TokenType) /\ stream \o wire = Tokens(recs)
  BY <1>2, <1>3, OnWayType DEF Track, OnWay
<1>5. recs \in Seq(RecordType) /\ r.type = "ccs"
  BY FinishedIsRecord DEF Inv, TokensOK, Clear
<1> HIDE DEF recs
<1>6. FrontType = {recs[1].type} /\ SubSeq(stream, 3, Len(stream)) \o wire = Tokens(Tail(recs))
  BY <1>2, <1>4, <1>5, FrontRecord
<1> HIDE DEF r, f
<1>7. recs[1] = r /\ Tail(recs) = <<f>>
  BY DEF recs
<1>8. pc' = "finished"
  BY <1>2, <1>5, <1>6, <1>7
<1>9. OnWay' = Tokens(<<FinishedRec>>)'
  <2>1. FinishedRec' = FinishedRec
    BY <1>2 DEF FinishedRec
  <2> QED
    BY <1>2, <1>6, <1>7, <2>1 DEF OnWay, Consume, f
<1>10. server.reply # <<>> /\ transcript = server.transcript
  BY <1>2, <1>3 DEF Track
<1> QED
  BY <1>2, <1>8, <1>9, <1>10 DEF Track

(* The Finished is authentic, and made over the same transcript.           *)
LEMMA RecvFinishedTracks == ASSUME Inv, TrackOK, RecvFinished PROVE TrackOK'
<1>1. SUFFICES ASSUME Smooth' PROVE Track'
  BY DEF TrackOK
<1>2. /\ pc = "finished" /\ Complete /\ Consume /\ UNCHANGED <<conn, transcript, wire, server, clean, flaws>>
      /\ IF Authentic /\ Verified THEN pc' = "request" /\ UNCHANGED res ELSE Fail
  BY DEF RecvFinished
<1>3. Smooth /\ Track
  BY <1>1, <1>2, SmoothBefore
<1> DEFINE f == FinishedRec
           recs == <<f>>
<1>4. stream \in Seq(TokenType) /\ wire \in Seq(TokenType) /\ stream \o wire = Tokens(recs)
  BY <1>2, <1>3, OnWayType DEF Track, OnWay
<1>5. f \in RecordType /\ f.type = "handshake" /\ f.enc = conn /\ f.seq = 0
  BY FinishedIsRecord DEF Inv, TokensOK, FinishedRec, Sealed
<1> HIDE DEF f
<1>6. recs \in Seq(RecordType) /\ recs[1] = f /\ Tail(recs) = <<>>
  BY <1>5
<1> HIDE DEF recs
<1>7. ~Garbled /\ First = f /\ SubSeq(stream, 3, Len(stream)) \o wire = Tokens(<<>>)
  BY <1>2, <1>4, <1>6, FrontRecord
<1>8. readSeq = 0
  BY <1>2 DEF Inv, NumbersOK
<1>9. server.reply # <<>> /\ transcript = server.transcript
  BY <1>2, <1>3 DEF Track
<1>10. Authentic /\ Verified
  BY <1>5, <1>7, <1>8, <1>9 DEF Authentic, Verified
<1>11. pc' = "request" /\ OnWay' = <<>>
  BY <1>2, <1>7, <1>10, NoTokens DEF OnWay, Consume
<1> QED
  BY <1>2, <1>9, <1>11 DEF Track

(* The request: all of the response comes.                                 *)
LEMMA SendRequestTracks == ASSUME Inv, TrackOK, SendRequest PROVE TrackOK'
<1>1. SUFFICES ASSUME Smooth' PROVE Track'
  BY DEF TrackOK
<1>2. pc = "request" /\ pc' = "body" /\ UNCHANGED <<conn, stream, resp, server, clean, flaws>>
  BY DEF SendRequest
<1>3. Smooth /\ Track
  BY <1>1, <1>2, SmoothBefore
<1>4. OnWay = <<>> /\ server.reply # <<>>
  BY <1>2, <1>3 DEF Track
<1>5. resp = <<>> /\ Len(resp) = 0 /\ TokensOK
  BY <1>2 DEF Inv, NumbersOK
<1> DEFINE recs == RepliesFrom(0)
<1>6. Len(server.reply) \in Nat /\ 0 \in 0 .. Len(server.reply)
  BY <1>5 DEF TokensOK
<1>7. recs \in Seq(RecordType) /\ wire' = wire \o Tokens(recs)
  BY <1>5, <1>6, RepliesAre, ReplySent
<1>8. (RepliesFrom(Len(resp)))' = recs
  BY <1>2, <1>5 DEF RepliesFrom, Reply
<1> HIDE DEF recs
<1> DEFINE w == Tokens(recs)
<1>9. OnWay' = <<>> \o w /\ w \in Seq(TokenType)
  BY <1>2, <1>4, <1>7, OnWayGrows, TokenRows
<1> HIDE DEF w
<1>10. OnWay' = w
  BY <1>9, ConcatEmptySeq
<1>11. OnWay' = Tokens(RepliesFrom(Len(resp)))'
  BY <1>8, <1>10 DEF w
<1>12. RespAsSent'
  BY <1>2, <1>5, <1>6 DEF RespAsSent
<1> QED
  BY <1>2, <1>4, <1>11, <1>12 DEF Track

(* The rest of a response, but for its first record                        *)
LEMMA RepliesTail ==
    ASSUME TokensOK, NEW n \in Nat, n < Len(server.reply)
    PROVE  Tail(RepliesFrom(n)) = RepliesFrom(n + 1)
<1> DEFINE k == Len(server.reply)
           a == RepliesFrom(n)
           b == RepliesFrom(n + 1)
           t == Tail(a)
<1>1. k \in Nat /\ n \in 0 .. k /\ n + 1 \in 0 .. k
  BY DEF TokensOK
<1>2. /\ a \in Seq(RecordType) /\ Len(a) = (k - n) + 1
      /\ \A i \in 1 .. (k - n) + 1 : a[i] = Reply(i + n)
  BY <1>1, RepliesAre
<1>3. /\ b \in Seq(RecordType) /\ Len(b) = (k - (n + 1)) + 1
      /\ \A i \in 1 .. (k - (n + 1)) + 1 : b[i] = Reply(i + (n + 1))
  BY <1>1, RepliesAre
<1> HIDE DEF k, a, b
<1>4. a # <<>>
  BY <1>1, <1>2
<1>5. t \in Seq(RecordType) /\ Len(t) = Len(a) - 1 /\ \A i \in 1 .. Len(t) : t[i] = a[i + 1]
  BY <1>2, <1>4, HeadTailProperties
<1> HIDE DEF t
<1>6. Len(t) = Len(b) /\ Len(t) = k - n
  BY <1>1, <1>2, <1>3, <1>5
<1>7. ASSUME NEW i \in 1 .. Len(t) PROVE t[i] = b[i]
  <2>1. i + 1 \in 1 .. (k - n) + 1 /\ (i + 1) + n = i + (n + 1) /\ i \in 1 .. (k - (n + 1)) + 1
    BY <1>1, <1>6
  <2>2. a[i + 1] = Reply(i + (n + 1))
    BY <1>2, <2>1
  <2> QED
    BY <1>3, <1>5, <2>1, <2>2
<1>8. t = b
  BY <1>3, <1>5, <1>6, <1>7, SeqEqual
<1> QED
  BY <1>8 DEF t, a, b

(* A record of the response, or the close_notify behind all of them        *)
LEMMA RecvBodyTracks == ASSUME Inv, TrackOK, RecvBody PROVE TrackOK'
<1>1. SUFFICES ASSUME Smooth' PROVE Track'
  BY DEF TrackOK
<1>2. /\ pc = "body" /\ Complete /\ Consume /\ UNCHANGED <<conn, wire, server, clean>>
      /\ pc' = (IF IsData THEN "body" ELSE "extract")
      /\ resp' = (IF IsData /\ Room THEN Append(resp, First) ELSE resp)
      /\ flaws \subseteq flaws'
      /\ IsData /\ ~Room => "skipped" \in flaws'
  BY DEF RecvBody, Room
<1>3. Smooth /\ Track
  BY <1>1, <1>2, SmoothBefore
<1>4. TokensOK /\ resp \in Seq(RecordType)
  BY DEF Inv, NumbersOK
<1>len. PICK n \in Nat : n = Len(resp)
  BY <1>4
<1>5. RespAsSent /\ OnWay = Tokens(RepliesFrom(n)) /\ server.reply # <<>>
  BY <1>2, <1>3, <1>len DEF Track
<1> DEFINE k == Len(server.reply)
           recs == RepliesFrom(n)
<1>6. k \in Nat /\ n <= k /\ n \in 0 .. k
  BY <1>4, <1>5, <1>len DEF TokensOK, RespAsSent
<1>7. recs \in Seq(RecordType) /\ recs[1] = Reply(n + 1)
  <2>1. /\ recs \in Seq(RecordType) /\ \A i \in 1 .. (k - n) + 1 : recs[i] = Reply(i + n)
    BY <1>4, <1>6, RepliesAre
  <2>2. 1 \in 1 .. (k - n) + 1 /\ 1 + n = n + 1
    BY <1>6
  <2> QED
    BY <2>1, <2>2
<1> HIDE DEF recs
<1>8. ~Garbled /\ First = Reply(n + 1) /\ SubSeq(stream, 3, Len(stream)) \o wire = Tokens(Tail(recs))
  <2>1. stream \in Seq(TokenType) /\ wire \in Seq(TokenType) /\ stream \o wire = Tokens(recs)
    BY <1>5, OnWayType DEF OnWay, recs
  <2> QED
    BY <1>2, <1>7, <2>1, FrontRecord
<1>9. readSeq = n + 1
  BY <1>2, <1>3, <1>len DEF Inv, NumbersOK, Smooth
<1>10. CASE n < k
  <2>1. n + 1 <= k /\ n + 1 \in 1 .. k
    BY <1>6, <1>10
  <2>2. First = Sealed(conn, n + 1, "data", <<>>, server.reply[n + 1])
    BY <1>8, <2>1 DEF Reply
  <2>3. /\ First.enc = conn /\ First.seq = n + 1 /\ First.type = "data"
        /\ First.size = server.reply[n + 1]
    BY <2>2 DEF Sealed
  <2>4. server.reply[n + 1] <= ChunkMax
    <3>1. n + 1 \in DOMAIN server.reply
      BY <1>4, <2>1 DEF TokensOK
    <3> QED
      BY <1>3, <3>1 DEF Smooth, Honest
  <2>5. IsData
    BY <1>8, <1>9, <2>3, <2>4 DEF IsData, Authentic
  <2>6. Room
    BY <1>1, <1>2, <2>5 DEF Smooth
  <2>7. pc' = "body" /\ resp' = Append(resp, First)
    BY <1>2, <2>5, <2>6
  <2>8. First \in RecordType
    BY <1>2, ConsumeKeeps
  <2>9. /\ Len(resp') = n + 1 /\ resp'[n + 1] = First
        /\ \A i \in 1 .. n : resp'[i] = resp[i]
    BY <1>4, <1>len, <2>7, <2>8, AppendProperties
  <2>10. RespAsSent'
    <3>1. \A i \in 1 .. n : resp[i].size = server.reply[i]
      BY <1>5, <1>len DEF RespAsSent
    <3>2. ASSUME NEW i \in 1 .. n + 1 PROVE resp'[i].size = server.reply[i]
      <4>1. i \in 1 .. n \/ i = n + 1
        OBVIOUS
      <4> QED
        BY <2>3, <2>9, <3>1, <4>1
    <3> QED
      BY <1>2, <2>1, <2>9, <3>2 DEF RespAsSent
  <2>11. Tail(recs) = RepliesFrom(n + 1)
    BY <1>4, <1>10, RepliesTail DEF recs
  <2>12. (RepliesFrom(Len(resp)))' = RepliesFrom(n + 1)
    BY <1>2, <2>9 DEF RepliesFrom, Reply
  <2>13. OnWay' = Tokens(RepliesFrom(Len(resp)))'
    BY <1>2, <1>8, <2>11, <2>12 DEF OnWay, Consume
  <2> QED
    BY <1>2, <1>5, <2>7, <2>10, <2>13 DEF Track
<1>11. CASE ~(n < k)
  <2>1. n = k /\ ~(n + 1 <= k)
    BY <1>6, <1>11
  <2>2. First = Sealed(conn, n + 1, "alert", <<>>, 1)
    BY <1>8, <2>1 DEF Reply
  <2>3. ~IsData
    BY <2>2 DEF IsData, Sealed
  <2>4. pc' = "extract" /\ resp' = resp
    BY <1>2, <2>3
  <2>5. RespAsSent' /\ Len(resp') = Len(server'.reply)
    BY <1>2, <1>5, <1>len, <2>1, <2>4 DEF RespAsSent
  <2> QED
    BY <1>2, <1>5, <2>4, <2>5 DEF Track
<1> QED
  BY <1>10, <1>11

(* The body is extracted: it is not empty.                                 *)
LEMMA ExtractTracks == ASSUME Inv, TrackOK, Extract PROVE TrackOK'
<1>1. SUFFICES ASSUME Smooth' PROVE Track'
  BY DEF TrackOK
<1>2. pc = "extract" /\ pc' = "idle" /\ res' = (resp # <<>>) /\ UNCHANGED <<resp, server, clean, flaws>>
  BY <1>1 DEF Extract, Smooth
<1>3. Smooth /\ Track
  BY <1>1, <1>2, SmoothBefore
<1>4. RespAsSent /\ Len(resp) = Len(server.reply) /\ server.reply # <<>>
  BY <1>2, <1>3 DEF Track
<1>5. resp # <<>>
  <2>1. server.reply \in Seq(Nat)
    BY DEF Inv, TokensOK
  <2>2. Len(server.reply) # 0
    BY <1>4, <2>1
  <2> QED
    BY <1>4, <2>2
<1>6. RespAsSent'
  BY <1>2, <1>4 DEF RespAsSent
<1> QED
  BY <1>2, <1>4, <1>5, <1>6 DEF Track

(* A connection begins with an empty buffer: all of the flight comes.      *)
LEMMA ConnectTracks == ASSUME HonestKeepProtocol, Inv, Connect PROVE TrackOK'
<1>1. SUFFICES ASSUME Smooth' PROVE Track'
  BY DEF TrackOK
<1>2. PICK s \in Servers :
          /\ wire' = Tokens(FlightOf(s, conn + 1))
          /\ server' = [name |-> s.name, flight |-> s.flight, reply |-> s.reply, done |-> FALSE,
                        transcript |-> <<Hello(conn + 1)>> \o SentMessages(conn + 1, s)]
  BY DEF Connect
<1>3. /\ pc' = "flight" /\ conn' = conn + 1 /\ got' = NoneGot /\ flight' = <<>> /\ stream' = stream
      /\ clean' = (stream = <<>>) /\ transcript' = Extended(<<>>, Hello(conn + 1)) /\ conn \in Nat
  BY DEF Connect, Open, Inv, TokensOK
<1>4. stream' = <<>> /\ s.name = "honest" /\ s.reply = server'.reply
      /\ server'.transcript = <<Hello(conn + 1)>> \o SentMessages(conn + 1, s)
      /\ TotalSize(server'.transcript) <= TranscriptMax
  BY <1>1, <1>2, <1>3 DEF Smooth, Honest
<1>5. KeepsProtocol(s)
  BY <1>4 DEF HonestKeepProtocol
<1>num. PICK k \in Nat : k = conn + 1
  BY <1>3
<1> DEFINE recs == FlightOf(s, k)
           all == AllParts(recs)
           q == Messages(all)
           h == Hello(k)
           one == <<h>>
           t == one \o q
<1>6. /\ recs \in Seq(RecordType) /\ recs # <<>>
      /\ \A i \in 1 .. Len(recs) :
            /\ recs[i].type = "handshake" /\ recs[i].enc = 0
            /\ \A j \in 1 .. Len(recs[i].parts) : recs[i].parts[j].msg.conn = k
      /\ HasLast(recs[Len(recs)].parts)
  BY <1>5, ProperFlight
<1>7. server'.transcript = t /\ wire' = Tokens(recs) /\ InOrder(q)
  <2>1. k \in 1 .. MaxCalls
    BY <1>num, TlsAssumption DEF Connect, Inv, TokensOK
  <2> QED
    BY <1>2, <1>4, <1>5, <1>num, <2>1 DEF SentMessages, KeepsProtocol
<1> HIDE DEF recs
<1>8. all \in Seq(PartType) /\ q \in Seq(MsgType)
  BY <1>6, PartsOfFlight, MessagesType
<1>9. h \in MsgType
  BY HelloFirst
<1> HIDE DEF all, q, h
<1>10. one \in Seq(MsgType) /\ Len(one) = 1 /\ one = Append(<<>>, h) /\ <<>> \in Seq(MsgType)
  BY <1>9
<1> HIDE DEF one
<1>11. t \in Seq(MsgType) /\ Len(t) = 1 + Len(q) /\ \A i \in 1 .. 1 + Len(q) : t[i] = IF i <= 1 THEN one[i] ELSE q[i - 1]
  BY <1>8, <1>10, ConcatProperties
<1>12. Len(q) \in {3, 4}
  BY <1>7 DEF InOrder
<1>13. transcript' = one
  <2>1. TotalSize(one) \in Nat /\ TotalSize(t) \in Nat /\ TotalSize(one) <= TotalSize(t)
    BY <1>8, <1>10, SizeConcat
  <2>2. \A x \in MsgType : x.size \in Nat
    BY DEF MsgType
  <2>3. TotalSize(<<>>) \in Nat /\ TotalSize(one) = TotalSize(<<>>) + h.size
    BY <1>9, <1>10, <2>2, SizeGrows
  <2>4. TotalSize(t) <= TranscriptMax /\ TranscriptMax \in Nat
    BY <1>4, <1>7, TlsAssumption
  <2> HIDE DEF t
  <2>5. ~(TotalSize(<<>>) + h.size > TranscriptMax)
    BY <2>1, <2>3, <2>4
  <2> QED
    BY <1>3, <1>10, <1>num, <2>5 DEF Extended, h
<1> HIDE DEF t
<1>14. t # <<>> /\ Tail(t) = q
  <2>1. t # <<>>
    BY <1>11, <1>12
  <2>2. Tail(t) \in Seq(MsgType) /\ Len(Tail(t)) = Len(t) - 1 /\ \A i \in 1 .. Len(Tail(t)) : Tail(t)[i] = t[i + 1]
    BY <1>11, <2>1, HeadTailProperties
  <2>3. Len(Tail(t)) = Len(q)
    BY <1>11, <1>12, <2>2
  <2>4. ASSUME NEW i \in 1 .. Len(Tail(t)) PROVE Tail(t)[i] = q[i]
    <3>1. i + 1 \in 1 .. 1 + Len(q) /\ ~(i + 1 <= 1) /\ (i + 1) - 1 = i
      BY <1>12, <2>3
    <3> QED
      BY <1>11, <2>2, <3>1
  <2> QED
    BY <1>8, <2>1, <2>2, <2>3, <2>4, SeqEqual
<1>15. GotInOrder'
  <2>1. <<>> \in Seq(PartType) /\ NoneGot \in GotType
    BY EmptyParts DEF NoneGot, GotType, Text
  <2>2. 1 # Len(t)
    <3> DEFINE l == Len(q)
               n == Len(t)
    <3>1. l \in {3, 4} /\ n = 1 + l
      BY <1>11, <1>12
    <3> HIDE DEF l, n
    <3>2. 1 # n
      BY <3>1
    <3> QED
      BY <3>2 DEF n
  <2>3. NoneGot.hello = FALSE /\ NoneGot.done = FALSE
    BY DEF NoneGot
  <2>4. GotSoFar(1, server.transcript)'
    <3>1. 1 >= 1 /\ ~(1 >= 2) /\ ~(1 >= 3) /\ ~(1 >= 4)
      OBVIOUS
    <3>2. got'.hello = FALSE /\ got'.done = FALSE /\ 1 # Len(server'.transcript)
      BY <1>3, <1>7, <2>2, <2>3
    <3> QED
      <4>1. got'.hello = (1 >= 2)
        <5>1. (1 >= 2) = FALSE
          OBVIOUS
        <5> QED
          BY <3>2, <5>1
      <4>2. got'.done = (1 = Len(server'.transcript))
        BY <3>2, Zenon
      <4> QED
        BY <3>1, <4>1, <4>2 DEF GotSoFar
  <2>5. Len(transcript') = 1
    BY <1>10, <1>13
  <2> QED
    BY <1>3, <1>7, <1>10, <1>11, <1>13, <1>14, <2>1, <2>4, <2>5 DEF GotInOrder
<1>16. FlightComes(recs)'
  <2>1. OnWay' = Tokens(recs)
    <3> DEFINE w == Tokens(recs)
    <3>1. w \in Seq(TokenType) /\ OnWay' = <<>> \o w
      BY <1>4, <1>6, <1>7, TokenRows DEF OnWay
    <3> HIDE DEF w
    <3>2. <<>> \o w = w
      BY <3>1, ConcatEmptySeq
    <3> QED
      BY <3>1, <3>2 DEF w
  <2>2. server'.transcript = transcript' \o Messages(flight' \o AllParts(recs))
    <3>1. <<>> \o all = all
      BY <1>8, ConcatEmptySeq
    <3> QED
      BY <1>3, <1>7, <1>13, <3>1 DEF t, q, all
  <2>3. \A i \in 1 .. Len(flight') : flight'[i].msg.conn = k
    BY <1>3
  <2> QED
    BY <1>3, <1>6, <1>num, <2>1, <2>2, <2>3 DEF FlightComes
<1>17. server'.reply # <<>>
  BY <1>4, <1>5 DEF KeepsProtocol
<1> QED
  BY <1>3, <1>6, <1>15, <1>16, <1>17 DEF Track

(* Before the first connection, and after one that could not be opened,    *)
(* there is no server.                                                     *)
LEMMA NoneIsServed ==
    /\ Init => CloseOK /\ SaidOK /\ TrackOK
    /\ ConnectFails => TrackOK'
<1>1. NoServer.name # "honest" /\ NoServer.transcript = <<>> /\ <<>> \in Seq(MsgType)
  BY DEF NoServer
<1>2. ASSUME Init PROVE CloseOK /\ SaidOK /\ TrackOK
  BY <1>1, <1>2 DEF Init, CloseOK, Early, SaidOK, TrackOK, Smooth, Honest
<1>3. ASSUME ConnectFails PROVE TrackOK'
  BY <1>1, <1>3 DEF ConnectFails, TrackOK, Smooth, Honest
<1> QED
  BY <1>2, <1>3

(* What a server says are messages.                                        *)
LEMMA SaidStep == ASSUME Inv, SaidOK, [Next]_vars PROVE SaidOK'
<1>1. conn \in Nat
  BY DEF Inv, TokensOK
<1>2. CASE Connect
  <2>1. PICK s \in Servers :
            server' = [name |-> s.name, flight |-> s.flight, reply |-> s.reply, done |-> FALSE,
                       transcript |-> <<Hello(conn + 1)>> \o SentMessages(conn + 1, s)]
    BY <1>2 DEF Connect
  <2> DEFINE h == Hello(conn + 1)
             q == SentMessages(conn + 1, s)
  <2>2. server'.transcript = <<h>> \o q
    BY <2>1
  <2>3. conn + 1 \in Nat
    BY <1>1
  <2>4. h \in MsgType
    BY <2>3, HelloFirst
  <2>5. q \in Seq(MsgType)
    <3>1. FlightOf(s, conn + 1) \in Seq(RecordType)
      BY <2>3, FlightInClear
    <3>2. AllParts(FlightOf(s, conn + 1)) \in Seq(PartType)
      BY <3>1, PartsOfFlight
    <3> QED
      BY <3>2, MessagesType DEF SentMessages
  <2> HIDE DEF h, q
  <2>6. <<h>> \in Seq(MsgType)
    BY <2>4
  <2> QED
    BY <2>2, <2>5, <2>6, ConcatProperties DEF SaidOK
<1>3. CASE ConnectFails
  BY <1>3 DEF ConnectFails, NoServer, SaidOK
<1>4. CASE SendFinished
  <2> DEFINE ke == KeyExchange(conn)
             fc == Finished(conn, "client")
  <2>1. server'.transcript = Append(Append(server.transcript, ke), fc)
    <3>1. TokensOK
      BY DEF Inv
    <3>2. \E b : server' = [server EXCEPT !.done = b, !.transcript = Append(Append(server.transcript, ke), fc)]
      BY <1>4 DEF SendFinished
    <3> QED
      BY <3>1, <3>2 DEF TokensOK
  <2>2. ke \in MsgType /\ fc \in MsgType
    BY <1>1 DEF KeyExchange, Finished, Msg, MsgType, Text
  <2> HIDE DEF ke, fc
  <2> QED
    BY <2>1, <2>2, AppendProperties DEF SaidOK
<1>5. CASE ~Connect /\ ~ConnectFails /\ ~SendFinished
  <2>1. UNCHANGED server
    BY <1>5 DEF Next, Client, Step, Handshake, Fill, RecvTimeout, RecvFlight, WalkMessage, WalkEnds,
                WalkGarbage, CheckFails, RecvCcs, RecvFinished, SendFails, SendRequest, RecvBody,
                Extract, Chatter, session, vars
  <2> QED
    BY <2>1 DEF SaidOK
<1> QED
  BY <1>2, <1>3, <1>4, <1>5

(* One case per action                                                     *)
LEMMA TrackStep ==
    ASSUME HonestKeepProtocol, Inv, SaidOK, TrackOK, [Next]_vars PROVE TrackOK'
<1>1. CASE Connect
  BY <1>1, ConnectTracks
<1>2. CASE ConnectFails
  BY <1>2, NoneIsServed
<1>3. CASE Fill
  <2>1. UNCHANGED <<conn, flight, got, transcript, resp, server, clean>>
    BY <1>3 DEF Fill
  <2>2. CASE Refused("full")
    BY <2>2, TrackFails DEF Refused
  <2>3. CASE OnWay' = OnWay /\ UNCHANGED <<pc, res, flaws>>
    BY <2>1, <2>3, TrackStays
  <2> QED
    BY <1>3, <2>2, <2>3, FillMoves
<1>4. CASE RecvTimeout
  BY <1>4, TrackFails DEF RecvTimeout, Refused
<1>5. CASE RecvFlight
  BY <1>5, RecvFlightTracks
<1>6. CASE WalkMessage
  BY <1>6, WalkMessageTracks
<1>7. CASE WalkEnds \/ WalkGarbage
  BY <1>7, WalkEndsTracks
<1>8. CASE SendFinished
  BY <1>8, SendFinishedTracks
<1>9. CASE CheckFails
  BY <1>9, CheckTracks
<1>10. CASE SendFails
  BY <1>10, TrackFails DEF SendFails
<1>11. CASE RecvCcs
  BY <1>11, RecvCcsTracks
<1>12. CASE RecvFinished
  BY <1>12, RecvFinishedTracks
<1>13. CASE SendRequest
  BY <1>13, SendRequestTracks
<1>14. CASE RecvBody
  BY <1>14, RecvBodyTracks
<1>15. CASE Extract
  BY <1>15, ExtractTracks
<1>16. CASE UNCHANGED session
  <2>1. OnWay' = OnWay
    BY <1>16 DEF session, OnWay
  <2> QED
    BY <1>16, <2>1, TrackStays DEF session
<1> QED
  BY <1>1, <1>2, <1>3, <1>4, <1>5, <1>6, <1>7, <1>8, <1>9, <1>10, <1>11, <1>12, <1>13, <1>14, <1>15,
     <1>16 DEF Next, Client, Step, Handshake, Chatter, vars

(* What HonestServed says of a call that has returned                      *)
LEMMA TrackSuffices == ASSUME Inv, CloseOK, TrackOK PROVE HonestServed
<1>1. CleanAfterClose
  BY DEF CleanAfterClose, CloseOK
<1>2. ASSUME pc = "idle", clean, Honest, flaws = {}
      PROVE  res /\ [i \in DOMAIN resp |-> resp[i].size] = server.reply
  <2>1. Track
    <3>1. clean = TRUE
      BY <1>2
    <3> QED
      BY <1>2, <3>1 DEF TrackOK, Smooth
  <2>2. res = TRUE /\ RespAsSent /\ Len(resp) = Len(server.reply)
    BY <1>2, <2>1 DEF Track
  <2>3. resp \in Seq(RecordType) /\ server.reply \in Seq(Nat)
    BY DEF Inv, NumbersOK, TokensOK
  <2> DEFINE a == [i \in DOMAIN resp |-> resp[i].size]
             b == server.reply
  <2>4. DOMAIN resp = 1 .. Len(resp) /\ DOMAIN b = 1 .. Len(resp) /\ b = [i \in DOMAIN b |-> b[i]]
    BY <2>2, <2>3
  <2>5. \A i \in 1 .. Len(resp) : resp[i].size = b[i]
    BY <2>2 DEF RespAsSent
  <2> HIDE DEF b
  <2>6. a = b
    BY <2>4, <2>5
  <2> QED
    BY <2>2, <2>6 DEF b
<1> QED
  BY <1>1, <1>2 DEF HonestServed

(* A server that keeps to the protocol gets all of its response through,   *)
(* in however many records and segments it comes, as long as nothing       *)
(* timed out, failed or was too large and the static buffer was empty when *)
(* the connection began; and a response that ended with the server's       *)
(* close_notify leaves that buffer empty for the next connection.          *)
THEOREM HonestAreServed == ASSUME HonestKeepProtocol PROVE Spec => []HonestServed
<1> DEFINE I == Inv /\ CloseOK /\ SaidOK /\ TrackOK
<1>1. Init => I
  BY InitHolds, NoneIsServed
<1>2. I /\ [Next]_vars => I'
  <2>1. SUFFICES ASSUME Inv, CloseOK, SaidOK, TrackOK, [Next]_vars
                 PROVE  Inv' /\ CloseOK' /\ SaidOK' /\ TrackOK'
    BY DEF I
  <2> QED
    BY <2>1, StepHolds, CloseStep, SaidStep, TrackStep
<1>3. I => HonestServed
  BY TrackSuffices
<1> QED
  BY <1>1, <1>2, <1>3, PTL DEF Spec
=============================================================================
