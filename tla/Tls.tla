---------------------------------- MODULE Tls ----------------------------------
(***************************************************************************)
(* HTTPS (kernel/tls.c, and net_https_get of kernel/net.c): the record     *)
(* layer with its reassembly buffer, the handshake and the response.       *)
(*                                                                         *)
(* Under it is the TCP of kernel/net.c: what comes is a prefix of what the *)
(* server of this connection sent, in segments of any size, and it may     *)
(* stop at any place.  Net is about that; here a segment is the next few   *)
(* tokens of the wire.  A record has two tokens, its header (with the      *)
(* length in it) and its payload.                                          *)
(*                                                                         *)
(* Cryptography is perfect: a ciphertext can be read with the keys it was  *)
(* made with, and a MAC or signature fits what it was made for.  Random    *)
(* numbers and keys are the number of the connection they belong to.       *)
(*                                                                         *)
(* Next to some definitions stands a variant with a slip in it; nothing    *)
(* uses the variants except the runs that show a property would notice.    *)
(***************************************************************************)
EXTENDS Integers, Sequences, SequencesExt

CONSTANTS
    Servers,       \* how a server may behave: flight, the records of its
                   \* first answer; reply, the sizes of the records of its
                   \* response
    Host,          \* the host name that is asked for
    SegMax,        \* the most tokens in a segment
    StreamMax,     \* TLS_STREAM_BUF_SIZE, in tokens
    FlightMax,     \* the size of flight[]
    TranscriptMax, \* the size of transcript[]
    ChunkMax,      \* the size of chunk[] in net_https_get
    RespMax,       \* the size of response[] in net_https_get
    MaxCalls       \* bound: how many requests are made

(* A server's record holds parts of messages, the last of them marked.     *)
FlightType ==
    Seq([type : STRING, parts : Seq([m : STRING, arg : STRING, size : Nat, last : BOOLEAN])])

ASSUME TlsAssumption ==
    /\ \A s \in Servers : s.flight \in FlightType /\ s.reply \in Seq(Nat)
    /\ SegMax \in Nat \ {0} /\ StreamMax \in Nat /\ FlightMax \in Nat
    /\ TranscriptMax \in Nat /\ ChunkMax \in Nat /\ RespMax \in Nat /\ MaxCalls \in Nat

VARIABLES
    pc,         \* where the client stands
    conn,       \* number of the connection (client_random)
    stream,     \* the static reassembly buffer of tls_recv_record
    flight,     \* flight[0 .. flight_len - 1], as parts of messages
    got,        \* locals of tls_connect: what the server has sent
    transcript, \* the messages in transcript[]
    readSeq,    \* read_seq_num
    resp,       \* response[0 .. response_len - 1], as records
    res,        \* what net_https_get returned
    wire,       \* what the server has sent and the client has not received
    server,     \* the server of this connection, and its own transcript
    clean,      \* history: the buffer was empty when the connection began
    flaws,      \* history of this call
    beat        \* flips when a record comes that says nothing

session == <<pc, conn, stream, flight, got, transcript, readSeq, resp, res, wire, server,
             clean, flaws>>
vars == <<session, beat>>

-----------------------------------------------------------------------------
(* Messages and records *)

(* A message of the handshake of connection k; size counts towards the     *)
(* buffers.                                                                *)
Msg(k, m, arg, size) == [conn |-> k, m |-> m, arg |-> arg, size |-> size]

(* A record in the clear holds parts of messages, an encrypted one is      *)
(* known by its keys and number.                                           *)
Clear(type, parts) == [type |-> type, enc |-> 0, seq |-> 0, parts |-> parts, size |-> 1]
Sealed(k, n, type, parts, size) ==
    [type |-> type, enc |-> k, seq |-> n, parts |-> parts, size |-> size]

Tokens(recs) ==
    [i \in 1 .. 2 * Len(recs) |-> <<recs[(i + 1) \div 2], IF i % 2 = 1 THEN "header" ELSE "payload">>]

Hello(k) == Msg(k, "client_hello", "", 1)
KeyExchange(k) == Msg(k, "client_key_exchange", "", 1)
Finished(k, who) == Msg(k, "finished", who, 1)

NoServer == [name |-> "none", flight |-> <<>>, reply |-> <<>>, done |-> FALSE, transcript |-> <<>>]

(* The flight of a server, as records of connection k: what a part does    *)
(* not say of itself is filled in.                                         *)
FlightOf(s, k) ==
    [i \in DOMAIN s.flight |->
        Clear(s.flight[i].type,
              [j \in DOMAIN s.flight[i].parts |->
                  LET p == s.flight[i].parts[j] IN
                  [msg |-> Msg(k, p.m, p.arg, p.size), last |-> p.last]])]

(* The parts in a sequence of records, and the messages that a sequence of *)
(* parts makes up, in order.                                               *)
AllParts(recs) == FlattenSeq([i \in DOMAIN recs |-> recs[i].parts])
Messages(parts) ==
    FlattenSeq([i \in DOMAIN parts |-> IF parts[i].last THEN <<parts[i].msg>> ELSE <<>>])
SentMessages(k, s) == Messages(AllParts(FlightOf(s, k)))

(* The sum of a sequence of sizes.                                         *)
TotalOf(sizes) ==
    LET sum[i \in 0 .. Len(sizes)] == IF i = 0 THEN 0 ELSE sum[i - 1] + sizes[i]
    IN  sum[Len(sizes)]

-----------------------------------------------------------------------------
(* The record layer *)

(* tls_recv_record waits for a header, and then for as much as the header  *)
(* says.                                                                   *)
Complete == Len(stream) >= 2

(* What stands in front is a record if its two tokens belong together.     *)
(* Otherwise the front is the rest of an earlier connection: a header that *)
(* takes the beginning of this one for its payload, and so on.             *)
Garbled == stream[1][1] # stream[2][1] \/ stream[1][2] # "header"
First == stream[1][1]
FrontType == IF stream[1][2] = "header" THEN {First.type}
             ELSE {"handshake", "alert", "ccs", "data"}

(* tls_stream_consume *)
KeepsAlert == stream' = IF First.type = "alert" THEN stream ELSE SubSeq(stream, 3, Len(stream))
Consume == stream' = SubSeq(stream, 3, Len(stream))

DeadlineForHandshakeOnly == {"flight", "ccs", "finished"}
Receiving == {"flight", "ccs", "finished", "body"}

(* Leaving with an error: tcp_close, and nothing of the static buffer.     *)
Fail == pc' = "idle" /\ res' = FALSE

(* tls_recv_record returned false.                                         *)
Refused(flaw) ==
    /\ flaws' = flaws \cup {flaw}
    /\ IF pc = "body" THEN pc' = "extract" /\ UNCHANGED res ELSE Fail

(* tls_stream_fill: a segment is appended, or refused if there is no room. *)
(* It has been acknowledged already.                                       *)
Fill ==
    /\ pc \in Receiving /\ ~Complete
    /\ \E n \in 1 .. SegMax :
          /\ n <= Len(wire)
          /\ wire' = SubSeq(wire, n + 1, Len(wire))
          /\ IF Len(stream) + n > StreamMax
             THEN Refused("full") /\ UNCHANGED stream
             ELSE stream' = stream \o SubSeq(wire, 1, n) /\ UNCHANGED <<pc, res, flaws>>
    /\ UNCHANGED <<conn, flight, got, transcript, readSeq, resp, server, clean>>

RecvTimeout ==
    /\ pc \in Receiving /\ ~Complete
    /\ Refused("timeout")
    /\ UNCHANGED <<conn, stream, flight, got, transcript, readSeq, resp, wire, server, clean>>

(* The padding and the MAC over number, type and payload are right.        *)
Authentic == ~Garbled /\ First.enc = conn /\ First.seq = readSeq

-----------------------------------------------------------------------------
(* tls_connect *)

NoneGot == [hello |-> FALSE, random |-> 0, suite |-> "none", cert |-> "none",
            ske |-> FALSE, done |-> FALSE]

(* transcript_append: what does not fit is left out.                       *)
TotalSize(msgs) == TotalOf([i \in DOMAIN msgs |-> msgs[i].size])
FullTooEarly(msgs, m) == IF TotalSize(msgs) + m.size >= TranscriptMax THEN msgs ELSE Append(msgs, m)
Extended(msgs, m) == IF TotalSize(msgs) + m.size > TranscriptMax THEN msgs ELSE Append(msgs, m)

Open(k) ==
    /\ conn' = k /\ got' = NoneGot /\ readSeq' = 0 /\ resp' = <<>> /\ flight' = <<>>
    /\ clean' = (stream = <<>>)
    /\ UNCHANGED stream

(* TCP connects and the ClientHello is sent; the server answers.           *)
Connect ==
    /\ pc = "idle" /\ conn < MaxCalls
    /\ Open(conn + 1) /\ pc' = "flight" /\ res' = FALSE /\ flaws' = {}
    /\ transcript' = Extended(<<>>, Hello(conn + 1))
    /\ \E s \in Servers :
          /\ wire' = Tokens(FlightOf(s, conn + 1))
          /\ server' = [name |-> s.name, flight |-> s.flight, reply |-> s.reply, done |-> FALSE,
                        transcript |-> <<Hello(conn + 1)>> \o SentMessages(conn + 1, s)]

(* There is no connection, or the ClientHello cannot be sent.              *)
ConnectFails ==
    /\ pc = "idle" /\ conn < MaxCalls
    /\ Open(conn + 1) /\ Fail /\ flaws' = {"send"}
    /\ transcript' = <<>> /\ wire' = <<>> /\ server' = NoServer

(* A record of the server's flight.  One that is garbled, or was encrypted *)
(* for an earlier connection, is bytes that make up no message.            *)
Junk == [msg |-> Msg(0, "junk", "", 1), last |-> FALSE]
Parts == IF Garbled \/ First.enc # 0 THEN <<Junk>> ELSE First.parts
TotalParts(parts) == TotalOf([i \in DOMAIN parts |-> parts[i].msg.size])

RecvFlight ==
    /\ pc = "flight" /\ Complete /\ Consume
    /\ \E type \in FrontType :
       \/ (type = "alert" \/ Garbled) /\ Fail /\ UNCHANGED <<flight, flaws>>
       \/ type \in {"ccs", "data"} /\ UNCHANGED <<pc, res, flight, flaws>>
       \/ /\ type = "handshake"
          /\ IF TotalParts(flight) + TotalParts(Parts) > FlightMax
             THEN Fail /\ flaws' = flaws \cup {"full"} /\ UNCHANGED flight
             ELSE pc' = "walk" /\ flight' = flight \o Parts /\ UNCHANGED <<res, flaws>>
    /\ UNCHANGED <<conn, got, transcript, readSeq, resp, wire, server, clean>>

(* The first message is there if its last part is, and what is before that *)
(* is of the same message.                                                 *)
EndsFirst(i) ==
    /\ flight[i].last
    /\ \A j \in 1 .. i - 1 :
          /\ ~flight[j].last
          /\ flight[j].msg.conn = flight[i].msg.conn /\ flight[j].msg.m = flight[i].msg.m
WholeMessage == \E i \in DOMAIN flight : EndsFirst(i)
EndOfFirst == CHOOSE i \in DOMAIN flight : EndsFirst(i)

(* rsa_verify_pkcs1_sha256 over both random numbers and the key.           *)
AnySignature(m) == m.arg # "unsupported"
Signed(m) == m.arg = "signed" /\ m.conn = got.random /\ m.conn = conn

OfferedSuite(m) == m.arg \in {"ecdhe", "rsa"}
Parsed(m) == m.arg # "unparsable"

(* What a message adds to what the server has sent; the empty set if it is *)
(* refused.                                                                *)
Accepted(m) ==
    CASE m.m = "hello" ->
            IF OfferedSuite(m)
            THEN {[got EXCEPT !.hello = TRUE, !.random = m.conn, !.suite = m.arg]} ELSE {}
      [] m.m = "ske" ->
            IF got.cert # "none" /\ Signed(m) THEN {[got EXCEPT !.ske = TRUE]} ELSE {}
      [] m.m = "cert" -> IF Parsed(m) THEN {[got EXCEPT !.cert = m.arg]} ELSE {}
      [] m.m = "done" -> {[got EXCEPT !.done = TRUE]}
      [] OTHER -> {got}

WalkMessage ==
    /\ pc = "walk" /\ WholeMessage
    /\ LET m == flight[EndOfFirst].msg IN
       /\ transcript' = Extended(transcript, m)
       /\ flight' = SubSeq(flight, EndOfFirst + 1, Len(flight))
       /\ \/ got' \in Accepted(m) /\ UNCHANGED <<pc, res>>
          \/ Accepted(m) = {} /\ Fail /\ UNCHANGED got
    /\ UNCHANGED <<conn, stream, readSeq, resp, wire, server, clean, flaws>>

WalkEnds ==
    /\ pc = "walk" /\ ~WholeMessage
    /\ pc' = IF got.done THEN "check" ELSE "flight"
    /\ UNCHANGED <<conn, stream, flight, got, transcript, readSeq, resp, res, wire, server,
                   clean, flaws>>

(* Bytes of two connections run together are waited upon as one message,   *)
(* or refused as a malformed one.                                          *)
WalkGarbage ==
    /\ pc = "walk" /\ ~WholeMessage
    /\ \E i \in DOMAIN flight : flight[i].msg.conn # conn
    /\ Fail
    /\ UNCHANGED <<conn, stream, flight, got, transcript, readSeq, resp, wire, server, clean, flaws>>

NameIgnored == got.hello /\ got.cert # "none" /\ (got.suite = "ecdhe" => got.ske)
Acceptable == NameIgnored /\ got.cert = Host

(* The checks after ServerHelloDone; then ClientKeyExchange, ChangeCipher- *)
(* Spec and Finished.  A server whose transcript is the same answers with  *)
(* its own, another one with an alert.                                     *)
SendFinished ==
    /\ pc = "check" /\ Acceptable
    /\ pc' = "ccs"
    /\ LET upTo == Extended(transcript, KeyExchange(conn))
           theirs == Append(server.transcript, KeyExchange(conn)) IN
       /\ transcript' = Extended(upTo, Finished(conn, "client"))
       /\ server' = [server EXCEPT !.done = (upTo = theirs),
                                   !.transcript = Append(theirs, Finished(conn, "client"))]
       /\ wire' = wire \o Tokens(
             IF upTo = theirs
             THEN <<Clear("ccs", <<>>),
                    Sealed(conn, 0, "handshake", <<[msg |-> Finished(conn, "server"), last |-> TRUE]>>, 1)>>
             ELSE <<Clear("alert", <<>>)>>)
    /\ UNCHANGED <<conn, stream, flight, got, readSeq, resp, res, clean, flaws>>

CheckFails ==
    /\ pc = "check" /\ ~Acceptable /\ Fail
    /\ UNCHANGED <<conn, stream, flight, got, transcript, readSeq, resp, wire, server, clean, flaws>>

(* No key pair, no shared secret, or a record that cannot be sent.         *)
SendFails ==
    /\ pc \in {"check", "request"} /\ (pc = "check" => Acceptable) /\ Fail
    /\ flaws' = flaws \cup {"send"}
    /\ UNCHANGED <<conn, stream, flight, got, transcript, readSeq, resp, wire, server, clean>>

RecvCcs ==
    /\ pc = "ccs" /\ Complete /\ Consume
    /\ \E type \in FrontType :
          IF type = "ccs" THEN pc' = "finished" /\ UNCHANGED res ELSE Fail
    /\ UNCHANGED <<conn, flight, got, transcript, readSeq, resp, wire, server, clean, flaws>>

(* The server's Finished is made over the server's transcript.             *)
Verified == First.type = "handshake" /\ transcript = server.transcript

RecvFinished ==
    /\ pc = "finished" /\ Complete /\ Consume
    /\ readSeq' = readSeq + 1
    /\ IF Authentic /\ Verified THEN pc' = "request" /\ UNCHANGED res ELSE Fail
    /\ UNCHANGED <<conn, flight, got, transcript, resp, wire, server, clean, flaws>>

-----------------------------------------------------------------------------
(* net_https_get *)

(* tls_send of the request, and what the server replies: its records and   *)
(* a close_notify.                                                         *)
SendRequest ==
    /\ pc = "request" /\ pc' = "body"
    /\ wire' = wire \o Tokens(
          [i \in DOMAIN server.reply |-> Sealed(conn, i, "data", <<>>, server.reply[i])]
          \o <<Sealed(conn, Len(server.reply) + 1, "alert", <<>>, 1)>>)
    /\ UNCHANGED <<conn, stream, flight, got, transcript, readSeq, resp, res, server, clean, flaws>>

RespSize == TotalOf([i \in DOMAIN resp |-> resp[i].size])

(* tls_recv: a record of the response, or the end of it, which a record    *)
(* larger than the caller's buffer is too.                                 *)
IsData == Authentic /\ First.type = "data" /\ First.size <= ChunkMax
NoRoomAtTheEnd == RespSize + First.size < RespMax
Room == RespSize + First.size <= RespMax

RecvBody ==
    /\ pc = "body" /\ Complete /\ Consume
    /\ readSeq' = readSeq + 1
    /\ pc' = IF IsData THEN "body" ELSE "extract"
    /\ resp' = IF IsData /\ Room THEN Append(resp, First) ELSE resp
    /\ flaws' = flaws \cup
          (IF IsData THEN IF RespSize + First.size <= RespMax THEN {} ELSE {"skipped"}
           ELSE IF Authentic /\ First.type = "alert" THEN {} ELSE {"record"})
    /\ UNCHANGED <<conn, flight, got, transcript, res, wire, server, clean>>

(* tls_close and http_extract_body, which refuses a response without all   *)
(* of its headers, with a bad status, or with a body it cannot decode.     *)
Extract ==
    /\ pc = "extract" /\ pc' = "idle"
    /\ \/ res' = (resp # <<>>) /\ UNCHANGED flaws
       \/ res' = FALSE /\ flaws' = flaws \cup {"refused"}
    /\ UNCHANGED <<conn, stream, flight, got, transcript, readSeq, resp, wire, server, clean>>

(* A server that goes on sending: a record without data, or a record that  *)
(* is no part of a flight.  The client takes it, and waits for the next    *)
(* with a new deadline, for ever if it must.  (The server counts it, too:  *)
(* records are numbered here without it.)                                  *)
Chatter ==
    /\ pc \in Receiving \cap {"flight", "body"} /\ stream = <<>>
    /\ beat' = ~beat
    /\ UNCHANGED session

-----------------------------------------------------------------------------
Init ==
    /\ pc = "idle" /\ conn = 0 /\ stream = <<>> /\ flight = <<>> /\ got = NoneGot
    /\ transcript = <<>> /\ readSeq = 0 /\ resp = <<>> /\ res = FALSE
    /\ wire = <<>> /\ server = NoServer /\ clean = TRUE /\ flaws = {} /\ beat = FALSE

Handshake == RecvFlight \/ WalkMessage \/ WalkEnds \/ WalkGarbage \/ SendFinished \/ CheckFails
             \/ RecvCcs \/ RecvFinished
Step == Fill \/ RecvTimeout \/ Handshake \/ SendFails \/ SendRequest \/ RecvBody \/ Extract
Client == (Step /\ beat' = FALSE) \/ Chatter

Next == ((Connect \/ ConnectFails) /\ beat' = FALSE) \/ Client

Spec == Init /\ [][Next]_vars
(* The client polls and its deadlines pass, whatever the server does;      *)
(* nothing is asked of the server, which may be silent or never stop.      *)
FairSpec == Spec /\ WF_vars(Client)

-----------------------------------------------------------------------------
(* Properties *)

TypeOK ==
    /\ pc \in {"idle", "flight", "walk", "check", "ccs", "finished", "request", "body", "extract"}
    /\ conn \in 0 .. MaxCalls /\ readSeq \in Nat /\ res \in BOOLEAN /\ clean \in BOOLEAN
    /\ Len(stream) <= StreamMax /\ TotalParts(flight) <= FlightMax
    /\ TotalSize(transcript) <= TranscriptMax /\ RespSize <= RespMax
    /\ got.random \in 0 .. conn
    /\ flaws \subseteq {"timeout", "full", "send", "skipped", "record", "refused"}

(* The server has completed the handshake too, over the same messages, and *)
(* they have passed the checks.                                            *)
Completed ==
    pc \in {"request", "body", "extract"} =>
        server.done /\ transcript = server.transcript /\ Acceptable

(* handshake_done is set only if the server of this very connection has    *)
(* completed the same handshake: the suite is the one it chose, its        *)
(* certificate has the name that was asked for, and the key exchange was   *)
(* signed for this connection - although the reassembly buffer may begin   *)
(* with records of earlier connections.                                    *)
(* (And every variable has its type.)                                      *)
Agreement ==
    /\ TypeOK /\ Completed
    /\ pc \in {"request", "body", "extract"} =>
          /\ \E i \in DOMAIN transcript :
                transcript[i].conn = conn /\ transcript[i].m = "hello" /\ transcript[i].arg = got.suite
          /\ \E i \in DOMAIN transcript :
                transcript[i].conn = conn /\ transcript[i].m = "cert" /\ transcript[i].arg = Host
          /\ got.suite = "ecdhe" =>
                \E i \in DOMAIN transcript :
                    transcript[i].conn = conn /\ transcript[i].m = "ske" /\ transcript[i].arg = "signed"

(* The response is what this server sent on this connection, in order and  *)
(* without a gap, until a record was skipped because the buffer was full.  *)
OwnResponse ==
    \A i \in DOMAIN resp :
        /\ resp[i].enc = conn
        /\ "skipped" \notin flaws => resp[i].seq = i

(* A server that sends a flight in order, however it is cut into records   *)
(* and segments, with nothing timed out or too large and a response that   *)
(* can be decoded, gets it through: all of it - if the buffer was empty    *)
(* when the connection began.                                              *)
(* A response that ended with a server's close_notify leaves nothing       *)
(* behind in the static buffer for the next connection.                    *)
Honest ==
    /\ server.name = "honest"
    /\ TotalSize(server.transcript) <= TranscriptMax
    /\ \A i \in DOMAIN server.reply : server.reply[i] <= ChunkMax
CleanAfterClose ==
    pc = "idle" /\ res /\ flaws \cap {"timeout", "full", "record"} = {} => stream = <<>>
HonestServed ==
    /\ CleanAfterClose
    /\ pc = "idle" /\ conn > 0 /\ clean /\ Honest /\ flaws = {} =>
          res /\ [i \in DOMAIN resp |-> resp[i].size] = server.reply

(* net_https_get returns, whatever records the server sends and wherever   *)
(* they stop, provided that they do: its loop has no other bound, since    *)
(* every record gets a new deadline and a full response[] does not end it. *)
ServerStops == <>[][~Chatter]_vars
RequestsReturn == ServerStops => (pc # "idle" ~> pc = "idle")

-----------------------------------------------------------------------------
(* What the theorems about handshakes suppose of the servers *)

(* No handshake message of a server is as large as transcript[].  (One     *)
(* that is would be looked at and left out of the transcript, so that no   *)
(* Finished vouches for it.)                                               *)
MessagesFit ==
    \A s \in Servers : \A i \in DOMAIN s.flight : \A j \in DOMAIN s.flight[i].parts :
        s.flight[i].parts[j].size < TranscriptMax

(* The messages of a flight in order; and a server that sends one, however *)
(* it is cut into records and parts, with nothing behind its last message, *)
(* and a response.                                                         *)
InOrder(q) ==
    /\ Len(q) \in {3, 4}
    /\ q[1].m = "hello" /\ q[2].m = "cert" /\ q[2].arg = Host /\ q[Len(q)].m = "done"
    /\ Len(q) = 3 => q[1].arg = "rsa"
    /\ Len(q) = 4 => q[1].arg = "ecdhe" /\ q[3].m = "ske" /\ q[3].arg = "signed"
HasLast(parts) == \E j \in 1 .. Len(parts) : parts[j].last = TRUE
KeepsProtocol(s) ==
    /\ s.flight # <<>> /\ s.reply # <<>>
    /\ \A i \in 1 .. Len(s.flight) : s.flight[i].type = "handshake"
    /\ HasLast(s.flight[Len(s.flight)].parts)
    /\ \A k \in 1 .. MaxCalls : InOrder(SentMessages(k, s))

(* Servers called honest are; and the name is one a certificate can have.  *)
HonestKeepProtocol ==
    /\ Host \notin {"none", "unparsable"}
    /\ \A s \in Servers : s.name = "honest" => KeepsProtocol(s)
=============================================================================
