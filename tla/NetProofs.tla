------------------------------- MODULE NetProofs -------------------------------
(***************************************************************************)
(* For any networks, hosts, replies and buffer sizes, and however frames   *)
(* are lost, repeated, reordered and late: a lease is one that a server    *)
(* acknowledged, queries and segments go where they are meant to go, and a *)
(* response is what one server sent, in order, and all of it unless the    *)
(* call says otherwise.                                                    *)
(***************************************************************************)
EXTENDS Net, SequenceTheorems, TLAPS

Addresses == Nets \cup Hosts \cup {"none"}

(* The shape of what TypeOK says only parts of                             *)
CallType == [op : {"none", "netconnect", "fetch", "download"}, host : Hosts \cup {"none"},
             offer : Nets \cup {"none"}, stamp : Nat]
Positions == [conn : Nat, at : Nat]
ConnType == [port : Nat, host : Hosts \cup {"none"}, mac : Addresses, expect : Positions]
OpenType == [port : Nat, host : Hosts \cup {"none"}, length : Nat]

Shapes ==
    /\ call \in CallType /\ conn \in ConnType
    /\ resp \in Seq(Positions) /\ opened \in Seq(OpenType)

(* A frame on the way, however late, is an answer to something this        *)
(* machine has sent, and says no more than history has recorded.           *)
OfConnection(m) ==
    /\ m.seq \in Positions /\ m.seq.conn \in 1 .. Len(opened)
    /\ m.port = opened[m.seq.conn].port /\ m.from = opened[m.seq.conn].host
FrameOK(m) ==
    /\ m.t = "offer" => m.net \in Nets
    /\ m.t = "ack" => m.net \in acked
    /\ m.t = "arp" => m.mac = m.from
    /\ m.t = "dns" => /\ m.answer \in Hosts \cup {"none"}
                      /\ m.answer # "none" => [stamp |-> m.stamp, host |-> m.answer] \in asked
    /\ m.t \in {"synack", "seg"} => OfConnection(m)
    /\ m.t = "seg" => /\ m.len \in Nat /\ m.fin \in BOOLEAN
                      /\ m.fin => m.seq.at + m.len - 1 = opened[m.seq.conn].length
FramesOK == \A m \in frames : FrameOK(m)

(* Where the client stands in which command                                *)
LeaseOK ==
    /\ lease.have => lease.net \in acked
    /\ pc \in {"discover", "offer", "request", "ack"} => call.op = "netconnect"
    /\ pc \in {"request", "ack"} => call.offer \in Nets
Getting == {"hop", "hopsend", "arp", "query", "dns", "syn", "synack", "synackack", "recv",
            "again", "close", "body"}
Unconnected == {"hop", "hopsend", "arp", "query", "dns", "syn"}
GetOK ==
    /\ pc \in Getting => call.op \in {"fetch", "download"} /\ call.host \in Hosts
    /\ pc \in Unconnected => conn.port = 0

(* The address a fetch connects to is an answer to its own query, or to    *)
(* one with the same number.                                               *)
Answered == [stamp |-> call.stamp, host |-> conn.host] \in asked
HostOK ==
    /\ pc \in {"hop", "hopsend", "arp", "syn"} /\ call.op = "fetch" /\ call.stamp # 0 => Answered
    /\ pc = "syn" /\ call.op = "fetch" => call.stamp # 0
    /\ RightHost

(* The cache maps an address to the hardware address of the same machine.  *)
MacOK ==
    /\ arp.mac = arp.ip
    /\ pc = "syn" => conn.mac = HopTo(Remote)
    /\ ToNextHop

(* The response is the stream of one connection from its start.            *)
PeerOK ==
    /\ pc \in {"synackack", "recv", "again", "close", "body"} => conn.expect.conn \in 1 .. Len(opened)
    /\ pc \in {"synack", "synackack"} =>
          \A m \in frames : m.t = "seg" => m.seq.conn # Len(opened)
    /\ pc = "synackack" => conn.expect.at = 1
    /\ \A i \in 1 .. Len(resp) :
          /\ resp[i].conn \in 1 .. Len(opened)
          /\ opened[resp[i].conn].port = conn.port /\ opened[resp[i].conn].host = conn.host
ReplyOK ==
    /\ pc \notin {"recv", "again", "close", "body", "idle"} => resp = <<>> /\ flaws = {}
    /\ "skipped" \notin flaws => \A i \in 1 .. Len(resp) : resp[i].at = i
    /\ pc \in {"recv", "again"} /\ "skipped" \notin flaws => conn.expect.at = Len(resp) + 1
WholeReply == Len(resp) = opened[conn.expect.conn].length
EndOK ==
    /\ pc \in {"close", "body"} /\ flaws = {} /\ resp # <<>> => WholeReply
    /\ pc \in {"recv", "again"} => "cut" \notin flaws
    /\ res = TRUE => pc = "idle"
    /\ res = TRUE /\ call.op # "netconnect" /\ flaws = {} => WholeReply

Stages == LeaseOK /\ GetOK /\ HostOK /\ MacOK
Reply == PeerOK /\ ReplyOK /\ EndOK
Inv == TypeOK /\ Shapes /\ FramesOK /\ Stages /\ Reply

-----------------------------------------------------------------------------
(* Lemmas about frames *)

(* What a frame says stays true while history only grows.                  *)
LEMMA FrameKept ==
    ASSUME NEW m, FrameOK(m), opened \in Seq(OpenType), opened' \in Seq(OpenType),
           acked \subseteq acked', asked \subseteq asked', Len(opened) <= Len(opened'),
           \A k \in 1 .. Len(opened) :
               /\ opened'[k].port = opened[k].port /\ opened'[k].host = opened[k].host
               /\ m.t = "seg" /\ m.seq.conn = k => opened'[k].length = opened[k].length
    PROVE  FrameOK(m)'
<1>1. Len(opened) \in Nat /\ Len(opened') \in Nat
  OBVIOUS
<1>2. OfConnection(m) => OfConnection(m)'
  BY <1>1 DEF OfConnection
<1>3. OfConnection(m) => m.seq.conn \in 1 .. Len(opened)
  BY DEF OfConnection
<1> QED
  BY <1>2, <1>3 DEF FrameOK

(* Frames are lost, or taken by the client; nothing new is said.           *)
LEMMA FramesShrink ==
    ASSUME FramesOK, frames' \subseteq frames, Shapes,
           acked \subseteq acked', asked \subseteq asked', opened' = opened
    PROVE  FramesOK'
  BY FrameKept DEF FramesOK, Shapes

(* One more frame is on the way.                                           *)
LEMMA FramesGrow ==
    ASSUME FramesOK, Shapes, NEW A, Send(A), \A a \in A : \A m \in a : FrameOK(m)',
           acked \subseteq acked', asked \subseteq asked', opened' = opened
    PROVE  FramesOK'
<1>1. \A m \in frames : FrameOK(m)'
  BY FrameKept DEF FramesOK, Shapes
<1>2. \A m \in frames' : m \in frames \/ \E a \in A : m \in a
  BY DEF Send
<1> QED
  BY <1>1, <1>2 DEF FramesOK

(* e1000_poll_receive hands over a frame that was on the way.              *)
LEMMA TakeKeeps ==
    ASSUME TypeOK, NEW m, Take(m)
    PROVE  frames' \subseteq frames /\ calls' \in 0 .. MaxCalls /\ dups' \in 0 .. MaxDups
<1>1. dups \in 0 .. MaxDups /\ calls \in 0 .. MaxCalls /\ MaxDups \in Nat /\ MaxCalls \in Nat
  BY NetAssumption DEF TypeOK
<1>2. CASE frames' = frames \ {m} /\ dups' = dups /\ calls' = calls
  BY <1>1, <1>2
<1>3. CASE dups < MaxDups /\ dups' = dups + 1 /\ frames' = frames /\ calls' = calls
  BY <1>1, <1>3
<1> QED
  BY <1>2, <1>3 DEF Take

-----------------------------------------------------------------------------
(* The invariant is inductive: the first state, then one lemma per action *)

(* No lease, nothing cached, nothing on the way.                           *)
LEMMA InitHolds == ASSUME Init PROVE Inv
<1> USE DEF Init
<1>1. TypeOK
  <2>1. res \in BOOLEAN /\ lease.have = FALSE
        /\ lease \in [have : BOOLEAN, net : Nets \cup {"none"}, gw : Nets \cup {"none"}]
    BY Zenon
  <2> QED
    BY <2>1, NetAssumption DEF TypeOK, NoCall, NoConn
<1>2. Shapes
  BY DEF Shapes, CallType, ConnType, Positions, Addresses, NoCall, NoConn
<1>3. FramesOK
  BY DEF FramesOK
<1>4. Stages
  BY DEF Stages, LeaseOK, GetOK, HostOK, MacOK, Getting, Unconnected, RightHost, ToNextHop, NoConn
<1>5. Reply
  BY DEF Reply, PeerOK, ReplyOK, EndOK
<1> QED
  BY <1>1, <1>2, <1>3, <1>4, <1>5 DEF Inv

(* A call that returns leaves everything as it stands.                     *)
LEMMA ReturnHolds ==
    ASSUME Inv, pc' = "idle", now' \in Nat, calls' \in 0 .. MaxCalls, dups' \in 0 .. MaxDups,
           frames' \subseteq frames, res' \in BOOLEAN,
           UNCHANGED <<lease, arp, call, conn, resp, acked, asked, opened, flaws>>,
           res' = TRUE /\ call.op # "netconnect" /\ flaws = {} => WholeReply
    PROVE  Inv'
<1> USE DEF Inv
<1>1. TypeOK'
  BY DEF TypeOK
<1>2. Shapes'
  BY DEF Shapes
<1>3. FramesOK'
  BY FramesShrink
<1>4. Stages'
  BY DEF Stages, LeaseOK, GetOK, HostOK, MacOK, Getting, Unconnected, RightHost, ToNextHop
<1>5. Reply'
  BY DEF Reply, PeerOK, ReplyOK, EndOK, WholeReply
<1> QED
  BY <1>1, <1>2, <1>3, <1>4, <1>5

(* A frame could not be sent.                                              *)
LEMMA SendFailsHolds == ASSUME Inv, SendFails PROVE Inv'
<1>1. now \in Nat /\ calls \in 0 .. MaxCalls /\ dups \in 0 .. MaxDups
  BY DEF Inv, TypeOK
<1>2. res' = FALSE /\ res' \in BOOLEAN
  BY Zenon DEF SendFails, Return
<1> QED
  BY <1>1, <1>2, ReturnHolds DEF SendFails, Return, history, bounds

(* A deadline has passed.                                                  *)
LEMMA TimeoutHolds == ASSUME Inv, Timeout PROVE Inv'
<1>1. now + 1 \in Nat /\ calls \in 0 .. MaxCalls /\ dups \in 0 .. MaxDups
  BY DEF Inv, TypeOK
<1>2. res' = FALSE /\ res' \in BOOLEAN
  BY Zenon DEF Timeout, Return
<1> QED
  BY <1>1, <1>2, ReturnHolds DEF Timeout, Return, history, bounds

(* A command begins with fresh locals.                                     *)
LEMMA StartKeeps ==
    ASSUME TypeOK, NEW op \in {"netconnect", "fetch", "download"}, NEW h \in Hosts \cup {"none"},
           NEW at, Start(op, h, at)
    PROVE  /\ now' \in Nat /\ calls' \in 0 .. MaxCalls /\ pc' = at /\ res' = FALSE
           /\ conn' = NoConn /\ resp' = <<>> /\ flaws' = {}
           /\ call' = [op |-> op, host |-> h, offer |-> "none", stamp |-> 0]
<1>1. now \in Nat /\ calls \in 0 .. MaxCalls /\ MaxCalls \in Nat
  BY NetAssumption DEF TypeOK
<1>2. now' \in {now, now + 1} /\ calls < MaxCalls /\ calls' = calls + 1
  BY DEF Start
<1>3. now' \in Nat /\ calls' \in 0 .. MaxCalls
  BY <1>1, <1>2
<1> QED
  BY <1>3 DEF Start, NoCall

(* So what is said of a call and its connection holds at its beginning.    *)
LEMMA FreshHolds ==
    ASSUME Inv, NEW op \in {"netconnect", "fetch", "download"}, NEW h \in Hosts \cup {"none"},
           NEW at \in {"idle", "discover", "hop"}, Start(op, h, at),
           UNCHANGED <<arp, frames, acked, asked, opened, dups>>,
           lease' \in [have : BOOLEAN, net : Nets \cup {"none"}, gw : Nets \cup {"none"}],
           lease'.have => lease' = lease,
           at = "discover" => op = "netconnect",
           at = "hop" => op \in {"fetch", "download"} /\ h \in Hosts
    PROVE  Inv'
<1> USE DEF Inv
<1>1. /\ now' \in Nat /\ calls' \in 0 .. MaxCalls /\ pc' = at /\ res' = FALSE
      /\ conn' = NoConn /\ resp' = <<>> /\ flaws' = {}
      /\ call' = [op |-> op, host |-> h, offer |-> "none", stamp |-> 0]
  BY StartKeeps
<1>2. Shapes'
  <2>1. call' \in CallType
    BY <1>1 DEF CallType
  <2>2. conn' \in ConnType
    BY <1>1 DEF ConnType, NoConn, Positions, Addresses
  <2> QED
    BY <1>1, <2>1, <2>2 DEF Shapes
<1>3. TypeOK'
  <2>1. res' \in BOOLEAN
    BY <1>1, Zenon
  <2>2. lease'.have => lease'.net # "none" /\ lease'.gw # "none"
    BY DEF TypeOK
  <2>3. call'.host \in Hosts \cup {"none"} /\ call'.offer \in Nets \cup {"none"}
    BY <1>1
  <2>4. /\ conn'.port \in Nat /\ conn'.host \in Hosts \cup {"none"}
        /\ conn'.expect.conn \in 0 .. Len(opened') /\ conn'.expect.at \in Nat
    <3>1. Len(opened') \in Nat
      BY <1>2 DEF Shapes
    <3> QED
      BY <1>1, <3>1 DEF NoConn
  <2>5. Len(resp') <= RespMax
    BY <1>1, NetAssumption
  <2> QED
    BY <1>1, <2>1, <2>2, <2>3, <2>4, <2>5 DEF TypeOK
<1>4. FramesOK'
  BY FramesShrink
<1>5. Stages'
  <2>1. LeaseOK'
    BY <1>1 DEF Stages, LeaseOK
  <2>2. GetOK'
    BY <1>1 DEF GetOK, Getting, Unconnected, NoConn
  <2>3. HostOK'
    BY <1>1 DEF HostOK, RightHost, NoConn
  <2>4. MacOK'
    BY <1>1 DEF Stages, MacOK, ToNextHop
  <2> QED
    BY <2>1, <2>2, <2>3, <2>4 DEF Stages
<1>6. Reply'
  BY <1>1 DEF Reply, PeerOK, ReplyOK, EndOK
<1> QED
  BY <1>2, <1>3, <1>4, <1>5, <1>6

(* The lease is forgotten, or the card does not come up.                   *)
LEMMA NetConnectHolds == ASSUME Inv, NetConnect PROVE Inv'
<1>1. lease \in [have : BOOLEAN, net : Nets \cup {"none"}, gw : Nets \cup {"none"}]
  BY DEF Inv, TypeOK
<1>2. CASE /\ Start("netconnect", "none", "discover")
           /\ lease' = [have |-> FALSE, net |-> "none", gw |-> lease.gw]
  <2>1. lease' \in [have : BOOLEAN, net : Nets \cup {"none"}, gw : Nets \cup {"none"}]
        /\ lease'.have = FALSE
    BY <1>1, <1>2
  <2> QED
    BY <1>2, <2>1, FreshHolds DEF NetConnect
<1>3. CASE Start("netconnect", "none", "idle") /\ lease' = lease
  BY <1>1, <1>3, FreshHolds DEF NetConnect
<1> QED
  BY <1>2, <1>3 DEF NetConnect

(* fetch or download begins if there is a lease.                           *)
LEMMA GetHolds == ASSUME Inv, Get PROVE Inv'
<1>1. lease \in [have : BOOLEAN, net : Nets \cup {"none"}, gw : Nets \cup {"none"}]
  BY DEF Inv, TypeOK
<1>2. PICK op \in {"fetch", "download"}, h \in Hosts, at \in {"hop", "idle"} : Start(op, h, at)
  BY DEF Get
<1> QED
  BY <1>1, <1>2, FreshHolds DEF Get

(* A step that neither touches the response nor connects                   *)
Early == {"discover", "offer", "request", "ack", "hop", "hopsend", "arp", "query", "dns", "syn"}
LEMMA EarlyKeeps ==
    ASSUME Inv, pc \in Early, pc' \in Early, UNCHANGED <<resp, res, opened, flaws>>
    PROVE  Reply'
<1>1. pc \notin {"recv", "again", "close", "body", "idle"}
      /\ pc' \notin {"synack", "synackack", "recv", "again", "close", "body"}
  BY DEF Early
<1>2. resp' = <<>> /\ flaws' = {} /\ Len(resp') = 0 /\ res # TRUE
  BY <1>1 DEF Inv, Reply, ReplyOK, EndOK
<1>3. PeerOK'
  BY <1>1, <1>2 DEF PeerOK
<1>4. ReplyOK'
  BY <1>1, <1>2 DEF ReplyOK
<1>5. EndOK'
  BY <1>1, <1>2 DEF EndOK
<1> QED
  BY <1>3, <1>4, <1>5 DEF Reply

(* DHCP goes on: the call's offer is all that changes.                     *)
LEMMA LeaseStepHolds ==
    ASSUME Inv, pc \in {"discover", "offer", "request"}, pc' \in {"offer", "request", "ack"},
           UNCHANGED <<now, lease, arp, conn, resp, res, asked, opened, flaws, calls>>,
           call' = call \/ \E n \in Nets : call' = [call EXCEPT !.offer = n],
           pc' \in {"request", "ack"} => call'.offer \in Nets,
           dups' \in 0 .. MaxDups, acked \subseteq acked', acked' \subseteq Nets, FramesOK'
    PROVE  Inv'
<1> USE DEF Inv
<1>1. /\ call' \in CallType /\ call'.op = call.op /\ call'.host = call.host
      /\ call'.stamp = call.stamp
  BY DEF Shapes, CallType
<1>2. TypeOK'
  <2>1. call'.host \in Hosts \cup {"none"} /\ call'.offer \in Nets \cup {"none"}
    BY <1>1 DEF CallType
  <2> QED
    BY <2>1 DEF TypeOK
<1>3. Shapes'
  BY <1>1 DEF Shapes
<1>4. Stages'
  <2>1. LeaseOK' /\ GetOK'
    BY <1>1 DEF Stages, LeaseOK, GetOK, Getting, Unconnected
  <2>2. HostOK'
    BY <1>1 DEF Stages, HostOK, RightHost
  <2>3. MacOK'
    BY DEF Stages, MacOK, ToNextHop
  <2> QED
    BY <2>1, <2>2, <2>3 DEF Stages
<1>5. Reply'
  BY EarlyKeeps DEF Early
<1> QED
  BY <1>2, <1>3, <1>4, <1>5

(* A DISCOVER is sent.                                                     *)
LEMMA SendDiscoverHolds == ASSUME Inv, SendDiscover PROVE Inv'
<1>1. FramesOK'
  <2> DEFINE A == {{Dhcp("offer", n, TRUE)} : n \in Nets}
  <2>1. \A n \in Nets : FrameOK(Dhcp("offer", n, TRUE))'
    BY DEF FrameOK, Dhcp
  <2>2. \A a \in A : \A m \in a : FrameOK(m)'
    BY <2>1
  <2>3. Send(A) /\ UNCHANGED <<acked, asked, opened>>
    BY DEF SendDiscover, history
  <2> HIDE DEF A
  <2> QED
    BY <2>2, <2>3, FramesGrow DEF Inv
<1>2. dups \in 0 .. MaxDups /\ acked \subseteq Nets
  BY DEF Inv, TypeOK
<1> QED
  BY <1>1, <1>2, LeaseStepHolds DEF SendDiscover, client, history, bounds

(* An offer, or another reply of a DHCP server                             *)
LEMMA GotOfferHolds == ASSUME Inv, GotOffer PROVE Inv'
<1>1. PICK m \in frames : /\ Take(m)
                          /\ IF m.t = "offer"
                             THEN /\ pc' = "request" /\ call' = [call EXCEPT !.offer = m.net]
                                  /\ res' = res
                             ELSE Return(FALSE) /\ call' = call
  BY DEF GotOffer
<1>2. frames' \subseteq frames /\ calls' = calls /\ calls' \in 0 .. MaxCalls /\ dups' \in 0 .. MaxDups
  BY <1>1, TakeKeeps DEF Inv, Take
<1>3. pc = "offer" /\ UNCHANGED <<now, lease, arp, conn, resp, acked, asked, opened, flaws>>
  BY DEF GotOffer, history
<1>4. CASE m.t = "offer"
  <2>1. m.net \in Nets
    BY <1>4 DEF Inv, FramesOK, FrameOK
  <2>2. call'.offer = m.net
    BY <1>1, <1>4 DEF Inv, Shapes, CallType
  <2>3. FramesOK'
    BY <1>2, <1>3, FramesShrink DEF Inv
  <2>4. acked' \subseteq Nets
    BY <1>3 DEF Inv, TypeOK
  <2> QED
    BY <1>1, <1>2, <1>3, <1>4, <2>1, <2>2, <2>3, <2>4, LeaseStepHolds
<1>5. CASE m.t # "offer"
  <2>1. pc' = "idle" /\ res' = FALSE /\ call' = call
    BY <1>1, <1>5 DEF Return
  <2>2. now' \in Nat /\ res' \in BOOLEAN
    BY <1>3, <2>1 DEF Inv, TypeOK
  <2> QED
    BY <1>2, <1>3, <2>1, <2>2, ReturnHolds
<1> QED
  BY <1>4, <1>5

(* A REQUEST is sent; a server that answers with an ACK is committed.      *)
LEMMA SendRequestHolds == ASSUME Inv, SendRequest PROVE Inv'
<1>1. /\ pc = "request" /\ pc' = "ack"
      /\ UNCHANGED <<now, lease, arp, call, conn, resp, res, asked, opened, flaws, calls, dups>>
  BY DEF SendRequest, client, bounds
<1>2. call.offer \in Nets /\ acked \subseteq Nets /\ dups \in 0 .. MaxDups
  BY <1>1 DEF Inv, Stages, LeaseOK, TypeOK
<1>3. FramesOK' /\ acked \subseteq acked' /\ acked' \subseteq Nets
  <2>1. CASE Send({{Dhcp("nak", call.offer, TRUE)}}) /\ acked' = acked
    <3>1. \A m \in {Dhcp("nak", call.offer, TRUE)} : FrameOK(m)'
      BY DEF FrameOK, Dhcp
    <3> QED
      BY <1>1, <1>2, <2>1, <3>1, FramesGrow DEF Inv
  <2>2. CASE /\ Send({{Dhcp("ack", call.offer, b)} : b \in BOOLEAN})
             /\ acked' = acked \cup {call.offer}
    <3> DEFINE A == {{Dhcp("ack", call.offer, b)} : b \in BOOLEAN}
    <3>1. ASSUME NEW m, m.t = "ack", m.net = call.offer PROVE FrameOK(m)'
      BY <2>2, <3>1 DEF FrameOK
    <3>2. ASSUME NEW a \in A, NEW m \in a PROVE FrameOK(m)'
      <4>1. m.t = "ack" /\ m.net = call.offer
        BY DEF Dhcp
      <4> QED
        BY <3>1, <4>1
    <3>3. acked \subseteq acked' /\ acked' \subseteq Nets
      BY <1>2, <2>2
    <3>4. Send(A)
      BY <2>2
    <3> HIDE DEF A
    <3> QED
      BY <1>1, <3>2, <3>3, <3>4, FramesGrow DEF Inv
  <2> QED
    BY <2>1, <2>2 DEF SendRequest
<1> QED
  BY <1>1, <1>2, <1>3, LeaseStepHolds

(* An ACK, or another reply of a DHCP server                               *)
LEMMA GotAckHolds == ASSUME Inv, GotAck PROVE Inv'
<1> USE DEF Inv
<1>1. PICK m \in frames : /\ Take(m)
                          /\ IF m.t = "ack"
                             THEN /\ lease' = [have |-> TRUE, net |-> m.net,
                                               gw |-> IF m.router THEN m.net ELSE call.offer]
                                  /\ Return(TRUE)
                             ELSE Return(FALSE) /\ lease' = lease
  BY DEF GotAck, IsAck
<1>2. frames' \subseteq frames /\ calls' \in 0 .. MaxCalls /\ dups' \in 0 .. MaxDups
  BY <1>1, TakeKeeps
<1>3. pc = "ack" /\ UNCHANGED <<now, arp, call, conn, resp, acked, asked, opened, flaws>>
  BY DEF GotAck, history
<1>4. CASE m.t = "ack"
  <2>1. m.net \in acked /\ m.net \in Nets /\ call.offer \in Nets /\ call.op = "netconnect"
    BY <1>3, <1>4 DEF FramesOK, FrameOK, Stages, LeaseOK, TypeOK
  <2>2. /\ lease'.have = TRUE /\ lease'.net \in acked /\ lease'.net \in Nets /\ lease'.gw \in Nets
        /\ lease' \in [have : BOOLEAN, net : Nets \cup {"none"}, gw : Nets \cup {"none"}]
    <3> DEFINE gw == IF m.router THEN m.net ELSE call.offer
    <3>1. gw \in Nets
      BY <2>1
    <3>2. lease' = [have |-> TRUE, net |-> m.net, gw |-> gw]
      BY <1>1, <1>4
    <3> HIDE DEF gw
    <3> QED
      BY <2>1, <3>1, <3>2
  <2>3. pc' = "idle" /\ res' = TRUE
    BY <1>1, <1>4 DEF Return
  <2>4. TypeOK'
    <3>1. res' \in BOOLEAN
      BY <2>3, Zenon
    <3>2. lease'.net # "none" /\ lease'.gw # "none"
      BY <2>2, NetAssumption
    <3> QED
      BY <1>2, <1>3, <2>2, <2>3, <3>1, <3>2 DEF TypeOK
  <2>5. Shapes' /\ FramesOK'
    BY <1>2, <1>3, FramesShrink DEF Shapes
  <2>6. Stages'
    <3>1. LeaseOK' /\ GetOK'
      BY <1>3, <2>2, <2>3 DEF LeaseOK, GetOK, Getting, Unconnected
    <3>2. HostOK' /\ MacOK'
      BY <1>3, <2>3 DEF Stages, HostOK, RightHost, MacOK, ToNextHop
    <3> QED
      BY <3>1, <3>2 DEF Stages
  <2>7. Reply'
    BY <1>3, <2>1, <2>3 DEF Reply, PeerOK, ReplyOK, EndOK
  <2> QED
    BY <2>4, <2>5, <2>6, <2>7
<1>5. CASE m.t # "ack"
  <2>1. pc' = "idle" /\ res' = FALSE /\ lease' = lease
    BY <1>1, <1>5 DEF Return
  <2>2. now' \in Nat /\ res' \in BOOLEAN
    BY <1>3, <2>1 DEF TypeOK
  <2> QED
    BY <1>2, <1>3, <2>1, <2>2, ReturnHolds
<1> QED
  BY <1>4, <1>5

(* The next hop is an address, and the query or the SYN comes next.        *)
LEMMA NextHopTyped ==
    ASSUME Inv PROVE NextHop \in Addresses /\ AfterHop \in {"query", "syn"}
<1>1. /\ lease.gw \in Nets \cup {"none"} /\ Local \subseteq Hosts
      /\ conn.host \in Hosts \cup {"none"} /\ call.host \in Hosts \cup {"none"}
  BY NetAssumption DEF Inv, TypeOK
<1> QED
  BY <1>1 DEF NextHop, AfterHop, HopTo, Remote, Addresses

(* It is known, from the cache or from a reply.                            *)
LEMMA HopKnown ==
    ASSUME Inv, pc \in {"hop", "arp"}, pc' = AfterHop, conn' = [conn EXCEPT !.mac = NextHop],
           arp' \in [ip : Addresses, mac : Addresses], arp'.mac = arp'.ip,
           UNCHANGED <<now, lease, call, resp, res, acked, asked, opened, flaws>>,
           frames' \subseteq frames, calls' \in 0 .. MaxCalls, dups' \in 0 .. MaxDups
    PROVE  Inv'
<1> USE DEF Inv
<1>1. NextHop \in Addresses /\ AfterHop \in {"query", "syn"}
  BY NextHopTyped
<1>2. /\ conn' \in ConnType /\ conn'.mac = NextHop /\ conn'.host = conn.host
      /\ conn'.port = conn.port /\ conn'.expect = conn.expect
  BY <1>1 DEF Shapes, ConnType
<1>3. TypeOK'
  BY <1>1, <1>2 DEF TypeOK, Addresses
<1>4. Shapes' /\ FramesOK'
  BY <1>2, FramesShrink DEF Shapes
<1>5. LeaseOK' /\ GetOK'
  BY <1>1, <1>2 DEF Stages, LeaseOK, GetOK, Getting, Unconnected
<1>6. HostOK'
  BY <1>1, <1>2 DEF Stages, HostOK, RightHost, Answered, AfterHop
<1>7. MacOK'
  <2>1. pc' = "query" => conn'.mac = lease'.gw
    BY <1>2 DEF NextHop
  <2>2. pc' = "syn" => conn'.mac = HopTo(Remote)'
    BY <1>2 DEF NextHop, HopTo, Remote
  <2> QED
    BY <1>1, <2>1, <2>2 DEF MacOK, ToNextHop
<1>8. Reply'
  BY <1>1, EarlyKeeps DEF Early
<1> QED
  BY <1>3, <1>4, <1>5, <1>6, <1>7, <1>8 DEF Stages

(* ARP goes on: nothing but frames change.                                 *)
LEMMA AskHopHolds ==
    ASSUME Inv, pc \in {"hop", "hopsend"}, pc' \in {"hopsend", "arp"}, FramesOK',
           UNCHANGED <<now, lease, arp, call, conn, resp, res, acked, asked, opened, flaws,
                       calls, dups>>
    PROVE  Inv'
<1> USE DEF Inv
<1>1. TypeOK' /\ Shapes'
  BY DEF TypeOK, Shapes
<1>2. LeaseOK' /\ GetOK'
  BY DEF Stages, LeaseOK, GetOK, Getting, Unconnected
<1>3. HostOK'
  BY DEF Stages, HostOK, RightHost, Answered
<1>4. MacOK'
  BY DEF Stages, MacOK, ToNextHop
<1>5. Reply'
  BY EarlyKeeps DEF Early
<1> QED
  BY <1>1, <1>2, <1>3, <1>4, <1>5 DEF Stages

(* The cache is asked for the next hop.                                    *)
LEMMA HopHolds == ASSUME Inv, Hop PROVE Inv'
<1>1. /\ pc = "hop"
      /\ UNCHANGED <<now, lease, arp, call, resp, res, frames, acked, asked, opened, flaws,
                     calls, dups>>
  BY DEF Hop, history, bounds
<1>2. /\ arp \in [ip : Addresses, mac : Addresses] /\ arp.mac = arp.ip
      /\ calls \in 0 .. MaxCalls /\ dups \in 0 .. MaxDups
  BY DEF Inv, TypeOK, Addresses, Stages, MacOK
<1>3. CASE InCache
  <2>1. pc' = AfterHop /\ conn' = [conn EXCEPT !.mac = NextHop]
    BY <1>2, <1>3 DEF Hop, InCache
  <2> QED
    BY <1>1, <1>2, <2>1, HopKnown
<1>4. CASE ~InCache
  <2>1. pc' = "hopsend" /\ conn' = conn
    BY <1>4 DEF Hop
  <2>2. FramesOK'
    BY <1>1, FramesShrink DEF Inv
  <2> QED
    BY <1>1, <2>1, <2>2, AskHopHolds
<1> QED
  BY <1>3, <1>4

(* An ARP request is sent.                                                 *)
LEMMA SendArpHolds == ASSUME Inv, SendArp PROVE Inv'
<1>1. /\ pc = "hopsend" /\ pc' = "arp" /\ Send({{ArpReply(NextHop)}})
      /\ UNCHANGED <<now, lease, arp, call, conn, resp, res, acked, asked, opened, flaws,
                     calls, dups>>
  BY DEF SendArp, client, history, bounds
<1>2. \A a \in {{ArpReply(NextHop)}} : \A m \in a : FrameOK(m)'
  BY DEF FrameOK, ArpReply
<1>3. FramesOK'
  BY <1>1, <1>2, FramesGrow DEF Inv
<1> QED
  BY <1>1, <1>3, AskHopHolds

(* An ARP reply of the next hop                                            *)
LEMMA GotArpHolds == ASSUME Inv, GotArp PROVE Inv'
<1>1. PICK m \in frames : /\ m.t = "arp" /\ m.from = NextHop /\ Take(m)
                          /\ arp' = [ip |-> NextHop, mac |-> m.mac]
                          /\ conn' = [conn EXCEPT !.mac = m.mac]
  BY DEF GotArp
<1>2. /\ pc = "arp" /\ pc' = AfterHop
      /\ UNCHANGED <<now, lease, call, resp, res, acked, asked, opened, flaws>>
  BY DEF GotArp, history
<1>3. m.mac = NextHop
  BY <1>1 DEF Inv, FramesOK, FrameOK
<1>4. NextHop \in Addresses
  BY NextHopTyped
<1>5. frames' \subseteq frames /\ calls' \in 0 .. MaxCalls /\ dups' \in 0 .. MaxDups
  BY <1>1, TakeKeeps DEF Inv
<1>6. arp' \in [ip : Addresses, mac : Addresses] /\ arp'.mac = arp'.ip
  BY <1>1, <1>3, <1>4
<1> QED
  BY <1>1, <1>2, <1>3, <1>5, <1>6, HopKnown

(* A query is sent, under a number taken from the tick.                    *)
LEMMA SendQueryHolds == ASSUME Inv, SendQuery PROVE Inv'
<1> USE DEF Inv
<1> DEFINE q == [stamp |-> Stamp, host |-> call.host]
<1>1. /\ pc = "query" /\ pc' = "dns" /\ call' = [call EXCEPT !.stamp = Stamp]
      /\ asked' = asked \cup {q}
      /\ UNCHANGED <<now, lease, arp, conn, resp, res, acked, opened, flaws, calls, dups>>
  BY DEF SendQuery, bounds
<1>2. Stamp \in Nat /\ Stamp # 0 /\ call.host \in Hosts
  BY <1>1 DEF Stamp, TypeOK, Stages, GetOK, Getting
<1>3. /\ call' \in CallType /\ call'.op = call.op /\ call'.host = call.host
      /\ call'.offer = call.offer
  BY <1>1, <1>2 DEF Shapes, CallType
<1>4. FramesOK'
  <2> DEFINE A == {{DnsReply(Stamp, call.host, b)} : b \in BOOLEAN}
  <2>1. ASSUME NEW m, m.t = "dns", m.stamp = Stamp, m.answer \in {call.host, "none"}
        PROVE  FrameOK(m)'
    BY <1>1, <1>2, <2>1 DEF FrameOK
  <2>2. ASSUME NEW a \in A, NEW m \in a PROVE FrameOK(m)'
    <3>1. m.t = "dns" /\ m.stamp = Stamp /\ m.answer \in {call.host, "none"}
      BY DEF DnsReply
    <3> QED
      BY <2>1, <3>1
  <2>3. Send(A)
    BY DEF SendQuery
  <2> HIDE DEF A
  <2> QED
    BY <1>1, <2>2, <2>3, FramesGrow
<1>5. TypeOK' /\ Shapes'
  BY <1>1, <1>3 DEF TypeOK, Shapes
<1>6. LeaseOK' /\ GetOK'
  BY <1>1, <1>3 DEF Stages, LeaseOK, GetOK, Getting, Unconnected
<1>7. HostOK'
  BY <1>1 DEF Stages, GetOK, Unconnected, HostOK, RightHost
<1>8. MacOK'
  BY <1>1 DEF Stages, MacOK, ToNextHop
<1>9. Reply'
  BY <1>1, EarlyKeeps DEF Early
<1> QED
  BY <1>4, <1>5, <1>6, <1>7, <1>8, <1>9 DEF Stages

(* A reply with the number of the query                                    *)
LEMMA GotDnsHolds == ASSUME Inv, GotDns PROVE Inv'
<1> USE DEF Inv
<1>1. PICK m \in frames : /\ m.t = "dns" /\ m.stamp = call.stamp /\ Take(m)
                          /\ IF m.answer # "none"
                             THEN /\ pc' = "hop" /\ conn' = [conn EXCEPT !.host = m.answer]
                                  /\ res' = res
                             ELSE Return(FALSE) /\ conn' = conn
  BY DEF GotDns, IsMyDnsReply
<1>2. frames' \subseteq frames /\ calls' \in 0 .. MaxCalls /\ dups' \in 0 .. MaxDups
  BY <1>1, TakeKeeps
<1>3. pc = "dns" /\ UNCHANGED <<now, lease, arp, call, resp, acked, asked, opened, flaws>>
  BY DEF GotDns, history
<1>4. CASE m.answer # "none"
  <2>1. /\ m.answer \in Hosts \cup {"none"}
        /\ [stamp |-> call.stamp, host |-> m.answer] \in asked
    BY <1>1, <1>4 DEF FramesOK, FrameOK
  <2>2. pc' = "hop" /\ conn' = [conn EXCEPT !.host = m.answer] /\ res' = res
    BY <1>1, <1>4
  <2>3. /\ conn' \in ConnType /\ conn'.host = m.answer /\ conn'.port = conn.port
        /\ conn'.expect = conn.expect
    BY <2>1, <2>2 DEF Shapes, ConnType
  <2>4. TypeOK'
    BY <1>2, <1>3, <2>1, <2>2, <2>3 DEF TypeOK
  <2>5. Shapes' /\ FramesOK'
    BY <1>2, <1>3, <2>3, FramesShrink DEF Shapes
  <2>6. LeaseOK' /\ GetOK'
    BY <1>3, <2>2, <2>3 DEF Stages, LeaseOK, GetOK, Getting, Unconnected
  <2>7. HostOK'
    BY <1>3, <2>1, <2>2, <2>3 DEF HostOK, RightHost, Answered
  <2>8. MacOK'
    BY <1>3, <2>2 DEF Stages, MacOK, ToNextHop
  <2>9. Reply'
    BY <1>3, <2>2, EarlyKeeps DEF Early
  <2> QED
    BY <2>4, <2>5, <2>6, <2>7, <2>8, <2>9 DEF Stages
<1>5. CASE m.answer = "none"
  <2>1. pc' = "idle" /\ res' = FALSE /\ conn' = conn
    BY <1>1, <1>5 DEF Return
  <2>2. now' \in Nat /\ res' \in BOOLEAN
    BY <1>3, <2>1 DEF TypeOK
  <2> QED
    BY <1>2, <1>3, <2>1, <2>2, ReturnHolds
<1> QED
  BY <1>4, <1>5

(* A SYN opens a new connection, of which no segment is on the way yet.    *)
LEMMA SendSynHolds == ASSUME Inv, SendSyn PROVE Inv'
<1> USE DEF Inv
<1> DEFINE k == Len(opened) + 1
           new == [port |-> Stamp, host |-> Remote, length |-> 0]
<1>1. /\ pc = "syn" /\ pc' = "synack"
      /\ conn' = [conn EXCEPT !.port = Stamp, !.host = Remote]
      /\ opened' = Append(opened, new)
      /\ Send({{SynAck(k, Stamp, Remote)}})
      /\ UNCHANGED <<now, lease, arp, call, resp, res, acked, asked, flaws, calls, dups>>
  BY DEF SendSyn, bounds
<1>2. Stamp \in Nat /\ Stamp # 0 /\ Remote \in Hosts \cup {"none"}
  BY DEF Stamp, Remote, TypeOK
<1>3. /\ conn' \in ConnType /\ conn'.port = Stamp /\ conn'.host = Remote
      /\ conn'.mac = conn.mac /\ conn'.expect = conn.expect
  BY <1>1, <1>2 DEF Shapes, ConnType
<1>4. new \in OpenType
  BY <1>2 DEF OpenType
<1>5. /\ opened \in Seq(OpenType) /\ Len(opened) \in Nat
      /\ opened' \in Seq(OpenType) /\ Len(opened') = k
      /\ \A i \in 1 .. Len(opened) : opened'[i] = opened[i]
      /\ opened'[k].port = Stamp /\ opened'[k].host = Remote
  <2>1. opened \in Seq(OpenType)
    BY DEF Shapes
  <2>2. opened' \in Seq(OpenType) /\ Len(opened') = k /\ opened'[k] = new
        /\ \A i \in 1 .. Len(opened) : opened'[i] = opened[i]
    <3> HIDE DEF new
    <3> QED
      BY <1>1, <1>4, <2>1
  <2> QED
    BY <2>1, <2>2
<1>6. TypeOK'
  BY <1>1, <1>2, <1>3, <1>5 DEF TypeOK
<1>7. Shapes'
  BY <1>1, <1>3, <1>5 DEF Shapes
<1>8. \A m \in frames : FrameOK(m)'
  BY <1>1, <1>5, FrameKept DEF FramesOK
<1>9. ASSUME NEW m \in frames', m \notin frames
      PROVE  /\ m.t = "synack" /\ m.port = Stamp /\ m.from = Remote
             /\ m.seq \in Positions /\ m.seq.conn = k
  <2>1. m = SynAck(k, Stamp, Remote)
    BY <1>1, <1>9 DEF Send
  <2>2. At(k, 0) \in Positions /\ At(k, 0).conn = k
    BY <1>5 DEF At, Positions
  <2> QED
    BY <2>1, <2>2 DEF SynAck
<1>10. FramesOK'
  <2> SUFFICES ASSUME NEW m \in frames', m \notin frames PROVE FrameOK(m)'
    BY <1>8 DEF FramesOK
  <2>1. OfConnection(m)'
    BY <1>5, <1>9 DEF OfConnection
  <2> QED
    BY <1>9, <2>1 DEF FrameOK
<1>11. LeaseOK' /\ GetOK'
  BY <1>1 DEF Stages, LeaseOK, GetOK, Getting, Unconnected
<1>12. HostOK'
  <2>1. call.op = "fetch" => Answered
    BY <1>1 DEF Stages, HostOK
  <2> QED
    BY <1>1, <1>3, <2>1 DEF HostOK, RightHost, Remote, Answered
<1>13. MacOK'
  BY <1>1, <1>3 DEF Stages, MacOK, ToNextHop, HopTo
<1>14. PeerOK'
  <2>1. \A m \in frames : m.t = "seg" => m.seq.conn # k
    <3>1. ASSUME NEW m \in frames, m.t = "seg" PROVE m.seq.conn \in 1 .. Len(opened)
      BY <3>1 DEF FramesOK, FrameOK, OfConnection
    <3> QED
      BY <1>5, <3>1
  <2>2. \A m \in frames' : m.t = "seg" => m.seq.conn # Len(opened')
    BY <1>5, <1>9, <2>1
  <2>3. Len(resp') = 0
    BY <1>1 DEF Reply, ReplyOK
  <2> QED
    BY <1>1, <2>2, <2>3 DEF PeerOK
<1>15. ReplyOK' /\ EndOK'
  <2>1. resp' = <<>> /\ flaws' = {} /\ Len(resp') = 0 /\ res # TRUE
    BY <1>1 DEF Reply, ReplyOK, EndOK
  <2>2. ReplyOK'
    BY <1>1, <2>1 DEF ReplyOK
  <2>3. EndOK'
    BY <1>1, <2>1 DEF EndOK
  <2> QED
    BY <2>2, <2>3
<1> QED
  BY <1>6, <1>7, <1>10, <1>11, <1>12, <1>13, <1>14, <1>15 DEF Stages, Reply

(* A SYN-ACK from the peer, of this connection or an earlier one           *)
LEMMA GotSynAckHolds == ASSUME Inv, GotSynAck PROVE Inv'
<1> USE DEF Inv
<1>1. PICK m \in frames : /\ m.t = "synack" /\ Take(m)
                          /\ conn' = [conn EXCEPT !.expect = At(m.seq.conn, 1)]
  BY DEF GotSynAck
<1>2. /\ pc = "synack" /\ pc' = "synackack"
      /\ UNCHANGED <<now, lease, arp, call, resp, res, acked, asked, opened, flaws>>
  BY DEF GotSynAck, history
<1>3. frames' \subseteq frames /\ calls' \in 0 .. MaxCalls /\ dups' \in 0 .. MaxDups
  BY <1>1, TakeKeeps
<1>4. m.seq.conn \in 1 .. Len(opened) /\ Len(opened) \in Nat
  <2>1. OfConnection(m)
    BY <1>1 DEF FramesOK, FrameOK
  <2>2. opened \in Seq(OpenType)
    BY DEF Shapes
  <2> QED
    BY <2>1, <2>2 DEF OfConnection
<1>5. /\ At(m.seq.conn, 1) \in Positions /\ At(m.seq.conn, 1).conn = m.seq.conn
      /\ At(m.seq.conn, 1).at = 1
  BY <1>4 DEF At, Positions
<1>6. /\ conn' \in ConnType /\ conn'.port = conn.port /\ conn'.host = conn.host
      /\ conn'.mac = conn.mac /\ conn'.expect = At(m.seq.conn, 1)
  BY <1>1, <1>5 DEF Shapes, ConnType
<1>7. TypeOK'
  BY <1>2, <1>3, <1>4, <1>5, <1>6 DEF TypeOK
<1>8. Shapes' /\ FramesOK'
  BY <1>2, <1>3, <1>6, FramesShrink DEF Shapes
<1>9. LeaseOK' /\ GetOK'
  BY <1>2 DEF Stages, LeaseOK, GetOK, Getting, Unconnected
<1>10. HostOK' /\ MacOK'
  BY <1>2, <1>6 DEF Stages, HostOK, RightHost, MacOK, ToNextHop, HopTo
<1>11. resp' = <<>> /\ flaws' = {} /\ Len(resp') = 0 /\ res # TRUE
  BY <1>2 DEF Reply, ReplyOK, EndOK
<1>12. PeerOK'
  BY <1>2, <1>3, <1>4, <1>5, <1>6, <1>11 DEF Reply, PeerOK
<1>13. ReplyOK' /\ EndOK'
  <2>1. ReplyOK'
    BY <1>2, <1>11 DEF ReplyOK
  <2>2. EndOK'
    BY <1>2, <1>11 DEF EndOK
  <2> QED
    BY <2>1, <2>2
<1> QED
  BY <1>7, <1>8, <1>9, <1>10, <1>12, <1>13 DEF Stages, Reply

(* A server's reply: segments of its connection, whose FIN ends it.        *)
LEMMA StreamEnds ==
    ASSUME NEW k \in Nat, NEW r \in Replies, NEW m \in Stream(k, r)
    PROVE  /\ m.t = "seg" /\ m.port = opened[k].port /\ m.from = opened[k].host
           /\ m.seq \in Positions /\ m.seq.conn = k /\ m.len \in Nat /\ m.fin \in BOOLEAN
           /\ m.fin => m.seq.at + m.len - 1 = r.cuts[Len(r.cuts)] - 1
<1> DEFINE n == Len(r.cuts)
<1>1. /\ r.cuts \in Seq(Nat) /\ n \in Nat /\ n > 1 /\ r.finLast \in BOOLEAN
      /\ \A i \in 1 .. n - 1 : r.cuts[i] < r.cuts[i + 1]
      /\ \A i \in 1 .. n : r.cuts[i] \in Nat
  <2>1. /\ r.cuts \in Seq(Nat) /\ Len(r.cuts) > 1
        /\ \A i \in 1 .. Len(r.cuts) - 1 : r.cuts[i] < r.cuts[i + 1]
    BY NetAssumption
  <2>2. r.finLast \in BOOLEAN
    BY NetAssumption
  <2> QED
    BY <2>1, <2>2
<1>2. PICK from \in Nat, to \in Nat, fin \in BOOLEAN :
          /\ m = Segment(k, from, to, fin) /\ from <= to
          /\ fin => to = r.cuts[n]
  <2>1. CASE \E i \in 1 .. n - 1 :
               m = Segment(k, r.cuts[i], r.cuts[i + 1], r.finLast /\ i = n - 1)
    <3>1. PICK i \in 1 .. n - 1 :
               m = Segment(k, r.cuts[i], r.cuts[i + 1], r.finLast /\ i = n - 1)
      BY <2>1
    <3>2. /\ r.cuts[i] \in Nat /\ r.cuts[i + 1] \in Nat /\ r.cuts[i] <= r.cuts[i + 1]
          /\ i = n - 1 => r.cuts[i + 1] = r.cuts[n]
      BY <1>1
    <3>3. (r.finLast /\ i = n - 1) \in BOOLEAN
      BY Zenon
    <3> QED
      BY <3>1, <3>2, <3>3
  <2>2. CASE m = Segment(k, r.cuts[n], r.cuts[n], TRUE)
    <3>1. r.cuts[n] \in Nat /\ r.cuts[n] <= r.cuts[n]
      BY <1>1
    <3>2. TRUE \in BOOLEAN
      BY Zenon
    <3> QED
      BY <2>2, <3>1, <3>2, Zenon
  <2>3. \/ \E i \in 1 .. n - 1 :
               m = Segment(k, r.cuts[i], r.cuts[i + 1], r.finLast /\ i = n - 1)
        \/ m = Segment(k, r.cuts[n], r.cuts[n], TRUE)
    BY Zenon DEF Stream
  <2> QED
    BY <2>1, <2>2, <2>3
<1>3. At(k, from) \in Positions /\ At(k, from).conn = k /\ At(k, from).at = from
  BY DEF At, Positions
<1>4. to - from \in Nat
  BY <1>2
<1>5. /\ m.t = "seg" /\ m.port = opened[k].port /\ m.from = opened[k].host
      /\ m.seq = At(k, from) /\ m.len = to - from /\ m.fin = fin
  BY <1>2 DEF Segment
<1>6. m.fin \in BOOLEAN
  BY <1>2, <1>5, Zenon
<1>7. m.fin => to = r.cuts[n]
  BY <1>2, <1>5, Zenon
<1>8. m.fin => m.seq.at + m.len - 1 = r.cuts[n] - 1
  BY <1>1, <1>3, <1>5, <1>7
<1>9. m.seq \in Positions /\ m.seq.conn = k /\ m.len \in Nat
  BY <1>3, <1>4, <1>5, Zenon
<1> QED
  BY <1>5, <1>6, <1>8, <1>9, Zenon

(* The request is sent; a server that knows of the connection replies.     *)
LEMMA SendRequestLineHolds == ASSUME Inv, SendRequestLine PROVE Inv'
<1> USE DEF Inv
<1> DEFINE k == Len(opened)
<1>1. /\ pc = "synackack" /\ pc' = "recv"
      /\ UNCHANGED <<now, lease, arp, call, conn, resp, res, acked, asked, flaws, calls, dups>>
  BY DEF SendRequestLine, client, bounds
<1>2. /\ opened \in Seq(OpenType) /\ k \in Nat /\ conn.expect.conn \in 1 .. k
      /\ conn.expect.at = 1
  BY <1>1 DEF Shapes, Reply, PeerOK
<1>3. resp = <<>> /\ Len(resp) = 0 /\ flaws = {} /\ res # TRUE
  BY <1>1 DEF Reply, ReplyOK, EndOK
<1>4. /\ opened' \in Seq(OpenType) /\ Len(opened') = k /\ FramesOK'
  <2>1. CASE opened' = opened /\ frames' = frames
    BY <1>1, <1>2, <2>1, FramesShrink
  <2>2. CASE ~(opened' = opened /\ frames' = frames)
    <3>1. PICK r \in Replies : /\ opened' = [opened EXCEPT ![k].length = r.cuts[Len(r.cuts)] - 1]
                               /\ frames' = frames \cup Stream(k, r)
      BY <2>2 DEF SendRequestLine
    <3>2. k \in 1 .. Len(opened) /\ opened[k] \in OpenType
      BY <1>2
    <3> DEFINE end == r.cuts[Len(r.cuts)] - 1
    <3>3. end \in Nat
      <4>1. /\ r.cuts \in Seq(Nat) /\ Len(r.cuts) > 1
            /\ \A i \in 1 .. Len(r.cuts) - 1 : r.cuts[i] < r.cuts[i + 1]
        BY NetAssumption
      <4>2. Len(r.cuts) - 1 \in 1 .. Len(r.cuts) - 1 /\ Len(r.cuts) \in 1 .. Len(r.cuts)
        BY <4>1
      <4>3. /\ r.cuts[Len(r.cuts) - 1] < r.cuts[Len(r.cuts)]
            /\ r.cuts[Len(r.cuts) - 1] \in Nat /\ r.cuts[Len(r.cuts)] \in Nat
        BY <4>1, <4>2
      <4> QED
        BY <4>3
    <3> HIDE DEF end
    <3> DEFINE new == [opened[k] EXCEPT !.length = end]
    <3>4. new \in OpenType /\ new.length = end /\ new.port = opened[k].port
          /\ new.host = opened[k].host
      BY <3>2, <3>3 DEF OpenType
    <3>5. opened' = [opened EXCEPT ![k] = new]
      BY <1>2, <3>1, <3>2 DEF end
    <3> HIDE DEF new
    <3>6. /\ opened' \in Seq(OpenType) /\ Len(opened') = Len(opened) /\ opened'[k] = new
          /\ \A i \in 1 .. Len(opened) : i # k => opened'[i] = opened[i]
      BY <1>2, <3>2, <3>4, <3>5
    <3>7. ASSUME NEW m \in frames PROVE FrameOK(m)'
      <4>1. m.t = "seg" => m.seq.conn # k
        BY <1>1 DEF Reply, PeerOK
      <4> QED
        BY <1>1, <1>2, <3>4, <3>6, <4>1, FrameKept DEF FramesOK
    <3>8. ASSUME NEW m \in Stream(k, r) PROVE FrameOK(m)'
      <4>1. /\ m.t = "seg" /\ m.port = opened[k].port /\ m.from = opened[k].host
            /\ m.seq \in Positions /\ m.seq.conn = k /\ m.len \in Nat /\ m.fin \in BOOLEAN
            /\ m.fin => m.seq.at + m.len - 1 = end
        BY <1>2, <3>8, StreamEnds DEF end
      <4>2. OfConnection(m)'
        BY <1>2, <3>2, <3>4, <3>6, <4>1 DEF OfConnection
      <4> QED
        BY <3>4, <3>6, <4>1, <4>2 DEF FrameOK
    <3> QED
      BY <3>1, <3>6, <3>7, <3>8 DEF FramesOK
  <2> QED
    BY <2>1, <2>2
<1>5. TypeOK'
  BY <1>1, <1>4 DEF TypeOK
<1>6. Shapes'
  BY <1>1, <1>4 DEF Shapes
<1>7. LeaseOK' /\ GetOK'
  BY <1>1 DEF Stages, LeaseOK, GetOK, Getting, Unconnected
<1>8. HostOK' /\ MacOK'
  BY <1>1 DEF Stages, HostOK, RightHost, MacOK, ToNextHop, HopTo
<1>9. PeerOK'
  BY <1>1, <1>2, <1>3, <1>4 DEF PeerOK
<1>10. ReplyOK'
  BY <1>1, <1>2, <1>3 DEF ReplyOK
<1>11. EndOK'
  BY <1>1, <1>3 DEF EndOK
<1> QED
  BY <1>4, <1>5, <1>6, <1>7, <1>8, <1>9, <1>10, <1>11 DEF Stages, Reply

(* The request could not be sent: there is no response.                    *)
LEMMA RequestFailsHolds == ASSUME Inv, RequestFails PROVE Inv'
<1> USE DEF Inv
<1>1. /\ pc = "synackack" /\ pc' = "close"
      /\ UNCHANGED <<now, lease, arp, call, conn, resp, res, frames, acked, asked, opened,
                     flaws, calls, dups>>
  BY DEF RequestFails, client, history, bounds
<1>2. resp = <<>> /\ Len(resp) = 0 /\ flaws = {} /\ res # TRUE
  BY <1>1 DEF Reply, ReplyOK, EndOK
<1>3. TypeOK' /\ Shapes' /\ FramesOK'
  BY <1>1, FramesShrink DEF TypeOK, Shapes
<1>4. LeaseOK' /\ GetOK'
  BY <1>1 DEF Stages, LeaseOK, GetOK, Getting, Unconnected
<1>5. HostOK' /\ MacOK'
  BY <1>1 DEF Stages, HostOK, RightHost, MacOK, ToNextHop, HopTo
<1>6. PeerOK'
  BY <1>1 DEF Reply, PeerOK
<1>7. ReplyOK'
  BY <1>1, <1>2 DEF ReplyOK
<1>8. EndOK'
  BY <1>1, <1>2 DEF EndOK
<1> QED
  BY <1>3, <1>4, <1>5, <1>6, <1>7, <1>8 DEF Stages, Reply

(* A segment that tcp_wait_segment takes is the next of its connection.    *)
LEMMA NextSegment ==
    ASSUME Inv, NEW m \in frames, IsNext(m)
    PROVE  /\ m.seq = conn.expect /\ m.seq.conn \in 1 .. Len(opened) /\ m.seq.at \in Nat
           /\ opened[m.seq.conn].port = conn.port /\ opened[m.seq.conn].host = conn.host
           /\ m.len \in Nat /\ m.fin \in BOOLEAN
           /\ m.fin => m.seq.at + m.len - 1 = opened[m.seq.conn].length
<1>1. m.t = "seg" /\ m.from = conn.host /\ m.port = conn.port /\ m.seq = conn.expect
  BY DEF IsNext, FromPeer
<1>2. /\ OfConnection(m) /\ m.len \in Nat /\ m.fin \in BOOLEAN
      /\ m.fin => m.seq.at + m.len - 1 = opened[m.seq.conn].length
  BY <1>1 DEF Inv, FramesOK, FrameOK
<1> QED
  BY <1>1, <1>2 DEF OfConnection, Positions

(* The sequence number that is expected next moves on.                     *)
LEMMA AdvancedKeeps ==
    ASSUME Inv, NEW n \in Nat, NEW fin \in BOOLEAN, conn' = Advanced(n, fin)
    PROVE  /\ conn' \in ConnType /\ conn'.port = conn.port /\ conn'.host = conn.host
           /\ conn'.mac = conn.mac /\ conn'.expect.conn = conn.expect.conn
           /\ conn'.expect.at = conn.expect.at + n + (IF fin THEN 1 ELSE 0)
           /\ conn'.expect.at \in Nat
<1> DEFINE at == conn.expect.at + n + (IF fin THEN 1 ELSE 0)
<1>1. conn \in ConnType /\ conn.expect \in Positions /\ conn.expect.at \in Nat
  BY DEF Inv, Shapes, ConnType, Positions
<1>2. at \in Nat
  BY <1>1
<1>3. conn' = [conn EXCEPT !.expect = [conn.expect EXCEPT !.at = at]]
  BY <1>1 DEF Advanced, ConnType
<1> HIDE DEF at
<1> DEFINE e == [conn.expect EXCEPT !.at = at]
<1>4. e \in Positions /\ e.at = at /\ e.conn = conn.expect.conn
  BY <1>1, <1>2 DEF Positions
<1> HIDE DEF e
<1>5. /\ conn' \in ConnType /\ conn'.expect = e /\ conn'.port = conn.port
      /\ conn'.host = conn.host /\ conn'.mac = conn.mac
  BY <1>1, <1>3, <1>4 DEF ConnType, e
<1> QED
  BY <1>2, <1>4, <1>5 DEF at

(* A segment is appended to the response, or skipped if it does not fit.   *)
LEMMA ReceiveHolds == ASSUME Inv, Receive PROVE Inv'
<1> USE DEF Inv
<1>1. PICK m \in frames : /\ IsNext(m) /\ Take(m) /\ conn' = Advanced(m.len, m.fin)
                          /\ IF Fits(m)
                             THEN resp' = resp \o Bytes(m) /\ flaws' = flaws
                             ELSE resp' = resp /\ flaws' = flaws \cup {"skipped"}
                          /\ pc' = IF m.fin THEN "close" ELSE "recv"
  BY DEF Receive
<1>2. pc = "recv" /\ UNCHANGED <<now, lease, arp, call, res, acked, asked, opened>>
  BY DEF Receive
<1>3. frames' \subseteq frames /\ calls' \in 0 .. MaxCalls /\ dups' \in 0 .. MaxDups
  BY <1>1, TakeKeeps
<1>4. /\ m.seq = conn.expect /\ m.seq.conn \in 1 .. Len(opened) /\ m.seq.at \in Nat
      /\ opened[m.seq.conn].port = conn.port /\ opened[m.seq.conn].host = conn.host
      /\ m.len \in Nat /\ m.fin \in BOOLEAN
      /\ m.fin => m.seq.at + m.len - 1 = opened[m.seq.conn].length
  BY <1>1, NextSegment
<1>5. /\ conn' \in ConnType /\ conn'.port = conn.port /\ conn'.host = conn.host
      /\ conn'.mac = conn.mac /\ conn'.expect.conn = conn.expect.conn
      /\ conn'.expect.at = conn.expect.at + m.len + (IF m.fin THEN 1 ELSE 0)
      /\ conn'.expect.at \in Nat
  BY <1>1, <1>4, AdvancedKeeps
<1>6. pc' \in {"close", "recv"} /\ (pc' = "recv" => m.fin = FALSE) /\ (pc' = "close" => m.fin = TRUE)
  BY <1>1, <1>4
<1>7. /\ resp \in Seq(Positions) /\ Len(resp) \in Nat /\ Len(resp) <= RespMax /\ res # TRUE
      /\ "cut" \notin flaws
      /\ "skipped" \notin flaws =>
            conn.expect.at = Len(resp) + 1 /\ \A i \in 1 .. Len(resp) : resp[i].at = i
      /\ \A i \in 1 .. Len(resp) :
            /\ resp[i].conn \in 1 .. Len(opened)
            /\ opened[resp[i].conn].port = conn.port /\ opened[resp[i].conn].host = conn.host
  <2>1. resp \in Seq(Positions) /\ Len(resp) \in Nat /\ Len(resp) <= RespMax
    BY DEF Shapes, TypeOK
  <2>2. res # TRUE /\ "cut" \notin flaws
    BY <1>2 DEF Reply, EndOK
  <2>3. "skipped" \notin flaws =>
            conn.expect.at = Len(resp) + 1 /\ \A i \in 1 .. Len(resp) : resp[i].at = i
    BY <1>2 DEF Reply, ReplyOK
  <2>4. \A i \in 1 .. Len(resp) :
            /\ resp[i].conn \in 1 .. Len(opened)
            /\ opened[resp[i].conn].port = conn.port /\ opened[resp[i].conn].host = conn.host
    BY DEF Reply, PeerOK
  <2> QED
    BY <2>1, <2>2, <2>3, <2>4
<1>8. /\ resp' \in Seq(Positions) /\ Len(resp') <= RespMax
      /\ flaws' \in {flaws, flaws \cup {"skipped"}}
      /\ \A i \in 1 .. Len(resp') :
            /\ resp'[i].conn \in 1 .. Len(opened)
            /\ opened[resp'[i].conn].port = conn.port /\ opened[resp'[i].conn].host = conn.host
      /\ "skipped" \notin flaws' => /\ Len(resp') = Len(resp) + m.len
                                    /\ \A i \in 1 .. Len(resp') : resp'[i].at = i
  <2>1. CASE ~Fits(m)
    BY <1>1, <1>7, <2>1
  <2>2. CASE Fits(m)
    <3>1. resp' = resp \o Bytes(m) /\ flaws' = flaws
      BY <1>1, <2>2
    <3>2. \A i \in 1 .. m.len : /\ Bytes(m)[i] \in Positions /\ Bytes(m)[i].conn = m.seq.conn
                                /\ Bytes(m)[i].at = m.seq.at + i - 1
      BY <1>4 DEF Bytes, At, Positions
    <3>3. Bytes(m) \in Seq(Positions) /\ Len(Bytes(m)) = m.len
      <4>1. Bytes(m) \in [1 .. m.len -> Positions]
        BY <3>2 DEF Bytes
      <4> QED
        BY <1>4, <4>1
    <3>4. /\ resp' \in Seq(Positions) /\ Len(resp') = Len(resp) + m.len
          /\ \A i \in 1 .. Len(resp) : resp'[i] = resp[i]
          /\ \A i \in Len(resp) + 1 .. Len(resp) + m.len : resp'[i] = Bytes(m)[i - Len(resp)]
      <4> DEFINE b == Bytes(m)
      <4>1. b \in Seq(Positions) /\ Len(b) = m.len /\ resp \in Seq(Positions)
        BY <1>7, <3>3
      <4> HIDE DEF b
      <4>2. /\ resp \o b \in Seq(Positions) /\ Len(resp \o b) = Len(resp) + Len(b)
            /\ \A i \in 1 .. Len(resp) + Len(b) :
                  (resp \o b)[i] = IF i <= Len(resp) THEN resp[i] ELSE b[i - Len(resp)]
        BY <4>1, ConcatProperties
      <4>3. /\ resp' = resp \o b /\ Len(resp) \in Nat
        BY <1>7, <3>1 DEF b
      <4>4. \A i \in 1 .. Len(resp) : resp'[i] = resp[i]
        BY <1>4, <4>1, <4>2, <4>3
      <4>5. \A i \in Len(resp) + 1 .. Len(resp) + m.len : resp'[i] = b[i - Len(resp)]
        BY <1>4, <4>1, <4>2, <4>3
      <4> QED
        BY <4>1, <4>2, <4>3, <4>4, <4>5 DEF b
    <3>5. \A i \in Len(resp) + 1 .. Len(resp) + m.len :
              /\ resp'[i].conn = m.seq.conn /\ resp'[i].at = m.seq.at + i - Len(resp) - 1
      <4> TAKE i \in Len(resp) + 1 .. Len(resp) + m.len
      <4>1. i - Len(resp) \in 1 .. m.len
        BY <1>4, <1>7
      <4>2. /\ Bytes(m)[i - Len(resp)].conn = m.seq.conn
            /\ Bytes(m)[i - Len(resp)].at = m.seq.at + (i - Len(resp)) - 1
        BY <3>2, <4>1
      <4> QED
        BY <1>4, <1>7, <3>4, <4>1, <4>2
    <3>6. Len(resp') <= RespMax
      BY <2>2, <3>4 DEF Fits
    <3>7. \A i \in 1 .. Len(resp') : i \in 1 .. Len(resp) \/ i \in Len(resp) + 1 .. Len(resp) + m.len
      BY <1>4, <1>7, <3>4
    <3>8. ASSUME "skipped" \notin flaws', NEW i \in 1 .. Len(resp') PROVE resp'[i].at = i
      <4>1. m.seq.at = Len(resp) + 1 /\ \A j \in 1 .. Len(resp) : resp[j].at = j
        BY <1>4, <1>7, <3>1, <3>8
      <4>2. CASE i \in 1 .. Len(resp)
        BY <3>4, <4>1, <4>2
      <4>3. CASE i \in Len(resp) + 1 .. Len(resp) + m.len
        BY <1>7, <3>5, <4>1, <4>3
      <4> QED
        BY <3>7, <4>2, <4>3
    <3>9. \A i \in 1 .. Len(resp') :
            /\ resp'[i].conn \in 1 .. Len(opened)
            /\ opened[resp'[i].conn].port = conn.port /\ opened[resp'[i].conn].host = conn.host
      BY <1>4, <1>7, <3>4, <3>5, <3>7
    <3> QED
      BY <3>1, <3>4, <3>6, <3>8, <3>9
  <2> QED
    BY <2>1, <2>2
<1>9. TypeOK'
  <2>1. flaws' \subseteq {"cut", "skipped"} /\ Len(resp') <= RespMax
    BY <1>8 DEF TypeOK
  <2>2. /\ conn'.port \in Nat /\ conn'.host \in Hosts \cup {"none"}
        /\ conn'.expect.conn \in 0 .. Len(opened) /\ conn'.expect.at \in Nat
    BY <1>5 DEF TypeOK
  <2> QED
    BY <1>2, <1>3, <1>6, <2>1, <2>2 DEF TypeOK
<1>10. Shapes' /\ FramesOK'
  BY <1>2, <1>3, <1>5, <1>8, FramesShrink DEF Shapes
<1>11. LeaseOK' /\ GetOK'
  BY <1>2, <1>6 DEF Stages, LeaseOK, GetOK, Getting, Unconnected
<1>12. HostOK' /\ MacOK'
  BY <1>2, <1>5, <1>6 DEF Stages, HostOK, RightHost, MacOK, ToNextHop, HopTo
<1>13. PeerOK'
  BY <1>2, <1>4, <1>5, <1>6, <1>8 DEF PeerOK
<1>14. ReplyOK'
  <2>1. "skipped" \notin flaws' => "skipped" \notin flaws
    BY <1>8
  <2>2. pc' = "recv" /\ "skipped" \notin flaws' => conn'.expect.at = Len(resp') + 1
    BY <1>4, <1>5, <1>6, <1>7, <1>8, <2>1
  <2> QED
    BY <1>6, <1>8, <2>2 DEF ReplyOK
<1>15. EndOK'
  <2>1. "cut" \notin flaws'
    BY <1>7, <1>8
  <2>2. ASSUME pc' = "close", flaws' = {} PROVE WholeReply'
    <3>1. "skipped" \notin flaws' /\ "skipped" \notin flaws /\ m.fin = TRUE
      BY <1>6, <1>8, <2>2
    <3>2. Len(resp') = Len(resp) + m.len /\ m.seq.at = Len(resp) + 1
      BY <1>4, <1>7, <1>8, <3>1
    <3>3. Len(resp') = opened[m.seq.conn].length
      BY <1>4, <1>7, <3>1, <3>2
    <3> QED
      BY <1>2, <1>4, <1>5, <3>3 DEF WholeReply
  <2> QED
    BY <1>2, <1>6, <1>7, <2>1, <2>2 DEF EndOK
<1> QED
  BY <1>9, <1>10, <1>11, <1>12, <1>13, <1>14, <1>15 DEF Stages, Reply

(* After the response: closing neither adds to it nor takes from it.       *)
LEMMA ClosingHolds ==
    ASSUME Inv, pc \in {"recv", "close"}, pc' \in {"close", "body"}, now' \in Nat,
           calls' \in 0 .. MaxCalls, dups' \in 0 .. MaxDups, frames' \subseteq frames,
           UNCHANGED <<lease, arp, call, resp, res, acked, asked, opened>>,
           flaws' = flaws \/ flaws' = flaws \cup {"cut"}, pc = "recv" => "cut" \in flaws',
           conn' \in ConnType, conn'.port = conn.port, conn'.host = conn.host,
           conn'.mac = conn.mac, conn'.expect.conn = conn.expect.conn
    PROVE  Inv'
<1> USE DEF Inv
<1>1. conn'.expect.at \in Nat
  BY DEF ConnType, Positions
<1>2. TypeOK'
  <2>1. flaws' \subseteq {"cut", "skipped"}
    BY DEF TypeOK
  <2>2. /\ conn'.port \in Nat /\ conn'.host \in Hosts \cup {"none"}
        /\ conn'.expect.conn \in 0 .. Len(opened')
    BY DEF TypeOK
  <2> QED
    BY <1>1, <2>1, <2>2 DEF TypeOK
<1>3. Shapes' /\ FramesOK'
  BY FramesShrink DEF Shapes
<1>4. LeaseOK' /\ GetOK'
  BY DEF Stages, LeaseOK, GetOK, Getting, Unconnected
<1>5. HostOK' /\ MacOK'
  BY DEF Stages, HostOK, RightHost, MacOK, ToNextHop, HopTo
<1>6. PeerOK'
  BY DEF Reply, PeerOK
<1>7. ReplyOK'
  <2>1. "skipped" \notin flaws' => "skipped" \notin flaws
    OBVIOUS
  <2> QED
    BY <2>1 DEF Reply, ReplyOK
<1>8. EndOK'
  <2>1. res # TRUE
    BY DEF Reply, EndOK
  <2>2. flaws' = {} /\ resp # <<>> => WholeReply
    BY DEF Reply, EndOK
  <2> QED
    BY <2>1, <2>2 DEF EndOK, WholeReply
<1> QED
  BY <1>2, <1>3, <1>4, <1>5, <1>6, <1>7, <1>8 DEF Stages, Reply

(* No segment came for five seconds.                                       *)
LEMMA ReceiveTimeoutHolds == ASSUME Inv, ReceiveTimeout PROVE Inv'
<1>1. /\ pc = "recv" /\ pc' = "close" /\ now' = now + 1 /\ flaws' = flaws \cup {"cut"}
      /\ UNCHANGED <<lease, arp, call, conn, resp, res, frames, acked, asked, opened, calls, dups>>
  BY DEF ReceiveTimeout, client, bounds
<1>2. now + 1 \in Nat /\ calls \in 0 .. MaxCalls /\ dups \in 0 .. MaxDups /\ conn \in ConnType
  BY DEF Inv, TypeOK, Shapes
<1> QED
  BY <1>1, <1>2, ClosingHolds

(* tcp_close takes a segment and throws it away.                           *)
LEMMA CloseReceiveHolds == ASSUME Inv, CloseReceive PROVE Inv'
<1>1. PICK m \in frames : /\ IsNext(m) /\ Take(m)
                          /\ conn' = Advanced(Fewer(m.len, CloseMax), m.fin)
                          /\ pc' \in {"close", "body"}
  BY DEF CloseReceive
<1>2. /\ pc = "close"
      /\ UNCHANGED <<now, lease, arp, call, resp, res, acked, asked, opened, flaws>>
  BY DEF CloseReceive, history
<1>3. /\ frames' \subseteq frames /\ calls' \in 0 .. MaxCalls /\ dups' \in 0 .. MaxDups
      /\ now \in Nat
  BY <1>1, TakeKeeps DEF Inv, TypeOK
<1>4. m.len \in Nat /\ m.fin \in BOOLEAN
  BY <1>1, NextSegment
<1>5. Fewer(m.len, CloseMax) \in Nat
  BY <1>4, NetAssumption DEF Fewer
<1>6. /\ conn' \in ConnType /\ conn'.port = conn.port /\ conn'.host = conn.host
      /\ conn'.mac = conn.mac /\ conn'.expect.conn = conn.expect.conn
  BY <1>1, <1>4, <1>5, AdvancedKeeps
<1> QED
  BY <1>1, <1>2, <1>3, <1>6, ClosingHolds

(* Nothing more comes.                                                     *)
LEMMA CloseTimeoutHolds == ASSUME Inv, CloseTimeout PROVE Inv'
<1>1. /\ pc = "close" /\ pc' = "body" /\ now' = now + 1
      /\ UNCHANGED <<lease, arp, call, conn, resp, res, frames, acked, asked, opened, flaws,
                     calls, dups>>
  BY DEF CloseTimeout, client, history, bounds
<1>2. now + 1 \in Nat /\ calls \in 0 .. MaxCalls /\ dups \in 0 .. MaxDups /\ conn \in ConnType
  BY DEF Inv, TypeOK, Shapes
<1> QED
  BY <1>1, <1>2, ClosingHolds

(* The body is handed over if there are headers, or there is none.         *)
LEMMA ExtractBodyHolds == ASSUME Inv, ExtractBody PROVE Inv'
<1>1. /\ pc = "body" /\ pc' = "idle"
      /\ UNCHANGED <<now, lease, arp, call, conn, resp, frames, acked, asked, opened, flaws,
                     calls, dups>>
      /\ (HasHeaders /\ res' = TRUE) \/ res' = FALSE
  BY DEF ExtractBody, Return, history, bounds
<1>2. now \in Nat /\ calls \in 0 .. MaxCalls /\ dups \in 0 .. MaxDups
  BY DEF Inv, TypeOK
<1>3. HasHeaders /\ flaws = {} => WholeReply
  <2>1. HasHeaders => resp # <<>>
    BY NetAssumption DEF HasHeaders
  <2> QED
    BY <1>1, <2>1 DEF Inv, Reply, EndOK
<1>4. res' \in BOOLEAN
  BY <1>1, Zenon
<1> QED
  BY <1>1, <1>2, <1>3, <1>4, ReturnHolds

(* An empty segment is acknowledged, and nothing else.                     *)
LEMMA EmptySegmentHolds == ASSUME Inv, Chatter \/ Again PROVE Inv'
<1> USE DEF Inv
<1>1. /\ pc \in {"recv", "again"} /\ pc' \in {"recv", "again"}
      /\ UNCHANGED <<now, lease, arp, call, conn, resp, res, frames, acked, asked, opened,
                     flaws, calls, dups>>
  BY DEF Chatter, Again, client, history, bounds
<1>2. TypeOK' /\ Shapes' /\ FramesOK'
  BY <1>1, FramesShrink DEF TypeOK, Shapes
<1>3. LeaseOK' /\ GetOK'
  BY <1>1 DEF Stages, LeaseOK, GetOK, Getting, Unconnected
<1>4. HostOK' /\ MacOK'
  BY <1>1 DEF Stages, HostOK, RightHost, MacOK, ToNextHop, HopTo
<1>5. PeerOK' /\ ReplyOK'
  BY <1>1 DEF Reply, PeerOK, ReplyOK
<1>6. EndOK'
  BY <1>1 DEF Reply, EndOK
<1> QED
  BY <1>2, <1>3, <1>4, <1>5, <1>6 DEF Stages, Reply

(* Whatever the network does, the invariant survives.                      *)
LEMMA StepHolds == ASSUME Inv, [Next]_vars PROVE Inv'
<1>1. CASE UNCHANGED vars
  <2>1. /\ UNCHANGED <<now, lease, arp, call, conn, resp, res, pc, frames, acked, asked, opened,
                       flaws, calls, dups>>
    BY <1>1 DEF vars, client, history, bounds
  <2>2. TypeOK' /\ Shapes' /\ FramesOK'
    BY <2>1, FramesShrink DEF Inv, TypeOK, Shapes
  <2>3. LeaseOK' /\ GetOK'
    BY <2>1 DEF Inv, Stages, LeaseOK, GetOK
  <2>4. HostOK' /\ MacOK'
    BY <2>1 DEF Inv, Stages, HostOK, RightHost, Answered, MacOK, ToNextHop, HopTo, Remote
  <2>5. PeerOK' /\ ReplyOK'
    BY <2>1 DEF Inv, Reply, PeerOK, ReplyOK
  <2>6. EndOK'
    BY <2>1 DEF Inv, Reply, EndOK, WholeReply
  <2> QED
    BY <2>2, <2>3, <2>4, <2>5, <2>6 DEF Inv, Stages, Reply
<1>2. CASE NetConnect \/ Get
  BY <1>2, NetConnectHolds, GetHolds
<1>3. CASE Lease
  BY <1>3, SendDiscoverHolds, GotOfferHolds, SendRequestHolds, GotAckHolds DEF Lease
<1>4. CASE Resolve
  BY <1>4, HopHolds, SendArpHolds, GotArpHolds, SendQueryHolds, GotDnsHolds DEF Resolve
<1>5. CASE Http
  BY <1>5, SendSynHolds, GotSynAckHolds, SendRequestLineHolds, RequestFailsHolds, ReceiveHolds,
     EmptySegmentHolds, ReceiveTimeoutHolds, CloseReceiveHolds, CloseTimeoutHolds,
     ExtractBodyHolds DEF Http
<1>6. CASE SendFails \/ Timeout
  BY <1>6, SendFailsHolds, TimeoutHolds
<1>7. CASE Chatter
  BY <1>7, EmptySegmentHolds
<1> QED
  BY <1>1, <1>2, <1>3, <1>4, <1>5, <1>6, <1>7 DEF Next, Client

(* The invariant holds in every state of every behaviour.                  *)
LEMMA AlwaysInv == Spec => []Inv
<1>1. Init => Inv
  BY InitHolds
<1>2. Inv /\ [Next]_vars => Inv'
  BY StepHolds
<1> QED
  BY <1>1, <1>2, PTL DEF Spec

-----------------------------------------------------------------------------
(* What follows *)

(* have_lease is set only with an address that a server has acknowledged   *)
(* to this machine, and every variable has its type.                       *)
THEOREM LeaseAcknowledged == Spec => []LeaseIsOurs
<1>1. Inv => LeaseIsOurs
  BY DEF Inv, Stages, LeaseOK, LeaseIsOurs
<1> QED
  BY <1>1, AlwaysInv, PTL

(* A query goes to the gateway of the current lease, a segment to the next *)
(* hop on the way to its host, and fetch connects to an address that was   *)
(* the answer to a query with its number.                                  *)
THEOREM SentWhereMeant == Spec => []SentToHost
<1>1. Inv => SentToHost
  BY DEF Inv, Stages, HostOK, MacOK, SentToHost
<1> QED
  BY <1>1, AlwaysInv, PTL

(* No byte of a connection with another port or another host gets into the *)
(* response.                                                               *)
THEOREM ResponseFromPeer == Spec => []OwnReply
<1>1. Inv => OwnReply
  BY DEF Inv, Reply, PeerOK, OwnReply
<1> QED
  BY <1>1, AlwaysInv, PTL

(* The response is the server's stream from its first byte, in order and   *)
(* without repetition, and a GET that returns true has all of it unless it *)
(* was cut short or a segment did not fit.                                 *)
THEOREM ResponseInOrder == Spec => []HonestGet
<1>1. ASSUME Inv PROVE HonestGet
  <2>1. "skipped" \notin flaws => \A i \in 1 .. Len(resp) : resp[i].at = i
    BY <1>1 DEF Inv, Reply, ReplyOK
  <2>2. ASSUME "skipped" \notin flaws, "cut" \notin flaws, res = TRUE, call.op # "netconnect"
        PROVE  Len(resp) = opened[conn.expect.conn].length
    <3>1. flaws = {}
      BY <1>1, <2>2 DEF Inv, TypeOK
    <3> QED
      BY <1>1, <2>2, <3>1 DEF Inv, Reply, EndOK, WholeReply
  <2>3. res => res = TRUE
    BY <1>1 DEF Inv, TypeOK
  <2> QED
    BY <2>1, <2>2, <2>3 DEF HonestGet
<1>2. Inv => HonestGet
  BY <1>1
<1> QED
  BY <1>2, AlwaysInv, PTL
=============================================================================
