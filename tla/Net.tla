---------------------------------- MODULE Net ----------------------------------
(***************************************************************************)
(* The network client (kernel/net.c): a lease by DHCP, ARP with a cache of *)
(* one entry, a name by DNS, and one HTTP GET over TCP, as the commands    *)
(* netconnect, fetch and download of kernel/terminal.c and the browser of  *)
(* kernel/wm.c use them.                                                   *)
(*                                                                         *)
(* The client sends a frame and polls the card for an answer until a       *)
(* deadline.  Frames on the way may be lost, repeated, reordered, and late *)
(* enough to be read by a later call.  A frame the client sends is lost or *)
(* answered; how long the answer takes, and a retransmission by the        *)
(* server, are delays of the answer.                                       *)
(*                                                                         *)
(* Ports and query numbers are taken from the tick counter: now is only as *)
(* fine as that.  A host is known by its address.  The name server is      *)
(* reached through the gateway, and so are the hosts that are not Local.   *)
(*                                                                         *)
(* Next to some definitions stands a variant with a slip in it; nothing    *)
(* uses the variants except the runs that show a property would notice.    *)
(***************************************************************************)
EXTENDS Integers, Sequences, FiniteSets

CONSTANTS
    Nets,     \* the networks that offer a lease; a network stands for the
              \* address it gives us and for its gateway
    Hosts,    \* web servers
    Local,    \* those of them that are on our own subnet
    Replies,  \* what a server may send: cuts, the offsets at which the
              \* segments begin and the one after the last byte, and
              \* finLast, whether the FIN comes with the last segment
    RespMax,  \* the size of response[] in net_http_get
    HdrLen,   \* the length of the headers of a reply
    CloseMax, \* the size of data[] in tcp_close
    MaxCalls, \* bound: how many commands are given
    MaxDups   \* bound: how many frames are repeated

ASSUME NetAssumption ==
    /\ "none" \notin Nets /\ "none" \notin Hosts /\ Local \subseteq Hosts
    /\ \A r \in Replies :
          /\ r.cuts \in Seq(Nat) /\ Len(r.cuts) > 1 /\ r.cuts[1] = 1
          /\ \A i \in 1 .. Len(r.cuts) - 1 : r.cuts[i] < r.cuts[i + 1]
          /\ r.finLast \in BOOLEAN
    /\ RespMax \in Nat /\ HdrLen \in Nat \ {0} /\ CloseMax \in Nat \ {0}
    /\ MaxCalls \in Nat /\ MaxDups \in Nat

VARIABLES
    now,    \* timer_get_ticks()
    lease,  \* [have, net, gw]: have_lease, my_ip, gateway_ip
    arp,    \* [ip, mac]: the ARP cache; "none" while it is not valid
    pc,     \* where the client stands
    call,   \* its parameters and locals
    conn,   \* struct tcp_conn
    resp,   \* response[0 .. response_len - 1]
    res,    \* what the last call returned
    frames, \* frames on the way to this machine
    acked,  \* history: the addresses a server has acknowledged
    asked,  \* history: for each query its number and host
    opened, \* history: for each connection its port, host and reply length
    flaws,  \* history of this call: "cut" (ended by a timeout), "skipped"
    calls, dups

client == <<lease, arp, call, conn, resp, res>>
history == <<acked, asked, opened, flaws>>
bounds == <<calls, dups>>
vars == <<now, client, pc, frames, history, bounds>>

NoCall == [op |-> "none", host |-> "none", offer |-> "none", stamp |-> 0]
NoConn == [port |-> 0, host |-> "none", mac |-> "none", expect |-> [conn |-> 0, at |-> 0]]

-----------------------------------------------------------------------------
(* Sending and receiving *)

(* e1000_send: the frame gets lost, or is answered.                        *)
Send(answers) == \E a \in {{}} \cup answers : frames' = frames \cup a

(* e1000_poll_receive takes a frame; the network may repeat it.  A frame   *)
(* that is lost, or read by a loop that does not wait for it, is one that  *)
(* stays in frames and is never taken.                                     *)
Take(m) ==
    /\ \/ frames' = frames \ {m} /\ UNCHANGED dups
       \/ dups < MaxDups /\ dups' = dups + 1 /\ UNCHANGED frames
    /\ UNCHANGED calls

Return(ok) == pc' = "idle" /\ res' = ok

(* Any send can fail: the card does not finish in time.                    *)
SendFails ==
    /\ pc \in {"discover", "request", "hopsend", "query", "syn", "synackack"}
    /\ Return(FALSE)
    /\ UNCHANGED <<now, lease, arp, call, conn, resp, frames, history, bounds>>

(* A deadline passes: hundreds of ticks.                                   *)
NoDeadlineForDns == {"offer", "ack", "arp", "synack"}
Waiting == {"offer", "ack", "arp", "dns", "synack"}
Timeout ==
    /\ pc \in Waiting /\ Return(FALSE) /\ now' = now + 1
    /\ UNCHANGED <<lease, arp, call, conn, resp, frames, history, bounds>>

-----------------------------------------------------------------------------
(* The commands.  Some ticks may or may not have gone by since the last.   *)
Start(op, h, at) ==
    /\ pc = "idle" /\ calls < MaxCalls /\ calls' = calls + 1
    /\ now' \in {now, now + 1}
    /\ call' = [NoCall EXCEPT !.op = op, !.host = h]
    /\ conn' = NoConn /\ resp' = <<>> /\ flaws' = {} /\ res' = FALSE
    /\ pc' = at

(* net_init_and_request_lease returns if the card does not come up.  Then  *)
(* it forgets the lease, but not the ARP cache.                            *)
NetConnect ==
    /\ \/ /\ Start("netconnect", "none", "discover")
          /\ lease' = [have |-> FALSE, net |-> "none", gw |-> lease.gw]
       \/ /\ Start("netconnect", "none", "idle")
          /\ UNCHANGED lease
    /\ UNCHANGED <<arp, frames, acked, asked, opened, dups>>

(* fetch and the browser resolve the host's name, download does not.       *)
(* Without a lease both return.                                            *)
Get ==
    /\ \E op \in {"fetch", "download"}, h \in Hosts :
          Start(op, h, IF lease.have THEN "hop" ELSE "idle")
    /\ UNCHANGED <<lease, arp, frames, acked, asked, opened, dups>>

-----------------------------------------------------------------------------
(* DHCP *)

(* The router option of an ACK may be missing.                             *)
Dhcp(t, n, router) == [t |-> t, net |-> n, router |-> router]

SendDiscover ==
    /\ pc = "discover" /\ pc' = "offer"
    /\ Send({{Dhcp("offer", n, TRUE)} : n \in Nets})
    /\ UNCHANGED <<now, client, history, bounds>>

(* wait_for_dhcp_reply: with the one transaction number there is, every    *)
(* reply of a DHCP server passes.                                          *)
IsDhcpReply(m) == m.t \in {"offer", "ack", "nak"}

GotOffer ==
    /\ pc = "offer"
    /\ \E m \in frames :
          /\ IsDhcpReply(m) /\ Take(m)
          /\ IF m.t = "offer"
             THEN pc' = "request" /\ call' = [call EXCEPT !.offer = m.net] /\ UNCHANGED res
             ELSE Return(FALSE) /\ UNCHANGED call
    /\ UNCHANGED <<now, lease, arp, conn, resp, history>>

(* The server commits itself with the ACK.                                 *)
SendRequest ==
    /\ pc = "request" /\ pc' = "ack"
    /\ \/ /\ Send({{Dhcp("nak", call.offer, TRUE)}}) /\ UNCHANGED acked
       \/ /\ Send({{Dhcp("ack", call.offer, b)} : b \in BOOLEAN})
          /\ acked' = acked \cup {call.offer}
    /\ UNCHANGED <<now, client, asked, opened, flaws, bounds>>

NakOnly(m) == m.t # "nak"
IsAck(m) == m.t = "ack"

GotAck ==
    /\ pc = "ack"
    /\ \E m \in frames :
          /\ IsDhcpReply(m) /\ Take(m)
          /\ IF IsAck(m)
             THEN /\ lease' = [have |-> TRUE, net |-> m.net,
                               gw |-> IF m.router THEN m.net ELSE call.offer]
                  /\ Return(TRUE)
             ELSE Return(FALSE) /\ UNCHANGED lease
    /\ UNCHANGED <<now, arp, call, conn, resp, history>>

-----------------------------------------------------------------------------
(* resolve_next_hop and arp_resolve *)

ArpReply(g) == [t |-> "arp", from |-> g, mac |-> g]

AfterHop == IF call.op = "fetch" /\ call.stamp = 0 THEN "query" ELSE "syn"

Remote == IF call.op = "fetch" THEN conn.host ELSE call.host

HopTo(h) == IF h \in Local THEN h ELSE lease.gw
NextHop == IF AfterHop = "query" THEN lease.gw ELSE HopTo(Remote)

AnyCached == arp.ip # "none"
InCache == arp.ip = NextHop

Hop ==
    /\ pc = "hop"
    /\ IF InCache
       THEN pc' = AfterHop /\ conn' = [conn EXCEPT !.mac = arp.mac]
       ELSE pc' = "hopsend" /\ UNCHANGED conn
    /\ UNCHANGED <<now, lease, arp, call, resp, res, frames, history, bounds>>

SendArp ==
    /\ pc = "hopsend" /\ pc' = "arp"
    /\ Send({{ArpReply(NextHop)}})
    /\ UNCHANGED <<now, client, history, bounds>>

GotArp ==
    /\ pc = "arp" /\ pc' = AfterHop
    /\ \E m \in frames :
          /\ m.t = "arp" /\ m.from = NextHop /\ Take(m)
          /\ arp' = [ip |-> NextHop, mac |-> m.mac]
          /\ conn' = [conn EXCEPT !.mac = m.mac]
    /\ UNCHANGED <<now, lease, call, resp, res, history>>

-----------------------------------------------------------------------------
(* net_resolve_hostname: number and port of the query come from the tick.  *)

(* host is the one asked for, answer the address in the reply.             *)
DnsReply(stamp, h, found) ==
    [t |-> "dns", stamp |-> stamp, answer |-> IF found THEN h ELSE "none"]

Stamp == now + 1

SendQuery ==
    /\ pc = "query" /\ pc' = "dns"
    /\ call' = [call EXCEPT !.stamp = Stamp]
    /\ asked' = asked \cup {[stamp |-> Stamp, host |-> call.host]}
    /\ Send({{DnsReply(Stamp, call.host, b)} : b \in BOOLEAN})
    /\ UNCHANGED <<now, lease, arp, conn, resp, res, acked, opened, flaws, bounds>>

AnyDnsReply(m) == m.t = "dns"
IsMyDnsReply(m) == m.t = "dns" /\ m.stamp = call.stamp

(* The address found is where the connection goes.                         *)
GotDns ==
    /\ pc = "dns"
    /\ \E m \in frames :
          /\ IsMyDnsReply(m) /\ Take(m)
          /\ IF m.answer # "none"
             THEN pc' = "hop" /\ conn' = [conn EXCEPT !.host = m.answer] /\ UNCHANGED res
             ELSE Return(FALSE) /\ UNCHANGED conn
    /\ UNCHANGED <<now, lease, arp, call, resp, history>>

-----------------------------------------------------------------------------
(* tcp_connect *)

(* A position in a server's stream: the connection, and 0 for its SYN.     *)
At(k, i) == [conn |-> k, at |-> i]

SynAck(k, p, h) == [t |-> "synack", port |-> p, from |-> h, seq |-> At(k, 0)]

SendSyn ==
    /\ pc = "syn" /\ pc' = "synack"
    /\ conn' = [conn EXCEPT !.port = Stamp, !.host = Remote]
    /\ opened' = Append(opened, [port |-> Stamp, host |-> Remote, length |-> 0])
    /\ Send({{SynAck(Len(opened) + 1, Stamp, Remote)}})
    /\ UNCHANGED <<now, lease, arp, call, resp, res, acked, asked, flaws, bounds>>

(* The filters of tcp_connect and tcp_wait_segment on addresses and ports. *)
PortIgnored(m) == m.from = conn.host
FromPeer(m) == m.from = conn.host /\ m.port = conn.port

(* Our first sequence number is always the same, so that the              *)
(* acknowledgement number in a SYN-ACK always fits.                        *)
GotSynAck ==
    /\ pc = "synack" /\ pc' = "synackack"
    /\ \E m \in frames :
          /\ m.t = "synack" /\ FromPeer(m) /\ Take(m)
          /\ conn' = [conn EXCEPT !.expect = At(m.seq.conn, 1)]
    /\ UNCHANGED <<now, lease, arp, call, resp, res, history>>

-----------------------------------------------------------------------------
(* net_http_get *)

Segment(k, from, to, fin) ==
    [t |-> "seg", port |-> opened[k].port, from |-> opened[k].host,
     seq |-> At(k, from), len |-> to - from, fin |-> fin]

(* What a server sends: its reply cut into segments, and a FIN with the    *)
(* last of them or after it.                                               *)
Stream(k, r) ==
    LET n == Len(r.cuts) IN
    {Segment(k, r.cuts[i], r.cuts[i + 1], r.finLast /\ i = n - 1) : i \in 1 .. n - 1}
    \cup (IF r.finLast THEN {} ELSE {Segment(k, r.cuts[n], r.cuts[n], TRUE)})

(* The ACK and the request.  A server that knows of the connection replies *)
(* once.                                                                   *)
SendRequestLine ==
    /\ pc = "synackack"
    /\ LET k == Len(opened) IN
       \/ /\ conn.expect.conn = k
          /\ \E r \in Replies :
                /\ opened' = [opened EXCEPT ![k].length = r.cuts[Len(r.cuts)] - 1]
                /\ frames' = frames \cup Stream(k, r)
       \/ UNCHANGED <<opened, frames>>
    /\ pc' = "recv"
    /\ UNCHANGED <<now, client, acked, asked, flaws, bounds>>

(* The request could not be sent: tcp_close, and no response.              *)
RequestFails ==
    /\ pc = "synackack" /\ pc' = "close"
    /\ UNCHANGED <<now, client, frames, history, bounds>>

(* tcp_wait_segment *)
AnySegment(m) == m.t = "seg" /\ FromPeer(m) /\ m.seq.conn = conn.expect.conn
IsNext(m) == m.t = "seg" /\ FromPeer(m) /\ m.seq = conn.expect

Advanced(n, fin) ==
    [conn EXCEPT !.expect.at = @ + n + (IF fin THEN 1 ELSE 0)]

Bytes(m) == [i \in 1 .. m.len |-> At(m.seq.conn, m.seq.at + i - 1)]

Fits(m) == Len(resp) + m.len <= RespMax

(* A segment that does not fit the buffer is acknowledged and skipped.     *)
Receive ==
    /\ pc = "recv"
    /\ \E m \in frames :
          /\ IsNext(m) /\ Take(m)
          /\ conn' = Advanced(m.len, m.fin)
          /\ IF Fits(m)
             THEN resp' = resp \o Bytes(m) /\ UNCHANGED flaws
             ELSE UNCHANGED resp /\ flaws' = flaws \cup {"skipped"}
          /\ pc' = IF m.fin THEN "close" ELSE "recv"
    /\ UNCHANGED <<now, lease, arp, call, res, acked, asked, opened>>

(* A server that goes on sending.  The loop takes any segment in order,    *)
(* puts the deadline off, acknowledges it and waits for the next: it does  *)
(* not count.  Empty segments stand for a stream without an end; once      *)
(* response[] is full, further data leave it as it is, too.                *)
Chatter ==
    /\ pc = "recv" /\ pc' = "again"
    /\ UNCHANGED <<now, client, frames, history, bounds>>

Again ==
    /\ pc = "again" /\ pc' = "recv"
    /\ UNCHANGED <<now, client, frames, history, bounds>>

(* No segment for five seconds ends the loop; the call goes on with what   *)
(* there is.                                                               *)
ReceiveTimeout ==
    /\ pc = "recv" /\ pc' = "close" /\ now' = now + 1
    /\ flaws' = flaws \cup {"cut"}
    /\ UNCHANGED <<client, frames, acked, asked, opened, bounds>>

Fewer(a, b) == IF a < b THEN a ELSE b

(* tcp_close takes what still comes, until a FIN or for about a second.    *)
CloseReceive ==
    /\ pc = "close"
    /\ \E m \in frames :
          /\ IsNext(m) /\ Take(m)
          /\ conn' = Advanced(Fewer(m.len, CloseMax), m.fin)
          /\ pc' \in IF m.fin THEN {"body"} ELSE {"close", "body"}
    /\ UNCHANGED <<now, lease, arp, call, resp, res, history>>

CloseTimeout ==
    /\ pc = "close" /\ pc' = "body" /\ now' = now + 1
    /\ UNCHANGED <<client, frames, history, bounds>>

(* http_extract_body: there must be all of the headers, and a good status. *)
HasHeaders == Len(resp) >= HdrLen

ExtractBody ==
    /\ pc = "body"
    /\ \/ HasHeaders /\ Return(TRUE)
       \/ Return(FALSE)
    /\ UNCHANGED <<now, lease, arp, call, conn, resp, frames, history, bounds>>

-----------------------------------------------------------------------------
Init ==
    /\ now = 0 /\ lease = [have |-> FALSE, net |-> "none", gw |-> "none"]
    /\ arp = [ip |-> "none", mac |-> "none"]
    /\ pc = "idle" /\ call = NoCall /\ conn = NoConn /\ resp = <<>> /\ res = FALSE
    /\ frames = {} /\ acked = {} /\ asked = {} /\ opened = <<>> /\ flaws = {}
    /\ calls = 0 /\ dups = 0

Lease == SendDiscover \/ GotOffer \/ SendRequest \/ GotAck
Resolve == Hop \/ SendArp \/ GotArp \/ SendQuery \/ GotDns
Http == SendSyn \/ GotSynAck \/ SendRequestLine \/ RequestFails \/ Receive
        \/ Again \/ ReceiveTimeout \/ CloseReceive \/ CloseTimeout \/ ExtractBody
Client == Lease \/ Resolve \/ Http \/ SendFails \/ Timeout

Next == NetConnect \/ Get \/ Client \/ Chatter

(* The client runs, and the tick goes on, whatever the network does.       *)
(* Nothing is asked of the network: it may be silent, or never stop.       *)
Spec == Init /\ [][Next]_vars
FairSpec == Spec /\ WF_vars(Client)

-----------------------------------------------------------------------------
(* Properties *)

TypeOK ==
    /\ now \in Nat /\ res \in BOOLEAN /\ calls \in 0 .. MaxCalls /\ dups \in 0 .. MaxDups
    /\ lease \in [have : BOOLEAN, net : Nets \cup {"none"}, gw : Nets \cup {"none"}]
    /\ (lease.have => lease.net # "none" /\ lease.gw # "none")
    /\ arp \in [ip : Nets \cup Hosts \cup {"none"}, mac : Nets \cup Hosts \cup {"none"}]
    /\ call.host \in Hosts \cup {"none"} /\ call.offer \in Nets \cup {"none"}
    /\ conn.port \in Nat /\ conn.host \in Hosts \cup {"none"}
    /\ conn.expect.conn \in 0 .. Len(opened) /\ conn.expect.at \in Nat
    /\ Len(resp) <= RespMax /\ acked \subseteq Nets
    /\ flaws \subseteq {"cut", "skipped"}
    /\ pc \in {"idle", "discover", "offer", "request", "ack", "hop", "hopsend", "arp",
               "query", "dns", "syn", "synack", "synackack", "recv", "again", "close",
               "body"}

(* have_lease is set only with an address that a server has acknowledged   *)
(* to this machine, whatever replies of earlier attempts come late.        *)
(* (And every variable has its type.)                                      *)
LeaseIsOurs == TypeOK /\ (lease.have => lease.net \in acked)

(* resolve_next_hop: a query goes to the hardware address of the gateway   *)
(* of the current lease, a segment to that of its host or the gateway,     *)
(* although one cache entry serves them all and outlives the lease.        *)
ToNextHop ==
    /\ pc \in {"query", "dns"} => conn.mac = lease.gw
    /\ pc \in {"synack", "synackack", "recv", "again", "close"} => conn.mac = HopTo(conn.host)

(* net_resolve_hostname takes no late answer to another query: fetch       *)
(* connects to the host it was asked for - except that two queries of the  *)
(* same tick have the same number and port.                                *)
RightHost ==
    conn.port # 0 =>
        \/ conn.host = call.host
        \/ [stamp |-> call.stamp, host |-> conn.host] \in asked

(* What is sent goes to whom it is meant for: to the host that was asked   *)
(* for, by the hardware address on the way to it.                          *)
SentToHost == RightHost /\ ToNextHop

(* No byte of an earlier connection gets into the response, except of one  *)
(* to the same host that was opened in the same tick: tcp_connect takes    *)
(* the port from the tick and always begins with the same number.          *)
OwnReply ==
    \A i \in 1 .. Len(resp) :
        LET k == resp[i].conn IN
        k = Len(opened) \/ (opened[k].port = conn.port /\ opened[k].host = conn.host)

(* The response is what the server sent, from its first byte on, in order  *)
(* and without repetition, however segments are reordered and repeated -   *)
(* until one is skipped because the buffer is full.  And a GET that        *)
(* returns true has all of it, unless a timeout cut it short.              *)
HonestGet ==
    "skipped" \notin flaws =>
        /\ \A i \in 1 .. Len(resp) : resp[i].at = i
        /\ res /\ call.op # "netconnect" /\ "cut" \notin flaws =>
              Len(resp) = opened[conn.expect.conn].length

(* Every command returns, whatever gets lost, late or repeated, provided   *)
(* that the server stops sending some day.  The loop of net_http_get has   *)
(* no other bound: it puts idle_deadline off for every segment, and goes   *)
(* on when response[] is full.                                             *)
ServerStops == <>[][~Chatter]_vars
CommandsReturn == ServerStops => (pc # "idle" ~> pc = "idle")
=============================================================================
