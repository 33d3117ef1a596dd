-------------------------------- MODULE MCTls --------------------------------
(* Servers that keep to the protocol, and servers that do not. *)
EXTENDS Tls

P(m, arg) == [m |-> m, arg |-> arg, size |-> 1, last |-> TRUE]
FirstHalf(p) == [p EXCEPT !.last = FALSE, !.size = 1]
Rec(parts) == [type |-> "handshake", parts |-> parts]

Cert == P("cert", Host)

Server(name, recs, reply) == [name |-> name, flight |-> recs, reply |-> reply]

AllServers == {
    \* one record with everything
    Server("honest", <<Rec(<<P("hello", "ecdhe"), Cert, P("ske", "signed"), P("done", "")>>)>>, <<2, 1>>),
    \* a certificate split over two records
    Server("honest", <<Rec(<<P("hello", "rsa"), FirstHalf(Cert)>>), Rec(<<Cert, P("done", "")>>)>>, <<1, 2, 1>>),
    \* a record too large for chunk[]
    Server("large", <<Rec(<<P("hello", "rsa"), Cert, P("done", "")>>)>>, <<1, 3, 1>>),
    \* a chain too long for transcript[]
    Server("chain", <<Rec(<<P("hello", "rsa"), [Cert EXCEPT !.size = 4], P("done", "")>>)>>, <<1>>),
    \* refused in the middle of the flight, with more to come
    Server("suite", <<Rec(<<P("hello", "gcm")>>), Rec(<<Cert>>), Rec(<<P("done", "")>>)>>, <<>>),
    Server("order", <<Rec(<<P("hello", "ecdhe"), P("ske", "signed")>>), Rec(<<Cert, P("done", "")>>)>>, <<>>),
    Server("sig", <<Rec(<<P("hello", "ecdhe"), Cert, P("ske", "unsigned")>>), Rec(<<P("done", "")>>)>>, <<>>),
    Server("parse", <<Rec(<<P("hello", "rsa"), P("cert", "unparsable"), P("done", "")>>)>>, <<>>),
    \* refused at its end
    Server("name", <<Rec(<<P("hello", "rsa"), P("cert", "other"), P("done", "")>>)>>, <<1>>),
    Server("noske", <<Rec(<<P("hello", "ecdhe"), Cert, P("done", "")>>)>>, <<>>),
    Server("alert", <<[type |-> "alert", parts |-> <<>>]>>, <<>>)}

(* What the theorems of TlsProofs suppose of the servers is so of these.   *)
ASSUME ServersAreAsSupposed == MessagesFit /\ HonestKeepProtocol
=============================================================================
