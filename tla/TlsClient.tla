------------------------------- MODULE TlsClient -------------------------------
(* tls_client and tls_cipher (src/tlsclient/tlsclient_source.cpp): handshake,  *)
(* record layer and the calls open, send, recv and close of one connection     *)
(* object that is used for several connections in turn. The peer and the       *)
(* network are external: a server that speaks TLS 1.2 or 1.3, puts one or more *)
(* whole handshake messages into a record and may refuse, stop or break off; a *)
(* TCP stream that arrives in pieces.                                          *)
(*                                                                             *)
(* The client handles one course of the handshake only, that of its tables of  *)
(* states. What else the protocol allows a server to send is in ServerMay, and *)
(* `course' tells whether a server has done any of it.                         *)
(*                                                                             *)
(* Cryptography is symbolic. A key is << side, epoch, transcript >>, so two    *)
(* keys are equal exactly when both ends derived them from the same messages;  *)
(* a sealed record opens only with its key and its sequence number. A record   *)
(* on the wire is two units (both named by the record), so that ::recv can     *)
(* return a part of it.                                                        *)
EXTENDS Naturals, FiniteSets, Sequences, SequencesExt

CONSTANTS Offers,      \* versions open may be called with: {"tls12", "tls13"}
          MaxConns,    \* bound: connections made with the object
          NData,       \* bound: units of data the server writes per connection
          MaxSends,    \* bound: calls of send per connection
          ReadSizes,   \* sizes recv is called with
          RecvMax,     \* units one ::recv returns at most (16384 bytes)
          CompactAt,   \* size above which read_channel moves the rest down (1 MB)
          ServerMay    \* what a server may do besides the usual course

ASSUME TlsAssumption ==
  /\ Offers \subseteq {"tls12", "tls13"} /\ Offers # {}
  /\ MaxConns \in Nat /\ NData \in Nat /\ MaxSends \in Nat
  /\ RecvMax \in Nat \ {0} /\ CompactAt \in Nat
  /\ ReadSizes \subseteq Nat \ {0}
  /\ ServerMay \subseteq
       { "ccs",         \* TLS 1.3: no ChangeCipherSpec, or one at another place
         "retry",       \* TLS 1.3: HelloRetryRequest, for a cookie
         "certRequest", \* CertificateRequest
         "fragment",    \* a Certificate over two records
         "keyUpdate",   \* TLS 1.3: KeyUpdate
         "padding",     \* TLS 1.3: padded records
         "warning" }    \* TLS 1.2: warning alerts

VARIABLES
  cl,       \* the tls_client object with its tls_cipher
  call,     \* the call in progress: << "none" >>, << "open" >> or << "recv", size >>
  conns,    \* connections tried so far
  sends,    \* calls of send on this connection
  got,      \* units recv has returned on this connection
  status,   \* how the connection stands for the caller, see TlsByteStream
  error,    \* the error the last failing call on this connection reported
  net,      \* units on their way to the client
  toServer, \* records on their way to the server
  link,     \* "down", "up", "fin" (the server has closed) or "broken" (reset)
  srv,      \* the server's side of the connection
  course    \* "usual", or "other" once a server has used ServerMay

tlsVars == << cl, call, conns, sends, got, status, error, net, toServer, link, srv >>
vars == << tlsVars, course >>

None == "none"
Plain == << >>
Idle == << "none" >>
Opening == << "open" >>

\* Records never sealed when sent, never opened when received.
IsClear(type) == type \in {"ccs", "alert"}

(* ------------------------------ tls_cipher ------------------------------ *)

\* tls_client::close on the object's fields; err_msg survives it.
ClosedClient(err) ==
  [ sock |-> FALSE, idx |-> 0, cipher |-> None, encoding |-> FALSE,
    clientRand |-> 0, serverRand |-> 0, clientSeq |-> 0, serverSeq |-> 0,
    localKey |-> Plain, remoteKey |-> Plain, hash |-> << >>, recvBuf |-> << >>,
    channel |-> << >>, readed |-> 0, closeNotify |-> FALSE, out |-> << >>,
    err |-> err ]

\* A message as the transcript keeps it; a Finished follows from what precedes it.
Hashed(m) == IF m.name \in {"CH", "SH"} THEN << m.name, m.body.rand >> ELSE << m.name >>

UpdateHash(c, m) == [c EXCEPT !.hash = Append(@, Hashed(m))]

\* The key derivations (PRF and HKDF): equal keys come from equal inputs only.
Key(side, epoch, basis) == << side, epoch, basis >>

\* tls12_compute_key: both write keys come from the two random values.
Tls12ComputeKey(c) ==
  LET basis == << c.clientRand, c.serverRand >>
  IN  [c EXCEPT !.localKey = Key("client", "12", basis),
                !.remoteKey = Key("server", "12", basis)]

\* tls13_compute_key: traffic keys of the epoch from a transcript hash.
Tls13ComputeKey(c, epoch, hash) ==
  [c EXCEPT !.localKey = Key("client", epoch, hash),
            !.remoteKey = Key("server", epoch, hash)]

\* compute_verify: what a Finished message of the holder of key must contain.
Verify(key, hash) == << "verify", key, hash >>

\* tls_cipher::encode: the nonce or the additional data holds the sequence number.
Encode(c, type, msgs) ==
  LET sealed == c.encoding /\ ~IsClear(type)
  IN  [ outer |-> IF sealed /\ c.cipher = "tls13" THEN "data" ELSE type,
        type |-> type, msgs |-> msgs,
        key |-> IF sealed THEN c.localKey ELSE Plain,
        seq |-> IF sealed THEN c.clientSeq ELSE 0 ]

\* The authenticated ciphers: what was sealed with this key and this number.
Opens(c, r) == r.key = c.remoteKey /\ r.seq = c.serverSeq

\* tls_cipher::decode: counts the record, then opens it or reports an error. A
\* sealed record that is not decoded fails the state check that follows.
Decode(c, r) ==
  IF ~c.encoding THEN [c EXCEPT !.err = IF r.key = Plain THEN @ ELSE "state"]
  ELSE [c EXCEPT !.serverSeq = @ + 1, !.err = IF Opens(c, r) THEN @ ELSE "decode"]

(* --------------------- tls_client: sending and handlers ------------------ *)

\* A record leaves; the sequence number counts it if it is sealed.
PutOut(c, r) == [c EXCEPT !.out = Append(@, r),
                          !.clientSeq = IF r.key = Plain THEN @ ELSE @ + 1]

\* send_packet on a connection that is up, has ended or is broken; after an error
\* the caller has returned and nothing is sent.
SendPacket(c, on, type, msg) ==
  LET hashed == IF type = "hs" THEN UpdateHash(c, msg) ELSE c
  IN  CASE c.err # None -> c
        [] c.err = None /\ on = "broken" -> [hashed EXCEPT !.err = "send"]
        [] OTHER -> PutOut(hashed, Encode(hashed, type, << msg >>))

Msg(name, body) == [name |-> name, body |-> body]

\* send_client_hello: TLS 1.3 suites only when open asked for that version.
SendClientHello(c, offer) ==
  SendPacket([c EXCEPT !.clientRand = conns + 1], "up", "hs",
             Msg("CH", [rand |-> conns + 1, offer |-> offer]))

SendClientFinish(c) == SendPacket(c, link, "hs", Msg("Fin", Verify(c.localKey, c.hash)))

SendChangeCipherSpec(c) == SendPacket(c, link, "ccs", Msg("CCS", None))

\* on_server_hello; the TLS 1.3 handshake keys cover the transcript so far. A
\* HelloRetryRequest is one without a key share.
OnServerHello(c, m) ==
  LET d == [c EXCEPT !.cipher = m.body.ver]
  IN  CASE m.body.ver = "retry" -> [c EXCEPT !.err = "parameters"]
        [] m.body.ver = "tls13" ->
             [Tls13ComputeKey(d, "hs", d.hash) EXCEPT !.encoding = TRUE]
        [] OTHER -> [d EXCEPT !.serverRand = m.body.rand]

\* on_server_key_exchange; the signature is not verified.
OnServerKeyExchange(c) == Tls12ComputeKey(c)

\* on_server_hello_done: key exchange, switch to sealed records, Finished.
OnServerHelloDone(c) ==
  LET sent == SendChangeCipherSpec(SendPacket(c, link, "hs", Msg("CKE", None)))
  IN  SendClientFinish([sent EXCEPT !.encoding = TRUE])

\* Mutant: the transcript is taken after the client's own Finished.
OnFinishedLateHash(c, m) ==
  LET answered == SendClientFinish(SendChangeCipherSpec(UpdateHash(c, m)))
  IN  IF c.cipher # "tls13" \/ answered.err # None THEN UpdateHash(c, m)
      ELSE Tls13ComputeKey([answered EXCEPT !.clientSeq = 0, !.serverSeq = 0],
                           "ap", answered.hash)

\* verify_finished, then on_server_finished: the application keys of TLS 1.3
\* cover the transcript up to the server's Finished, not the client's.
OnFinished(c, m) ==
  LET seen == UpdateHash(c, m)
      answered == SendClientFinish(SendChangeCipherSpec(seen))
      restarted == [answered EXCEPT !.clientSeq = 0, !.serverSeq = 0]
  IN  CASE m.body # Verify(c.remoteKey, c.hash) -> [c EXCEPT !.err = "verify"]
        [] m.body = Verify(c.remoteKey, c.hash) /\ c.cipher # "tls13" -> seen
        [] OTHER -> IF answered.err # None THEN answered
                    ELSE Tls13ComputeKey(restarted, "ap", seen.hash)

OnHandshake(c, m) ==
  LET d == IF m.name = "Fin" THEN c ELSE UpdateHash(c, m)
  IN  CASE m.name = "SH"  -> OnServerHello(d, m)
        [] m.name = "SKE" -> OnServerKeyExchange(d)
        [] m.name = "SHD" -> OnServerHelloDone(d)
        [] m.name = "Fin" -> OnFinished(d, m)
        [] OTHER          -> d

\* The alert's two bytes: close_notify is recognised by its code, any other
\* alert by its level.
OnAlert(c, kind) ==
  CASE kind = "close_notify" -> [c EXCEPT !.closeNotify = TRUE]
    [] kind = "fatal"        -> [c EXCEPT !.err = "fatal alert"]
    [] OTHER                 -> c

(* ------------------- tls_client: one record, one ::recv ------------------ *)

StateSeq(tls13) ==
  IF tls13 THEN << "SH", "CCS", "EE", "Cert", "CV", "Fin" >>
           ELSE << "SH", "Cert", "SKE", "SHD", "CCS", "Fin" >>

\* TLS 1.2 may send as soon as the server's hello is done.
StatesCount(tls13) == IF tls13 THEN 6 ELSE 4

Online(c) == c.idx >= StatesCount(c.cipher = "tls13")

\* One message of a record; an earlier error has ended the loop.
OnMessage(c, tls13, type, m, seen) ==
  LET checked == c.idx < StatesCount(tls13) /\ type # "alert"
      next == [c EXCEPT !.idx = IF checked THEN @ + 1 ELSE @]
  IN  CASE c.err # None -> c
        [] c.err = None /\ checked /\ StateSeq(tls13)[c.idx + 1] # m.name ->
             [c EXCEPT !.err = "state"]
        [] OTHER ->
             CASE type = "hs"    -> OnHandshake(next, m)
               [] type = "alert" -> OnAlert(next, seen)
               [] type = "data"  -> [next EXCEPT !.channel = Append(@, m)]
               [] OTHER          -> next

\* on_packet. An alert record of TLS 1.2 is not decoded: once sealed, its two
\* bytes are those of the nonce, and misread is whatever they look like.
OnPacket(c, r, misread) ==
  LET tls13 == c.cipher = "tls13"
      d == IF IsClear(r.outer) THEN c ELSE Decode(c, r)
      type == IF tls13 /\ d.encoding /\ ~IsClear(r.outer) THEN r.type ELSE r.outer
      seen == IF type = "alert" /\ IsClear(r.outer) /\ r.key # Plain
              THEN misread ELSE r.msgs[1]
  IN  IF c.err # None \/ d.err # None THEN d
      ELSE FoldLeft(LAMBDA x, m : OnMessage(x, tls13, type, m, seen), d, r.msgs)

\* process_recv once ::recv has returned n units: every complete record is
\* handled, the rest waits in recv_buf. On an error the client closes itself.
ProcessRecv(c, n, misread) ==
  LET buf == c.recvBuf \o SubSeq(net, 1, n)
      full == Len(buf) \div 2
      records == [i \in 1 .. full |-> buf[2 * i]]
      d == FoldLeft(LAMBDA x, r : OnPacket(x, r, misread), c, records)
  IN  IF d.err # None THEN [ClosedClient(d.err) EXCEPT !.out = d.out]
      ELSE [d EXCEPT !.recvBuf = SubSeq(buf, 2 * full + 1, Len(buf))]

\* read_channel: what it returns and what is left.
ReadUnits(c, size) ==
  SubSeq(c.channel, c.readed + 1,
         c.readed + (IF size < Len(c.channel) - c.readed THEN size
                     ELSE Len(c.channel) - c.readed))

\* Mutant: the rest is moved down and the read position is not.
ReadChannelKeepsPosition(c, size) ==
  LET readed == c.readed + Len(ReadUnits(c, size))
  IN  IF readed < Len(c.channel) THEN [c EXCEPT !.readed = readed,
        !.channel = IF Len(@) > CompactAt THEN SubSeq(@, readed + 1, Len(@)) ELSE @]
      ELSE [c EXCEPT !.channel = << >>, !.readed = 0]

ReadChannel(c, size) ==
  LET readed == c.readed + Len(ReadUnits(c, size))
      all == Len(c.channel)
      moved == \/ readed > (all \div 4) * 3 /\ all > CompactAt
               \/ readed >= all
  IN  IF moved THEN [c EXCEPT !.channel = SubSeq(@, readed + 1, all), !.readed = 0]
      ELSE [c EXCEPT !.readed = readed]

Unread(c) == Len(c.channel) > c.readed

(* ---------------------------- calls of the client ------------------------ *)

NoServer ==
  [ ver |-> None, flight |-> << >>, sealed |-> FALSE, opening |-> FALSE,
    localKey |-> Plain, remoteKey |-> Plain, serverSeq |-> 0, clientSeq |-> 0,
    hash |-> << >>, appHash |-> << >>, sent |-> << >>,
    extra |-> FALSE, notified |-> FALSE, complete |-> FALSE, rejected |-> FALSE ]

\* A server whose connection is over: only what it did before still matters.
Gone(s) == [NoServer EXCEPT !.sent = s.sent, !.notified = s.notified,
                            !.rejected = s.rejected]

\* What a call leaves behind: the object, the records it sent, and a socket
\* that is gone when the client has closed itself.
Settle(c) ==
  /\ cl' = [c EXCEPT !.out = << >>, !.err = None]
  /\ error' = IF c.err = None THEN error ELSE c.err
  /\ link' = IF c.sock THEN link ELSE "down"
  /\ srv' = IF c.sock THEN srv ELSE Gone(srv)
  /\ toServer' = IF link = "up" /\ c.sock THEN toServer \o c.out ELSE << >>

Signal == net # << >> \/ link \in {"fin", "broken"}

\* Mutant: a ::recv that returns 0 is not the end of the connection.
OutcomesIgnoringEnd ==
  { LET c == ProcessRecv(cl, n, "warning")
    IN  [client |-> c,
         rest |-> IF c.sock THEN SubSeq(net, n + 1, Len(net)) ELSE << >>] :
    n \in { k \in 0 .. RecvMax : k <= Len(net) /\ link # "broken" } }
  \cup { [client |-> ClosedClient("disconnected"), rest |-> << >>] :
         x \in { y \in {"broken"} : net = << >> /\ link = y } }

\* One turn of process_recv: some units, or the end of the stream.
Outcomes ==
  { LET c == ProcessRecv(cl, n, misread)
    IN  [client |-> c,
         rest |-> IF c.sock THEN SubSeq(net, n + 1, Len(net)) ELSE << >>] :
    n \in { k \in 1 .. RecvMax : k <= Len(net) },
    misread \in IF \E i \in 1 .. Len(net) : net[i].outer = "alert" /\ net[i].key # Plain
                THEN {"close_notify", "fatal", "warning"} ELSE {"warning"} }
  \cup { [client |-> ClosedClient("disconnected"), rest |-> << >>] :
         x \in { y \in {"fin", "broken"} : net = << >> /\ link = y } }

\* open, up to the client hello; it closes the last connection first.
Open(offer) ==
  /\ call = Idle /\ conns < MaxConns
  /\ LET c == SendClientHello([ClosedClient(None) EXCEPT !.sock = TRUE], offer)
     IN  cl' = [c EXCEPT !.out = << >>] /\ toServer' = c.out
  /\ call' = Opening /\ status' = "down" /\ link' = "up"
  /\ conns' = conns + 1 /\ sends' = 0
  /\ got' = << >> /\ net' = << >> /\ srv' = NoServer /\ error' = None

\* No address, no socket or no connection.
OpenFails ==
  /\ call = Idle /\ conns < MaxConns
  /\ cl' = ClosedClient(None) /\ error' = "connect"
  /\ status' = "error" /\ conns' = conns + 1 /\ link' = "down"
  /\ got' = << >> /\ net' = << >> /\ toServer' = << >> /\ srv' = NoServer
  /\ UNCHANGED << call, sends >>

\* open's loop: it receives until the handshake has come far enough.
OpenReceive ==
  /\ call = Opening
  /\ \E o \in Outcomes :
       /\ Settle(o.client) /\ net' = o.rest
       /\ call' = IF o.client.err = None /\ ~Online(o.client) THEN call ELSE Idle
       /\ status' = IF o.client.err # None THEN "error"
                    ELSE IF Online(o.client) THEN "up" ELSE status
  /\ UNCHANGED << conns, sends, got >>

\* send of a request that fits one chunk; a failure leaves the socket open.
Send ==
  /\ call = Idle /\ status = "up" /\ sends < MaxSends
  /\ Online(cl)
  /\ Settle(SendPacket(cl, link, "data", Msg("request", sends + 1)))
  /\ sends' = sends + 1
  /\ UNCHANGED << call, conns, got, status, net >>

\* recv, up to its loop: after a close_notify it ends once all has been read.
Recv(size) ==
  /\ call = Idle /\ status = "up"
  /\ IF cl.closeNotify /\ ~Unread(cl)
     THEN /\ Settle(ClosedClient(None)) /\ net' = << >>
          /\ status' = "end" /\ UNCHANGED call
     ELSE /\ call' = << "recv", size >>
          /\ UNCHANGED << cl, net, status, error, link, toServer, srv >>
  /\ UNCHANGED << conns, sends, got >>

Receiving == call \notin {Idle, Opening}

\* recv goes on receiving while there is something to receive.
RecvReceive ==
  /\ Receiving /\ ~cl.closeNotify
  /\ \E o \in Outcomes :
       /\ Settle(o.client) /\ net' = o.rest
       /\ call' = IF o.client.err = None THEN call ELSE Idle
       /\ status' = IF o.client.err = None THEN status ELSE "error"
  /\ UNCHANGED << conns, sends, got >>

\* Mutant: after a close_notify recv ends only with something to return.
RecvReturnNeverEmpty ==
  /\ Receiving
  /\ Unread(cl) /\ (cl.closeNotify \/ ~Signal)
  /\ got' = got \o ReadUnits(cl, call[2])
  /\ cl' = ReadChannel(cl, call[2])
  /\ call' = Idle
  /\ UNCHANGED << conns, sends, status, error, net, toServer, link, srv >>

RecvReturn ==
  /\ Receiving
  /\ cl.closeNotify \/ (Unread(cl) /\ ~Signal)
  /\ got' = got \o ReadUnits(cl, call[2])
  /\ cl' = ReadChannel(cl, call[2])
  /\ call' = Idle
  /\ UNCHANGED << conns, sends, status, error, net, toServer, link, srv >>

\* Nothing came for time_out milliseconds: recv returns -1.
RecvTimeout ==
  /\ Receiving /\ ~cl.closeNotify /\ ~Unread(cl) /\ ~Signal
  /\ call' = Idle
  /\ UNCHANGED << cl, conns, sends, got, status, error, net, toServer, link, srv >>

Close ==
  /\ call = Idle /\ cl.sock
  /\ Settle(ClosedClient(None)) /\ net' = << >> /\ status' = "down"
  /\ UNCHANGED << call, conns, sends, got >>

(* --------------------- the server and the network ------------------------ *)

ServerRecord(s, type, msgs) ==
  LET sealed == s.sealed /\ type # "ccs"
  IN  [ outer |-> IF sealed /\ s.ver = "tls13" THEN "data" ELSE type,
        type |-> type, msgs |-> msgs,
        key |-> IF sealed THEN s.localKey ELSE Plain,
        seq |-> IF sealed THEN s.serverSeq ELSE 0 ]

\* s sends a record of msgs: it is on its way as two units.
Deliver(s, type, msgs) ==
  LET r == ServerRecord(s, type, msgs)
  IN  /\ net' = net \o << r, r >>
      /\ srv' = [s EXCEPT !.serverSeq = IF r.key = Plain THEN @ ELSE @ + 1]

\* The messages of a flight, with the transcript each Finished is made from.
ServerSays(s, names) ==
  FoldLeft(LAMBDA x, name :
             LET m == CASE name = "SH"  -> Msg(name, [rand |-> conns, ver |-> s.ver])
                        [] name = "Fin" -> Msg(name, Verify(s.localKey, x.hash))
                        [] OTHER        -> Msg(name, None)
             IN  [msgs |-> Append(x.msgs, m),
                  hash |-> IF name \in {"CCS", "rest"} THEN x.hash
                           ELSE Append(x.hash, Hashed(m))],
           [msgs |-> << >>, hash |-> s.hash], names)

\* What the server switches to after sending the last of names.
ServerSwitch(s, name, hash) ==
  CASE name = "SH" /\ s.ver = "tls13" ->
         [s EXCEPT !.sealed = TRUE, !.opening = TRUE, !.hash = hash,
                   !.localKey = Key("server", "hs", hash),
                   !.remoteKey = Key("client", "hs", hash)]
    [] name = "CCS" /\ s.ver = "tls12" -> [s EXCEPT !.sealed = TRUE]
    [] name = "Fin" /\ s.ver = "tls13" ->
         [s EXCEPT !.localKey = Key("server", "ap", hash), !.serverSeq = 0,
                   !.hash = hash, !.appHash = hash]
    [] OTHER -> [s EXCEPT !.hash = hash]

\* The messages up to the server's Finished in TLS 1.3, up to its hello done in 1.2.
Flight(ver) ==
  IF ver = "tls13" THEN << "SH", "CCS", "EE", "Cert", "CV", "Fin" >>
                   ELSE << "SH", "Cert", "SKE", "SHD" >>

\* What else they may be. The rest of a Certificate begins with a byte of it that is
\* taken for a message type; were it the awaited one, the next would be out of turn.
OtherFlights(ver) ==
  LET usual == Flight(ver)
      bare == Remove(usual, "CCS")
      rest == IF ver = "tls13" THEN 5 ELSE 3
  IN  { f \in {bare} \cup { InsertAt(bare, i, "CCS") : i \in 3 .. 5 } :
          "ccs" \in ServerMay /\ ver = "tls13" }
      \cup { f \in {InsertAt(usual, 4, "CR")} : "certRequest" \in ServerMay }
      \cup { f \in {InsertAt(usual, rest, "rest")} : "fragment" \in ServerMay }

ServerAnswers(ver, flight) ==
  /\ link = "up" /\ toServer # << >> /\ srv.ver = None
  /\ LET hello == Head(toServer).msgs[1]
         basis == << hello.body.rand, conns >>
     IN  /\ ver \in {"tls12", hello.body.offer}
         /\ srv' = [srv EXCEPT
             !.ver = ver, !.hash = << Hashed(hello) >>,
             !.localKey = Key("server", "12", basis),
             !.remoteKey = Key("client", "12", basis),
             !.flight = flight]
  /\ toServer' = Tail(toServer)
  /\ UNCHANGED << cl, call, conns, sends, got, status, error, net, link >>

ServerHello == \E ver \in {"tls12", "tls13"} : ServerAnswers(ver, Flight(ver))

\* The next messages of the flight in one record, as many as may share one.
ServerFlight ==
  /\ link = "up"
  /\ \E k \in 1 .. Len(srv.flight) :
       LET names == SubSeq(srv.flight, 1, k)
           said == ServerSays(srv, names)
           sent == ServerRecord(srv, IF names = << "CCS" >> THEN "ccs" ELSE "hs",
                                said.msgs)
           after == [srv EXCEPT !.serverSeq = IF sent.key = Plain THEN @ ELSE @ + 1,
                                !.flight = SubSeq(@, k + 1, Len(@))]
       IN  /\ k > 1 => /\ \A i \in 1 .. k : names[i] # "CCS"
                       /\ \A i \in 2 .. k : names[i] # "rest"
                       /\ srv.ver = "tls13" => names[1] # "SH"
           /\ net' = net \o << sent, sent >>
           /\ srv' = [ServerSwitch(after, names[k], said.hash) EXCEPT
                        !.complete = srv.ver = "tls12" /\ names[k] = "Fin"]
  /\ UNCHANGED << cl, call, conns, sends, got, status, error, toServer, link >>

\* The server opens a record of the client and checks it; what it does not
\* accept makes it break off.
ServerReceive ==
  /\ link = "up" /\ toServer # << >> /\ srv.ver # None
  /\ LET r == Head(toServer)
         m == r.msgs[1]
         clear == IsClear(r.type) \/ ~srv.opening
         opens == IF clear THEN r.key = Plain
                  ELSE r.key = srv.remoteKey /\ r.seq = srv.clientSeq
         counted == [srv EXCEPT !.clientSeq = IF clear THEN @ ELSE @ + 1]
         hashed == [counted EXCEPT !.hash = Append(@, Hashed(m))]
         verified == m.name = "Fin" => m.body = Verify(srv.remoteKey, srv.hash)
     IN  /\ srv' = CASE ~opens \/ ~verified -> Gone([srv EXCEPT !.rejected = TRUE])
                     [] opens /\ m.name = "CKE" -> hashed
                     [] opens /\ m.name = "CCS" -> [counted EXCEPT !.opening = TRUE]
                     [] opens /\ verified /\ m.name = "Fin" ->
                          IF srv.ver = "tls12"
                          THEN [hashed EXCEPT !.flight = << "CCS", "Fin" >>]
                          ELSE [counted EXCEPT !.complete = TRUE, !.clientSeq = 0,
                                  !.remoteKey = Key("client", "ap", srv.appHash)]
                     [] OTHER -> counted
         /\ link' = IF opens /\ verified THEN link ELSE "fin"
  /\ toServer' = Tail(toServer)
  /\ UNCHANGED << cl, call, conns, sends, got, status, error, net >>

\* Once it has sent its Finished the server may write data ...
MayWrite == link = "up" /\ ~srv.notified /\
            (srv.appHash # << >> \/ (srv.ver = "tls12" /\ srv.complete))

Unit(i) == Msg("data", << conns, i >>)

ServerData ==
  /\ MayWrite
  /\ \E n \in 1 .. 2 :
       /\ Len(srv.sent) + n <= NData
       /\ LET data == [i \in 1 .. n |-> Unit(Len(srv.sent) + i)]
          IN  Deliver([srv EXCEPT !.sent = @ \o data], "data", data)
  /\ UNCHANGED << cl, call, conns, sends, got, status, error, toServer, link >>

\* ... a session ticket or a warning (TLS 1.3), and close_notify at the end.
ServerTicket ==
  /\ MayWrite /\ srv.complete /\ srv.ver = "tls13" /\ ~srv.extra
  /\ Deliver([srv EXCEPT !.extra = TRUE], "hs", << Msg("NST", None) >>)
  /\ UNCHANGED << cl, call, conns, sends, got, status, error, toServer, link >>

ServerWarns(ver) ==
  /\ MayWrite /\ ~srv.extra /\ srv.ver = ver
  /\ Deliver([srv EXCEPT !.extra = TRUE], "alert", << "warning" >>)
  /\ UNCHANGED << cl, call, conns, sends, got, status, error, toServer, link >>

ServerWarning == ServerWarns("tls13")

ServerNotify ==
  /\ MayWrite
  /\ Deliver([srv EXCEPT !.notified = TRUE], "alert", << "close_notify" >>)
  /\ UNCHANGED << cl, call, conns, sends, got, status, error, toServer, link >>

\* A fatal alert, whatever the state of the handshake, and the end of the stream.
ServerFatal ==
  /\ link = "up" /\ ~srv.notified
  /\ LET r == ServerRecord(srv, "alert", << "fatal" >>) IN net' = net \o << r, r >>
  /\ link' = "fin" /\ srv' = Gone(srv)
  /\ UNCHANGED << cl, call, conns, sends, got, status, error, toServer >>

ServerFin ==
  /\ link = "up" /\ link' = "fin" /\ srv' = Gone(srv) /\ toServer' = << >>
  /\ UNCHANGED << cl, call, conns, sends, got, status, error, net >>

\* The connection is reset: what has not been received is lost.
Break ==
  /\ link \in {"up", "fin"} /\ link' = "broken" /\ net' = << >>
  /\ srv' = Gone(srv) /\ toServer' = << >>
  /\ UNCHANGED << cl, call, conns, sends, got, status, error >>

(* What else a server may do; `course' records it.                           *)

ServerHelloOther ==
  \E ver \in {"tls12", "tls13"} : \E flight \in OtherFlights(ver) :
    ServerAnswers(ver, flight)

\* HelloRetryRequest. As the client has a share for every group it names, all
\* that it can ask for is a cookie.
ServerRetry ==
  /\ link = "up" /\ toServer # << >> /\ srv.ver = None /\ "retry" \in ServerMay
  /\ Head(toServer).msgs[1].body.offer = "tls13"
  /\ Deliver(srv, "hs", << Msg("SH", [rand |-> conns, ver |-> "retry"]) >>)
  /\ toServer' = Tail(toServer)
  /\ UNCHANGED << cl, call, conns, sends, got, status, error, link >>

\* What follows a KeyUpdate is sealed with the next key, from number 0 on.
ServerKeyUpdate ==
  /\ MayWrite /\ srv.complete /\ srv.ver = "tls13" /\ ~srv.extra
  /\ "keyUpdate" \in ServerMay
  /\ LET r == ServerRecord(srv, "hs", << Msg("KU", None) >>) IN net' = net \o << r, r >>
  /\ srv' = [srv EXCEPT !.extra = TRUE, !.serverSeq = 0,
                         !.localKey = Key("server", "next", srv.appHash)]
  /\ UNCHANGED << cl, call, conns, sends, got, status, error, toServer, link >>

\* The client takes the last byte of a record for its type, which is padding here.
ServerPads ==
  /\ MayWrite /\ srv.ver = "tls13" /\ "padding" \in ServerMay
  /\ Len(srv.sent) < NData
  /\ LET data == << Unit(Len(srv.sent) + 1) >>
     IN  Deliver([srv EXCEPT !.sent = @ \o data], "padding", data)
  /\ UNCHANGED << cl, call, conns, sends, got, status, error, toServer, link >>

Usual ==
  \/ \E offer \in Offers : Open(offer)
  \/ OpenFails \/ OpenReceive \/ Send \/ \E size \in ReadSizes : Recv(size)
  \/ RecvReceive \/ RecvReturn \/ RecvTimeout \/ Close
  \/ ServerHello \/ ServerFlight \/ ServerReceive \/ ServerData \/ ServerTicket
  \/ ServerWarning \/ ServerNotify \/ ServerFatal \/ ServerFin \/ Break

Other ==
  \/ ServerHelloOther \/ ServerRetry \/ ServerKeyUpdate \/ ServerPads
  \/ "warning" \in ServerMay /\ ServerWarns("tls12")

Next ==
  \/ Usual /\ UNCHANGED course
  \/ Other /\ course' = "other"

Init ==
  /\ cl = ClosedClient(None) /\ call = Idle /\ conns = 0 /\ sends = 0
  /\ got = << >> /\ status = "down" /\ error = None
  /\ net = << >> /\ toServer = << >> /\ link = "down" /\ srv = NoServer
  /\ course = "usual"

Spec == Init /\ [][Next]_vars

\* The calling thread runs while its call can go on, and the server answers
\* what it has received and ends every connection at some time: open has no
\* time-out, and recv's default is 24 days. Two of the conjuncts are weak
\* fairness with ENABLED written out.
CanReceive ==
  /\ call = Opening \/ (Receiving /\ ~cl.closeNotify)
  /\ \E o \in Outcomes : o.client # cl \/ o.rest # net
ServerCanStep == link = "up" /\ (toServer # << >> \/ srv.flight # << >>)

FairSpec ==
  /\ Spec
  /\ []<>(~CanReceive) \/ []<><<OpenReceive \/ RecvReceive>>_tlsVars
  /\ []<>(~ServerCanStep) \/ []<><<ServerHello \/ ServerFlight \/ ServerReceive>>_tlsVars
  /\ WF_tlsVars(RecvReturn) /\ WF_tlsVars(ServerFin)

(* ------------------------------ properties ------------------------------- *)

\* The object is closed, or open with a state that its handshake can have.
TypeOK ==
  /\ cl.sock = (link # "down") /\ (cl.sock \/ cl = ClosedClient(None))
  /\ cl.idx \in 0 .. 6 /\ cl.cipher \in {None, "tls12", "tls13"}
  /\ cl.readed \in 0 .. Len(cl.channel) /\ Len(cl.recvBuf) \in 0 .. 1
  /\ status \in {"down", "up", "end", "error"} /\ conns \in 0 .. MaxConns
  /\ course \in {"usual", "other"}

Rejected == error \in {"state", "decode", "verify", "parameters"} \/ srv.rejected

\* As long as all servers keep to the usual course, neither end rejects what the
\* other has sent: no wrong state, no record that does not open, no Finished that
\* does not match. It takes both transcripts, both keys, both sequence numbers and
\* the order of key changes and answers to agree through the whole exchange. A
\* server that follows the protocol may leave that course: EveryServerAccepted.
NothingRejected == course = "usual" => ~Rejected

\* tls_client is a byte stream for its caller: per connection, recv returns
\* what the server wrote, in order, once, nothing of an earlier connection, and
\* a connection that ends through close_notify was read to its end. Padded records
\* break it (their bytes are dropped), and so do the warnings of a TLS 1.2 server.
Stream == INSTANCE TlsByteStream WITH sent <- srv.sent
ImplementsStream == Stream!Spec

\* The client says close_notify only when the server has sent one; the comment
\* on the test of the alert's code says it is one.
CloseNotifyIsSent == cl.closeNotify => srv.notified

\* The client gets on with every server that follows the protocol.
EveryServerAccepted == ~Rejected

\* open returns, whatever the server does, if the server goes on or ends.
OpenReturns == (call = Opening) ~> (call # Opening)

\* recv returns: data and close_notify end its loop, and so does the stream's end.
RecvReturns == Receiving ~> ~Receiving
==============================================================================
