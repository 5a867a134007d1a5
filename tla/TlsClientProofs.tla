--------------------------- MODULE TlsClientProofs ---------------------------
(* tls_client and servers that keep to the course of its tables of states      *)
(* (course = "usual") never reject each other, and the client is a byte stream *)
(* for its caller, whatever the pieces the bytes arrive in, whenever the       *)
(* connection ends, and however often the object is opened again. Of a server  *)
(* that does any of ServerMay nothing is proved; section 5 of the README says  *)
(* what the client does then.                                                  *)
(*                                                                             *)
(* The invariant places both ends: the client has heard the                    *)
(* server up to a position x and the server has spoken up to z; the units in   *)
(* recv_buf and on the network lead from x to z; the records the client has    *)
(* sent are a prefix of one sequence of answers, those on their way a slice    *)
(* of it; what is in the channel and what recv has returned are slices of the  *)
(* stream.                                                                     *)
EXTENDS TlsClient, DataLemmas, SequenceTheorems, TLAPS

(* -------------------------- what the two ends say --------------------------- *)

\* The versions, and the fields of the object.
Versions == {"tls12", "tls13"}
Fields == {"sock", "idx", "cipher", "encoding", "clientRand", "serverRand", "clientSeq",
           "serverSeq", "localKey", "remoteKey", "hash", "recvBuf", "channel", "readed",
           "closeNotify", "out", "err"}

\* The transcript after each message, for connection n.
Start(n) == << << "CH", n >> >>
Greeted(n) == Append(Start(n), << "SH", n >>)
To13EE(n) == Append(Greeted(n), << "EE" >>)
To13Cert(n) == Append(To13EE(n), << "Cert" >>)
To13CV(n) == Append(To13Cert(n), << "CV" >>)
To13Fin(n) == Append(To13CV(n), << "Fin" >>)
To12Cert(n) == Append(Greeted(n), << "Cert" >>)
To12SKE(n) == Append(To12Cert(n), << "SKE" >>)
To12SHD(n) == Append(To12SKE(n), << "SHD" >>)
To12CKE(n) == Append(To12SHD(n), << "CKE" >>)
To12Fin(n) == Append(To12CKE(n), << "Fin" >>)

\* The transcript when the client has heard p messages of the server.
Seen(v, n, p) ==
  CASE p = 0 -> Start(n)
    [] p = 1 -> Greeted(n)
    [] v = "tls13" /\ p = 2 -> Greeted(n)
    [] v = "tls13" /\ p = 3 -> To13EE(n)
    [] v = "tls13" /\ p = 4 -> To13Cert(n)
    [] v = "tls13" /\ p = 5 -> To13CV(n)
    [] v = "tls12" /\ p = 2 -> To12Cert(n)
    [] v = "tls12" /\ p = 3 -> To12SKE(n)
    [] OTHER -> To12Fin(n)

\* The keys of a connection.
HsKey(side, n) == Key(side, "hs", Greeted(n))
ApKey(side, n) == Key(side, "ap", To13Fin(n))
Key12(side, n) == Key(side, "12", << n, n >>)

\* The messages the server sends, and the p-th of them on connection n.
Names(v) == StateSeq(v = "tls13")
Said(v, n, p) ==
  Msg(Names(v)[p], CASE p = 1 -> [rand |-> n, ver |-> v]
                     [] p = 6 /\ v = "tls13" -> Verify(HsKey("server", n), To13CV(n))
                     [] p = 6 /\ v = "tls12" -> Verify(Key12("server", n), To12Fin(n))
                     [] OTHER -> None)

\* How far one side of the wire has come: the messages of the handshake, the
\* sealed records since the keys changed, the units of data.
Position == [at : 0 .. 6, seq : Nat, units : Nat]

\* The stream of connection n.
Units(n) == [i \in Nat |-> Msg("data", << n, i >>)]

\* The i-th record the client sends: hello, handshake records, requests.
Answer(v, n, i) ==
  IF v = "tls13"
  THEN CASE i = 2 -> [outer |-> "ccs", type |-> "ccs", msgs |-> << Msg("CCS", None) >>,
                      key |-> Plain, seq |-> 0]
         [] i = 3 -> [outer |-> "data", type |-> "hs",
                      msgs |-> << Msg("Fin", Verify(HsKey("client", n), To13Fin(n))) >>,
                      key |-> HsKey("client", n), seq |-> 0]
         [] OTHER -> [outer |-> "data", type |-> "data", msgs |-> << Msg("request", i - 3) >>,
                      key |-> ApKey("client", n), seq |-> i - 4]
  ELSE CASE i = 2 -> [outer |-> "hs", type |-> "hs", msgs |-> << Msg("CKE", None) >>,
                      key |-> Plain, seq |-> 0]
         [] i = 3 -> [outer |-> "ccs", type |-> "ccs", msgs |-> << Msg("CCS", None) >>,
                      key |-> Plain, seq |-> 0]
         [] i = 4 -> [outer |-> "hs", type |-> "hs",
                      msgs |-> << Msg("Fin", Verify(Key12("client", n), To12CKE(n))) >>,
                      key |-> Key12("client", n), seq |-> 0]
         [] OTHER -> [outer |-> "data", type |-> "data", msgs |-> << Msg("request", i - 4) >>,
                      key |-> Key12("client", n), seq |-> i - 4]
Answers(v, n) == [i \in Nat |-> Answer(v, n, i)]

\* Where in the handshake the client has sent all its answers, and how many
\* records it has sent at position p with k requests.
Turn(v) == IF v = "tls13" THEN 6 ELSE 4
Answered(v, p, k) == IF p < Turn(v) THEN 1 ELSE (IF v = "tls13" THEN 3 ELSE 4) + k

(* ------------------------- the client at a position ------------------------- *)

\* How far the client has come.
ClientAt(c, v, n, x) ==
  /\ c.serverSeq = x.seq /\ c.clientRand = n
  /\ c.idx = (IF v = "tls12" /\ x.at > 4 THEN 4 ELSE x.at)
  /\ c.cipher = (IF x.at = 0 THEN None ELSE v)
  /\ c.encoding = (IF x.at >= (IF v = "tls12" THEN 4 ELSE 1) THEN TRUE ELSE FALSE)
  /\ x.at < 6 => c.hash = Seen(v, n, x.at)
\* Its keys, by version and position.
ClientKeys(c, v, n, x) ==
  /\ v = "tls12" /\ x.at >= 1 => c.serverRand = n
  /\ v = "tls12" /\ x.at >= 3 => c.localKey = Key12("client", n) /\ c.remoteKey = Key12("server", n)
  /\ v = "tls13" /\ x.at \in 1 .. 5 => c.localKey = HsKey("client", n) /\ c.remoteKey = HsKey("server", n)
  /\ v = "tls13" /\ x.at = 6 => c.localKey = ApKey("client", n) /\ c.remoteKey = ApKey("server", n)
\* Its records and the number that seals the next.
Sending(c, v, n, x, b, k) ==
  /\ b <= Answered(v, x.at, k)
  /\ c.out = Slice(Answers(v, n), b, Answered(v, x.at, k) - b)
  /\ x.at < Turn(v) => c.clientSeq = 0 /\ k = 0
  /\ x.at >= Turn(v) => c.clientSeq = Answered(v, x.at, k) - 3
\* What has been received and not returned waits in the channel.
Holds(c, n, g, x) ==
  /\ c.readed \in 0 .. g /\ g <= x.units
  /\ c.channel = Slice(Units(n), g - c.readed, x.units - (g - c.readed))
\* A client that has come to x, has put records on their way beyond the b-th,
\* has sent k requests, returned g units and heard close_notify if q.
Client(c, v, n, x, b, k, g, q) ==
  /\ DOMAIN c = Fields
  /\ c.sock = TRUE /\ c.err = None /\ c.closeNotify = q
  /\ ClientAt(c, v, n, x) /\ ClientKeys(c, v, n, x) /\ Sending(c, v, n, x, b, k)
  /\ Holds(c, n, g, x)

\* The next message of the handshake; TLS 1.3 starts counting again after it.
Moved(v, x) == [at |-> x.at + 1, units |-> x.units,
                seq |-> IF v = "tls13" /\ x.at + 1 = 6 THEN 0 ELSE x.seq]

\* d differs from c in the fields of S at most.
Same(c, d, S) == DOMAIN d = Fields /\ \A f \in Fields \ S : d[f] = c[f]

\* The fields that handling a message of the handshake may change.
Handled == {"idx", "hash"}
Changing == {"idx", "hash", "cipher", "encoding", "localKey", "remoteKey", "serverSeq",
             "serverRand", "out", "clientSeq"}

\* Changes of one part and then another change both at most.
LEMMA SameSame ==
  ASSUME NEW c, NEW d, NEW e, NEW S, NEW T, Same(c, d, S), Same(d, e, T)
  PROVE  Same(c, e, S \cup T)
BY DEF Same

\* What changes a few fields at most changes more of them at most.
LEMMA SameMore ==
  ASSUME NEW c, NEW d, NEW S, NEW T, Same(c, d, S), S \subseteq T
  PROVE  Same(c, d, T)
BY DEF Same

\* A key is not the absence of one.
LEMMA KeyNotPlain ==
  ASSUME NEW side, NEW epoch, NEW basis
  PROVE  Key(side, epoch, basis) # Plain
BY DEF Key, Plain

(* ------------------------ messages of the handshake ------------------------- *)

\* The parts of on_packet: the state counter, and a unit taken in.
Counted(c) == [c EXCEPT !.idx = @ + 1]
NotCounted(c) == [c EXCEPT !.idx = @]
TakenIn(c, m) == [c EXCEPT !.channel = Append(@, m)]

\* on_packet takes a message that the handshake's state expects, and counts it.
LEMMA Checked ==
  ASSUME NEW c, NEW tls13, NEW m, NEW seen, c.err = None, c.idx < StatesCount(tls13),
         StateSeq(tls13)[c.idx + 1] = m.name
  PROVE  /\ OnMessage(c, tls13, "hs", m, seen) = OnHandshake(Counted(c), m)
         /\ OnMessage(c, tls13, "ccs", m, seen) = Counted(c)
BY DEF OnMessage, Counted, NotCounted, TakenIn

\* After the handshake on_packet expects no state and takes every message.
LEMMA Unchecked ==
  ASSUME NEW c, NEW tls13, NEW m, NEW seen, c.err = None, ~(c.idx < StatesCount(tls13))
  PROVE  /\ OnMessage(c, tls13, "hs", m, seen) = OnHandshake(NotCounted(c), m)
         /\ OnMessage(c, tls13, "ccs", m, seen) = NotCounted(c)
         /\ OnMessage(c, tls13, "data", m, seen)
              = TakenIn(NotCounted(c), m)
         /\ OnMessage(c, tls13, "alert", m, seen) = OnAlert(NotCounted(c), seen)
BY DEF OnMessage, Counted, NotCounted, TakenIn

\* The handler on_packet calls for each handshake message.
LEMMA OfHandshake ==
  ASSUME NEW c, NEW m
  PROVE  /\ m.name \notin {"SH", "SKE", "SHD", "Fin"} => OnHandshake(c, m) = UpdateHash(c, m)
         /\ m.name = "SH" => OnHandshake(c, m) = OnServerHello(UpdateHash(c, m), m)
         /\ m.name = "SKE" => OnHandshake(c, m) = OnServerKeyExchange(UpdateHash(c, m))
         /\ m.name = "SHD" => OnHandshake(c, m) = OnServerHelloDone(UpdateHash(c, m))
         /\ m.name = "Fin" => OnHandshake(c, m) = OnFinished(c, m)
BY DEF OnHandshake

\* The state counter goes up by one, or stays, and nothing else changes.
LEMMA Counting ==
  ASSUME NEW c, DOMAIN c = Fields
  PROVE  /\ Counted(c).idx = c.idx + 1 /\ Same(c, Counted(c), {"idx"})
         /\ NotCounted(c).idx = c.idx /\ Same(c, NotCounted(c), {"idx"})
BY DEF Fields, Same, Counted, NotCounted

\* update_hash extends the transcript and changes nothing else.
LEMMA Hashing ==
  ASSUME NEW c, DOMAIN c = Fields, NEW m
  PROVE  /\ UpdateHash(c, m).hash = Append(c.hash, Hashed(m))
         /\ Same(c, UpdateHash(c, m), {"hash"})
<1> DEFINE h == Hashed(m)
<1> HIDE DEF h
<1>1. LET d == [c EXCEPT !.hash = Append(@, h)]
      IN  d.hash = Append(c.hash, h) /\ Same(c, d, {"hash"})
  BY DEF Fields, Same
<1> QED
  BY <1>1 DEF UpdateHash, h

\* c sends a record r of one message.
Sent(c, d, r, type, msg) ==
  /\ Same(c, d, {"out", "hash", "clientSeq"})
  /\ d.out = Append(c.out, r)
  /\ d.hash = IF type = "hs" THEN Append(c.hash, Hashed(msg)) ELSE c.hash
  /\ d.clientSeq = IF r.key = Plain THEN c.clientSeq ELSE c.clientSeq + 1

\* send_packet on a link that is not broken sends one record.
LEMMA SendingPacket ==
  ASSUME NEW c, DOMAIN c = Fields, c.err = None, NEW on, on # "broken", NEW type, NEW msg
  PROVE  Sent(c, SendPacket(c, on, type, msg), Encode(c, type, << msg >>), type, msg)
<1> DEFINE h == IF type = "hs" THEN UpdateHash(c, msg) ELSE c
           r == Encode(h, type, << msg >>)
           d == PutOut(h, r)
<1>1. /\ Same(c, h, {"hash"})
      /\ h.hash = IF type = "hs" THEN Append(c.hash, Hashed(msg)) ELSE c.hash
  <2>1. CASE type = "hs"
    BY <2>1, Hashing
  <2>2. CASE type # "hs"
    BY <2>2 DEF Same
  <2> QED
    BY <2>1, <2>2
<1>2. SendPacket(c, on, type, msg) = d
  BY DEF SendPacket
<1>3. r = Encode(c, type, << msg >>)
  <2> HIDE DEF h
  <2>1. /\ h.encoding = c.encoding /\ h.cipher = c.cipher /\ h.localKey = c.localKey
        /\ h.clientSeq = c.clientSeq
    BY <1>1 DEF Same, Fields
  <2> QED
    BY <2>1 DEF Encode
<1> HIDE DEF h, r
<1>4. /\ Same(h, d, {"out", "clientSeq"})
      /\ d.out = Append(h.out, r)
      /\ d.clientSeq = IF r.key = Plain THEN h.clientSeq ELSE h.clientSeq + 1
  <2>1. DOMAIN h = Fields
    BY <1>1 DEF Same
  <2> QED
    BY <2>1 DEF Same, Fields, PutOut
<1> HIDE DEF d
<1>5. h.out = c.out /\ h.clientSeq = c.clientSeq /\ d.hash = h.hash
  BY <1>1, <1>4 DEF Same, Fields
<1>6. Same(c, d, {"hash"} \cup {"out", "clientSeq"})
  BY <1>1, <1>4, SameSame
<1>7. {"hash"} \cup {"out", "clientSeq"} = {"out", "hash", "clientSeq"}
  OBVIOUS
<1> QED
  BY <1>1, <1>2, <1>3, <1>4, <1>5, <1>6, <1>7 DEF Sent

\* send_packet before encryption is on, or of a record that is never sealed.
LEMMA SendingClear ==
  ASSUME NEW c, DOMAIN c = Fields, c.err = None, NEW on, on # "broken", NEW type, NEW msg,
         c.encoding = FALSE \/ IsClear(type),
         NEW r, r = [outer |-> type, type |-> type, msgs |-> << msg >>, key |-> Plain, seq |-> 0]
  PROVE  Sent(c, SendPacket(c, on, type, msg), r, type, msg)
<1>1. Encode(c, type, << msg >>) = r
  BY DEF Encode
<1> QED
  BY <1>1, SendingPacket

\* send_packet with encryption on seals with the client's key and number.
LEMMA SendingSealed ==
  ASSUME NEW c, DOMAIN c = Fields, c.err = None, NEW on, on # "broken", NEW type, NEW msg,
         c.encoding = TRUE, ~IsClear(type), c.localKey # Plain,
         NEW r, r = [outer |-> IF c.cipher = "tls13" THEN "data" ELSE type, type |-> type,
                     msgs |-> << msg >>, key |-> c.localKey, seq |-> c.clientSeq]
  PROVE  Sent(c, SendPacket(c, on, type, msg), r, type, msg)
<1>1. Encode(c, type, << msg >>) = r
  BY DEF Encode
<1> QED
  BY <1>1, SendingPacket

\* What handling a handshake message leaves alone.
LEMMA Untouched ==
  ASSUME NEW c, NEW d, Same(c, d, Changing)
  PROVE  /\ DOMAIN d = Fields /\ d.sock = c.sock /\ d.err = c.err
         /\ d.closeNotify = c.closeNotify /\ d.clientRand = c.clientRand
         /\ d.readed = c.readed /\ d.channel = c.channel /\ d.recvBuf = c.recvBuf
BY DEF Same, Changing, Fields

\* A client of which all that changes agrees.
LEMMA Assembled ==
  ASSUME NEW c, NEW d, NEW v, NEW n, NEW x, NEW y, NEW b, NEW k, NEW g, NEW q,
         Client(c, v, n, x, b, k, g, q), Same(c, d, Changing), y.units = x.units,
         ClientAt(d, v, n, y), ClientKeys(d, v, n, y), Sending(d, v, n, y, b, k)
  PROVE  Client(d, v, n, y, b, k, g, q)
<1>1. /\ DOMAIN d = Fields /\ d.sock = c.sock /\ d.err = c.err
      /\ d.closeNotify = c.closeNotify
      /\ d.readed = c.readed /\ d.channel = c.channel
  BY Untouched
<1>2. Holds(d, n, g, y)
  BY <1>1 DEF Holds, Client
<1> QED
  BY <1>1, <1>2 DEF Client

\* A message that changes only the state counter and the transcript.
LEMMA QuietMessage ==
  ASSUME NEW c, NEW d, NEW v \in Versions, NEW n \in Nat, NEW x \in Position,
         NEW b \in Nat, NEW k \in Nat, NEW g \in Nat, NEW q, Client(c, v, n, x, b, k, g, q),
         v = "tls13" => x.at \in 1 .. 4, v = "tls12" => x.at \in {1, 4, 5},
         Same(c, d, Handled), d.idx = (IF v = "tls12" /\ x.at >= 4 THEN 4 ELSE x.at + 1),
         x.at + 1 < 6 => d.hash = Seen(v, n, x.at + 1)
  PROVE  Client(d, v, n, Moved(v, x), b, k, g, q)
<1> DEFINE y == Moved(v, x)
<1>1. y.at = x.at + 1 /\ y.units = x.units /\ y.seq = x.seq
  BY DEF Moved, Versions
<1>2. /\ d.cipher = c.cipher /\ d.encoding = c.encoding /\ d.serverSeq = c.serverSeq
      /\ d.localKey = c.localKey /\ d.remoteKey = c.remoteKey /\ d.out = c.out
      /\ d.clientSeq = c.clientSeq /\ d.serverRand = c.serverRand /\ d.clientRand = c.clientRand
  BY DEF Same, Handled, Fields
<1>3. Same(c, d, Changing)
  BY SameMore DEF Handled, Changing
<1>4. v \in {"tls12", "tls13"} /\ x.at \in 1 .. 5
  BY DEF Versions
<1> HIDE DEF y
<1>5. ClientAt(d, v, n, y)
  BY <1>1, <1>2, <1>4 DEF Client, ClientAt
<1>6. ClientKeys(d, v, n, y)
  BY <1>1, <1>2, <1>4 DEF Client, ClientKeys
<1>7. Sending(d, v, n, y, b, k)
  BY <1>1, <1>2, <1>4 DEF Client, Sending, Answered, Turn
<1> QED
  BY <1>1, <1>3, <1>5, <1>6, <1>7, Assembled DEF y

\* TLS 1.3: the server's change_cipher_spec only counts.
LEMMA HearsChange13 ==
  ASSUME NEW c, NEW n \in Nat, NEW x \in Position, NEW b \in Nat, NEW k \in Nat,
         NEW g \in Nat, NEW q, NEW seen, x.at = 1, Client(c, "tls13", n, x, b, k, g, q)
  PROVE  Client(OnMessage(c, TRUE, "ccs", Said("tls13", n, 2), seen),
                "tls13", n, Moved("tls13", x), b, k, g, q)
<1> DEFINE m == Said("tls13", n, 2)
           d == OnMessage(c, TRUE, "ccs", m, seen)
           c1 == Counted(c)
<1>1. DOMAIN c = Fields /\ c.err = None /\ c.idx = 1 /\ c.hash = Greeted(n)
  BY DEF Client, ClientAt, Seen
<1>2. m.name = "CCS" /\ StateSeq(TRUE)[2] = "CCS"
  BY DEF Said, Msg, Names, StateSeq
<1> HIDE DEF m
<1>0. c.idx < StatesCount(TRUE) /\ StateSeq(TRUE)[c.idx + 1] = m.name
  <2>1. c.idx + 1 = 2 /\ c.idx < StatesCount(TRUE)
    BY <1>1 DEF StatesCount
  <2> QED
    BY <1>2, <2>1
<1>3. d = c1
  BY <1>0, <1>1, Checked
<1>4. c1.idx = 2 /\ Same(c, c1, {"idx"})
  BY <1>1, Counting
<1> HIDE DEF c1, d
<1>5. d.idx = 2 /\ d.hash = c.hash /\ Same(c, d, Handled)
  BY <1>3, <1>4 DEF Same, Fields, Handled
<1>6. d.hash = Seen("tls13", n, 2)
  BY <1>1, <1>5 DEF Seen
<1>10. Client(d, "tls13", n, Moved("tls13", x), b, k, g, q)
  <2>1. "tls13" \in Versions /\ ("tls13" = "tls13" => x.at \in 1 .. 4)
        /\ ("tls13" = "tls12" => x.at \in {1, 4, 5})
    BY DEF Versions
  <2>2. d.idx = (IF "tls13" = "tls12" /\ x.at >= 4 THEN 4 ELSE x.at + 1)
        /\ d.hash = Seen("tls13", n, x.at + 1)
    BY <1>5, <1>6
  <2> QED
    BY <1>5, <2>1, <2>2, QuietMessage
<1> QED
  BY <1>10 DEF d, m

\* TLS 1.3: encrypted_extensions.
LEMMA HearsExtensions ==
  ASSUME NEW c, NEW n \in Nat, NEW x \in Position, NEW b \in Nat, NEW k \in Nat,
         NEW g \in Nat, NEW q, NEW seen, x.at = 2, Client(c, "tls13", n, x, b, k, g, q)
  PROVE  Client(OnMessage(c, TRUE, "hs", Said("tls13", n, 3), seen),
                "tls13", n, Moved("tls13", x), b, k, g, q)
<1> DEFINE m == Said("tls13", n, 3)
           d == OnMessage(c, TRUE, "hs", m, seen)
           c1 == Counted(c)
<1>1. DOMAIN c = Fields /\ c.err = None /\ c.idx = 2 /\ c.hash = Greeted(n)
  BY DEF Client, ClientAt, Seen
<1>2. m.name = "EE" /\ Hashed(m) = << "EE" >> /\ StateSeq(TRUE)[3] = "EE"
  BY DEF Said, Msg, Names, StateSeq, Hashed
<1> HIDE DEF m
<1>0. c.idx < StatesCount(TRUE) /\ StateSeq(TRUE)[c.idx + 1] = m.name
  <2>1. c.idx + 1 = 3 /\ c.idx < StatesCount(TRUE)
    BY <1>1 DEF StatesCount
  <2> QED
    BY <1>2, <2>1
<1>3. d = OnHandshake(c1, m)
  BY <1>0, <1>1, Checked
<1>4. d = UpdateHash(c1, m)
  BY <1>2, <1>3, OfHandshake
<1>5. c1.idx = 3 /\ Same(c, c1, {"idx"}) /\ DOMAIN c1 = Fields
  BY <1>1, Counting DEF Same
<1> HIDE DEF c1
<1>6. d.hash = Append(c1.hash, << "EE" >>) /\ Same(c1, d, {"hash"})
  BY <1>2, <1>4, <1>5, Hashing
<1> HIDE DEF d
<1>7. d.idx = 3 /\ d.hash = Append(c.hash, << "EE" >>)
  BY <1>5, <1>6 DEF Same, Fields
<1>8. Same(c, d, Handled)
  BY <1>5, <1>6 DEF Same, Handled
<1>9. d.hash = Seen("tls13", n, 3)
  BY <1>1, <1>7 DEF Seen, To13EE
<1>10. Client(d, "tls13", n, Moved("tls13", x), b, k, g, q)
  <2>1. "tls13" \in Versions /\ ("tls13" = "tls13" => x.at \in 1 .. 4)
        /\ ("tls13" = "tls12" => x.at \in {1, 4, 5})
    BY DEF Versions
  <2>2. d.idx = (IF "tls13" = "tls12" /\ x.at >= 4 THEN 4 ELSE x.at + 1)
        /\ d.hash = Seen("tls13", n, x.at + 1)
    BY <1>7, <1>9
  <2> QED
    BY <1>8, <2>1, <2>2, QuietMessage
<1> QED
  BY <1>10 DEF d, m

\* TLS 1.3: the certificate.
LEMMA HearsCertificate13 ==
  ASSUME NEW c, NEW n \in Nat, NEW x \in Position, NEW b \in Nat, NEW k \in Nat,
         NEW g \in Nat, NEW q, NEW seen, x.at = 3, Client(c, "tls13", n, x, b, k, g, q)
  PROVE  Client(OnMessage(c, TRUE, "hs", Said("tls13", n, 4), seen),
                "tls13", n, Moved("tls13", x), b, k, g, q)
<1> DEFINE m == Said("tls13", n, 4)
           d == OnMessage(c, TRUE, "hs", m, seen)
           c1 == Counted(c)
<1>1. DOMAIN c = Fields /\ c.err = None /\ c.idx = 3 /\ c.hash = To13EE(n)
  BY DEF Client, ClientAt, Seen
<1>2. m.name = "Cert" /\ Hashed(m) = << "Cert" >> /\ StateSeq(TRUE)[4] = "Cert"
  BY DEF Said, Msg, Names, StateSeq, Hashed
<1> HIDE DEF m
<1>0. c.idx < StatesCount(TRUE) /\ StateSeq(TRUE)[c.idx + 1] = m.name
  <2>1. c.idx + 1 = 4 /\ c.idx < StatesCount(TRUE)
    BY <1>1 DEF StatesCount
  <2> QED
    BY <1>2, <2>1
<1>3. d = OnHandshake(c1, m)
  BY <1>0, <1>1, Checked
<1>4. d = UpdateHash(c1, m)
  BY <1>2, <1>3, OfHandshake
<1>5. c1.idx = 4 /\ Same(c, c1, {"idx"}) /\ DOMAIN c1 = Fields
  BY <1>1, Counting DEF Same
<1> HIDE DEF c1
<1>6. d.hash = Append(c1.hash, << "Cert" >>) /\ Same(c1, d, {"hash"})
  BY <1>2, <1>4, <1>5, Hashing
<1> HIDE DEF d
<1>7. d.idx = 4 /\ d.hash = Append(c.hash, << "Cert" >>)
  BY <1>5, <1>6 DEF Same, Fields
<1>8. Same(c, d, Handled)
  BY <1>5, <1>6 DEF Same, Handled
<1>9. d.hash = Seen("tls13", n, 4)
  BY <1>1, <1>7 DEF Seen, To13Cert
<1>10. Client(d, "tls13", n, Moved("tls13", x), b, k, g, q)
  <2>1. "tls13" \in Versions /\ ("tls13" = "tls13" => x.at \in 1 .. 4)
        /\ ("tls13" = "tls12" => x.at \in {1, 4, 5})
    BY DEF Versions
  <2>2. d.idx = (IF "tls13" = "tls12" /\ x.at >= 4 THEN 4 ELSE x.at + 1)
        /\ d.hash = Seen("tls13", n, x.at + 1)
    BY <1>7, <1>9
  <2> QED
    BY <1>8, <2>1, <2>2, QuietMessage
<1> QED
  BY <1>10 DEF d, m

\* TLS 1.3: certificate_verify.
LEMMA HearsVerify ==
  ASSUME NEW c, NEW n \in Nat, NEW x \in Position, NEW b \in Nat, NEW k \in Nat,
         NEW g \in Nat, NEW q, NEW seen, x.at = 4, Client(c, "tls13", n, x, b, k, g, q)
  PROVE  Client(OnMessage(c, TRUE, "hs", Said("tls13", n, 5), seen),
                "tls13", n, Moved("tls13", x), b, k, g, q)
<1> DEFINE m == Said("tls13", n, 5)
           d == OnMessage(c, TRUE, "hs", m, seen)
           c1 == Counted(c)
<1>1. DOMAIN c = Fields /\ c.err = None /\ c.idx = 4 /\ c.hash = To13Cert(n)
  BY DEF Client, ClientAt, Seen
<1>2. m.name = "CV" /\ Hashed(m) = << "CV" >> /\ StateSeq(TRUE)[5] = "CV"
  BY DEF Said, Msg, Names, StateSeq, Hashed
<1> HIDE DEF m
<1>0. c.idx < StatesCount(TRUE) /\ StateSeq(TRUE)[c.idx + 1] = m.name
  <2>1. c.idx + 1 = 5 /\ c.idx < StatesCount(TRUE)
    BY <1>1 DEF StatesCount
  <2> QED
    BY <1>2, <2>1
<1>3. d = OnHandshake(c1, m)
  BY <1>0, <1>1, Checked
<1>4. d = UpdateHash(c1, m)
  BY <1>2, <1>3, OfHandshake
<1>5. c1.idx = 5 /\ Same(c, c1, {"idx"}) /\ DOMAIN c1 = Fields
  BY <1>1, Counting DEF Same
<1> HIDE DEF c1
<1>6. d.hash = Append(c1.hash, << "CV" >>) /\ Same(c1, d, {"hash"})
  BY <1>2, <1>4, <1>5, Hashing
<1> HIDE DEF d
<1>7. d.idx = 5 /\ d.hash = Append(c.hash, << "CV" >>)
  BY <1>5, <1>6 DEF Same, Fields
<1>8. Same(c, d, Handled)
  BY <1>5, <1>6 DEF Same, Handled
<1>9. d.hash = Seen("tls13", n, 5)
  BY <1>1, <1>7 DEF Seen, To13CV
<1>10. Client(d, "tls13", n, Moved("tls13", x), b, k, g, q)
  <2>1. "tls13" \in Versions /\ ("tls13" = "tls13" => x.at \in 1 .. 4)
        /\ ("tls13" = "tls12" => x.at \in {1, 4, 5})
    BY DEF Versions
  <2>2. d.idx = (IF "tls13" = "tls12" /\ x.at >= 4 THEN 4 ELSE x.at + 1)
        /\ d.hash = Seen("tls13", n, x.at + 1)
    BY <1>7, <1>9
  <2> QED
    BY <1>8, <2>1, <2>2, QuietMessage
<1> QED
  BY <1>10 DEF d, m

\* TLS 1.2: the certificate.
LEMMA HearsCertificate12 ==
  ASSUME NEW c, NEW n \in Nat, NEW x \in Position, NEW b \in Nat, NEW k \in Nat,
         NEW g \in Nat, NEW q, NEW seen, x.at = 1, Client(c, "tls12", n, x, b, k, g, q)
  PROVE  Client(OnMessage(c, FALSE, "hs", Said("tls12", n, 2), seen),
                "tls12", n, Moved("tls12", x), b, k, g, q)
<1> DEFINE m == Said("tls12", n, 2)
           d == OnMessage(c, FALSE, "hs", m, seen)
           c1 == Counted(c)
<1>1. DOMAIN c = Fields /\ c.err = None /\ c.idx = 1 /\ c.hash = Greeted(n)
  BY DEF Client, ClientAt, Seen
<1>2. m.name = "Cert" /\ Hashed(m) = << "Cert" >> /\ StateSeq(FALSE)[2] = "Cert"
  BY DEF Said, Msg, Names, StateSeq, Hashed
<1> HIDE DEF m
<1>0. c.idx < StatesCount(FALSE) /\ StateSeq(FALSE)[c.idx + 1] = m.name
  <2>1. c.idx + 1 = 2 /\ c.idx < StatesCount(FALSE)
    BY <1>1 DEF StatesCount
  <2> QED
    BY <1>2, <2>1
<1>3. d = OnHandshake(c1, m)
  BY <1>0, <1>1, Checked
<1>4. d = UpdateHash(c1, m)
  BY <1>2, <1>3, OfHandshake
<1>5. c1.idx = 2 /\ Same(c, c1, {"idx"}) /\ DOMAIN c1 = Fields
  BY <1>1, Counting DEF Same
<1> HIDE DEF c1
<1>6. d.hash = Append(c1.hash, << "Cert" >>) /\ Same(c1, d, {"hash"})
  BY <1>2, <1>4, <1>5, Hashing
<1> HIDE DEF d
<1>7. d.idx = 2 /\ d.hash = Append(c.hash, << "Cert" >>)
  BY <1>5, <1>6 DEF Same, Fields
<1>8. Same(c, d, Handled)
  BY <1>5, <1>6 DEF Same, Handled
<1>9. d.hash = Seen("tls12", n, 2)
  BY <1>1, <1>7 DEF Seen, To12Cert
<1>10. Client(d, "tls12", n, Moved("tls12", x), b, k, g, q)
  <2>1. "tls12" \in Versions /\ ("tls12" = "tls13" => x.at \in 1 .. 4)
        /\ ("tls12" = "tls12" => x.at \in {1, 4, 5})
    BY DEF Versions
  <2>2. d.idx = (IF "tls12" = "tls12" /\ x.at >= 4 THEN 4 ELSE x.at + 1)
        /\ d.hash = Seen("tls12", n, x.at + 1)
    BY <1>7, <1>9
  <2> QED
    BY <1>8, <2>1, <2>2, QuietMessage
<1> QED
  BY <1>10 DEF d, m

\* What on_server_hello sets, for either version.
LEMMA AtServerHello ==
  ASSUME NEW c, DOMAIN c = Fields, NEW m
  PROVE  LET d == OnServerHello(c, m)
         IN  /\ m.body.ver = "tls13" =>
                  /\ d.cipher = "tls13" /\ d.encoding = TRUE
                  /\ d.localKey = Key("client", "hs", c.hash)
                  /\ d.remoteKey = Key("server", "hs", c.hash)
                  /\ Same(c, d, {"cipher", "encoding", "localKey", "remoteKey"})
             /\ m.body.ver = "tls12" =>
                  /\ d.cipher = "tls12" /\ d.serverRand = m.body.rand
                  /\ Same(c, d, {"cipher", "serverRand"})
<1> DEFINE e == [c EXCEPT !.cipher = m.body.ver]
           f == Tls13ComputeKey(e, "hs", e.hash)
           d == OnServerHello(c, m)
<1>1. e.cipher = m.body.ver /\ Same(c, e, {"cipher"})
  BY DEF Same, Fields
<1>2. /\ m.body.ver = "tls13" => d = [f EXCEPT !.encoding = TRUE]
      /\ m.body.ver = "tls12" => d = [e EXCEPT !.serverRand = m.body.rand]
  BY DEF OnServerHello
<1> HIDE DEF d, e
<1>3. DOMAIN e = Fields /\ e.hash = c.hash
  BY <1>1 DEF Same, Fields
<1>4. /\ f.localKey = Key("client", "hs", c.hash) /\ f.remoteKey = Key("server", "hs", c.hash)
      /\ Same(e, f, {"localKey", "remoteKey"})
  BY <1>3 DEF Same, Fields, Tls13ComputeKey
<1> HIDE DEF f
<1>5. CASE m.body.ver = "tls13"
  <2>1. DOMAIN f = Fields
    BY <1>4 DEF Same
  <2>2. d.encoding = TRUE /\ Same(f, d, {"encoding"})
    BY <1>2, <1>5, <2>1 DEF Same, Fields
  <2>3. d.cipher = f.cipher /\ f.cipher = e.cipher /\ d.localKey = f.localKey /\ d.remoteKey = f.remoteKey
    BY <1>4, <2>2 DEF Same, Fields
  <2>4. Same(c, d, {"cipher", "encoding", "localKey", "remoteKey"})
    BY <1>1, <1>4, <2>2 DEF Same
  <2> QED
    BY <1>1, <1>4, <1>5, <2>2, <2>3, <2>4 DEF d
<1>6. CASE m.body.ver = "tls12"
  <2>1. d.serverRand = m.body.rand /\ Same(e, d, {"serverRand"})
    BY <1>2, <1>3, <1>6 DEF Same, Fields
  <2>2. d.cipher = e.cipher
    BY <2>1 DEF Same, Fields
  <2>3. Same(c, d, {"cipher", "serverRand"})
    BY <1>1, <2>1 DEF Same
  <2> QED
    BY <1>1, <1>6, <2>1, <2>2, <2>3 DEF d
<1> QED
  BY <1>5, <1>6 DEF d

\* The server hello chooses the version; TLS 1.3 derives its handshake keys.
LEMMA HearsHello ==
  ASSUME NEW c, NEW v \in Versions, NEW n \in Nat, NEW x \in Position, NEW b \in Nat,
         NEW k \in Nat, NEW g \in Nat, NEW q, NEW seen, x.at = 0, Client(c, v, n, x, b, k, g, q)
  PROVE  Client(OnMessage(c, FALSE, "hs", Said(v, n, 1), seen), v, n, Moved(v, x), b, k, g, q)
<1> DEFINE m == Said(v, n, 1)
           d == OnMessage(c, FALSE, "hs", m, seen)
           c1 == Counted(c)
           c2 == UpdateHash(c1, m)
           y == Moved(v, x)
<1>1. /\ DOMAIN c = Fields /\ c.err = None /\ c.idx = 0 /\ c.hash = Start(n)
      /\ c.encoding = FALSE
  BY DEF Client, ClientAt, Seen, Versions
<1>2. /\ m.name = "SH" /\ m.body.ver = v /\ m.body.rand = n /\ StateSeq(FALSE)[1] = "SH"
      /\ Hashed(m) = << "SH", n >>
  <2>1. m.name = "SH" /\ m.body = [rand |-> n, ver |-> v] /\ StateSeq(FALSE)[1] = "SH"
    BY DEF Said, Msg, Names, StateSeq, Versions
  <2> HIDE DEF m
  <2>2. m.body.ver = v /\ m.body.rand = n
    BY <2>1
  <2>3. Hashed(m) = << m.name, m.body.rand >>
    BY <2>1, Zenon DEF Hashed
  <2> QED
    BY <2>1, <2>2, <2>3
<1> HIDE DEF m
<1>3. c.idx < StatesCount(FALSE) /\ StateSeq(FALSE)[c.idx + 1] = m.name
  <2>1. c.idx + 1 = 1 /\ c.idx < StatesCount(FALSE)
    BY <1>1 DEF StatesCount
  <2> QED
    BY <1>2, <2>1
<1>4. d = OnHandshake(c1, m)
  BY <1>1, <1>3, Checked
<1>5. d = OnServerHello(c2, m)
  BY <1>2, <1>4, OfHandshake
<1>6. c1.idx = 1 /\ Same(c, c1, {"idx"}) /\ DOMAIN c1 = Fields
  BY <1>1, Counting DEF Same
<1> HIDE DEF c1
<1>7. c2.hash = Append(c1.hash, << "SH", n >>) /\ Same(c1, c2, {"hash"}) /\ DOMAIN c2 = Fields
  BY <1>2, <1>6, Hashing DEF Same
<1> HIDE DEF c2, d
<1>8. c2.idx = 1 /\ c2.hash = Greeted(n) /\ Same(c, c2, Handled)
  <2>1. c2.idx = c1.idx /\ c1.hash = c.hash
    BY <1>6, <1>7 DEF Same, Fields
  <2>2. Same(c, c2, Handled)
    BY <1>6, <1>7 DEF Same, Handled
  <2> QED
    BY <1>1, <1>6, <1>7, <2>1, <2>2 DEF Greeted
<1>9. y.at = 1 /\ y.units = x.units /\ y.seq = x.seq
  BY DEF Moved
<1> HIDE DEF y
<1>10. CASE v = "tls13"
  <2>1. /\ d.cipher = "tls13" /\ d.encoding = TRUE
        /\ d.localKey = HsKey("client", n) /\ d.remoteKey = HsKey("server", n)
        /\ Same(c2, d, {"cipher", "encoding", "localKey", "remoteKey"})
    BY <1>2, <1>5, <1>7, <1>8, <1>10, AtServerHello DEF HsKey
  <2>2. /\ d.idx = 1 /\ d.hash = Greeted(n) /\ d.out = c.out /\ d.clientSeq = c.clientSeq
        /\ d.serverSeq = c.serverSeq /\ d.clientRand = c.clientRand
    BY <1>8, <2>1 DEF Same, Fields, Handled
  <2>3. Same(c, d, Changing)
    BY <1>8, <2>1 DEF Same, Changing, Handled
  <2>4. ClientAt(d, v, n, y)
    <3>1. c.serverSeq = x.seq /\ c.clientRand = n
      BY DEF Client, ClientAt
    <3>2. Seen(v, n, 1) = Greeted(n)
      BY DEF Seen
    <3>3. /\ y.at >= (IF v = "tls12" THEN 4 ELSE 1) /\ ~(v = "tls12" /\ y.at > 4) /\ y.at # 0
      BY <1>9, <1>10
    <3> QED
      BY <1>9, <1>10, <2>1, <2>2, <3>1, <3>2, <3>3 DEF ClientAt
  <2>5. ClientKeys(d, v, n, y)
    BY <1>9, <1>10, <2>1 DEF ClientKeys
  <2>6. Sending(d, v, n, y, b, k)
    BY <1>9, <1>10, <2>2 DEF Client, Sending, Answered, Turn
  <2> QED
    BY <1>9, <2>3, <2>4, <2>5, <2>6, Assembled DEF d, m, y
<1>11. CASE v = "tls12"
  <2>1. d.cipher = "tls12" /\ d.serverRand = n /\ Same(c2, d, {"cipher", "serverRand"})
    BY <1>2, <1>5, <1>7, <1>11, AtServerHello
  <2>2. /\ d.idx = 1 /\ d.hash = Greeted(n) /\ d.out = c.out /\ d.clientSeq = c.clientSeq
        /\ d.serverSeq = c.serverSeq /\ d.clientRand = c.clientRand /\ d.encoding = c.encoding
    BY <1>8, <2>1 DEF Same, Fields, Handled
  <2>3. Same(c, d, Changing)
    BY <1>8, <2>1 DEF Same, Changing, Handled
  <2>4. ClientAt(d, v, n, y)
    BY <1>1, <1>9, <1>11, <2>1, <2>2 DEF Client, ClientAt, Seen
  <2>5. ClientKeys(d, v, n, y)
    BY <1>9, <1>11, <2>1 DEF ClientKeys
  <2>6. Sending(d, v, n, y, b, k)
    BY <1>9, <1>11, <2>2 DEF Client, Sending, Answered, Turn
  <2> QED
    BY <1>9, <2>3, <2>4, <2>5, <2>6, Assembled DEF d, m, y
<1> QED
  BY <1>10, <1>11 DEF Versions

\* TLS 1.2: server_key_exchange derives the keys from the two random values.
LEMMA HearsKeyExchange ==
  ASSUME NEW c, NEW n \in Nat, NEW x \in Position, NEW b \in Nat, NEW k \in Nat,
         NEW g \in Nat, NEW q, NEW seen, x.at = 2, Client(c, "tls12", n, x, b, k, g, q)
  PROVE  Client(OnMessage(c, FALSE, "hs", Said("tls12", n, 3), seen),
                "tls12", n, Moved("tls12", x), b, k, g, q)
<1> DEFINE m == Said("tls12", n, 3)
           d == OnMessage(c, FALSE, "hs", m, seen)
           c1 == Counted(c)
           c2 == UpdateHash(c1, m)
           y == Moved("tls12", x)
<1>1. /\ DOMAIN c = Fields /\ c.err = None /\ c.idx = 2 /\ c.hash = To12Cert(n)
      /\ c.encoding = FALSE /\ c.serverRand = n /\ c.clientRand = n
  BY DEF Client, ClientAt, ClientKeys, Seen
<1>2. m.name = "SKE" /\ Hashed(m) = << "SKE" >> /\ StateSeq(FALSE)[3] = "SKE"
  BY DEF Said, Msg, Names, StateSeq, Hashed
<1> HIDE DEF m
<1>3. c.idx < StatesCount(FALSE) /\ StateSeq(FALSE)[c.idx + 1] = m.name
  <2>1. c.idx + 1 = 3 /\ c.idx < StatesCount(FALSE)
    BY <1>1 DEF StatesCount
  <2> QED
    BY <1>2, <2>1
<1>4. d = OnHandshake(c1, m)
  BY <1>1, <1>3, Checked
<1>5. d = OnServerKeyExchange(c2)
  BY <1>2, <1>4, OfHandshake
<1>6. c1.idx = 3 /\ Same(c, c1, {"idx"}) /\ DOMAIN c1 = Fields
  BY <1>1, Counting DEF Same
<1> HIDE DEF c1
<1>7. c2.hash = Append(c1.hash, << "SKE" >>) /\ Same(c1, c2, {"hash"}) /\ DOMAIN c2 = Fields
  BY <1>2, <1>6, Hashing DEF Same
<1> HIDE DEF c2, d
<1>8. c2.idx = 3 /\ c2.hash = To12SKE(n) /\ Same(c, c2, Handled)
  <2>1. c2.idx = c1.idx /\ c1.hash = c.hash
    BY <1>6, <1>7 DEF Same, Fields
  <2>2. Same(c, c2, Handled)
    BY <1>6, <1>7 DEF Same, Handled
  <2> QED
    BY <1>1, <1>6, <1>7, <2>1, <2>2 DEF To12SKE
<1>9. y.at = 3 /\ y.units = x.units /\ y.seq = x.seq
  BY DEF Moved
<1> HIDE DEF y
<1>10. c2.clientRand = n /\ c2.serverRand = n
  BY <1>1, <1>8 DEF Same, Fields, Handled
<1>11. /\ d.localKey = Key12("client", n) /\ d.remoteKey = Key12("server", n)
       /\ Same(c2, d, {"localKey", "remoteKey"})
  BY <1>5, <1>7, <1>10 DEF OnServerKeyExchange, Tls12ComputeKey, Key12, Same, Fields
<1>12. /\ d.idx = 3 /\ d.hash = To12SKE(n) /\ d.out = c.out /\ d.clientSeq = c.clientSeq
       /\ d.serverSeq = c.serverSeq /\ d.clientRand = c.clientRand /\ d.encoding = c.encoding
       /\ d.cipher = c.cipher /\ d.serverRand = c.serverRand
  BY <1>8, <1>11 DEF Same, Fields, Handled
<1>13. Same(c, d, Changing)
  BY <1>8, <1>11 DEF Same, Changing, Handled
<1>14. ClientAt(d, "tls12", n, y)
  BY <1>1, <1>9, <1>12 DEF Client, ClientAt, Seen
<1>15. ClientKeys(d, "tls12", n, y)
  BY <1>1, <1>9, <1>11, <1>12 DEF ClientKeys
<1>16. Sending(d, "tls12", n, y, b, k)
  BY <1>9, <1>12 DEF Client, Sending, Answered, Turn
<1> QED
  BY <1>9, <1>13, <1>14, <1>15, <1>16, Assembled DEF d, m, y

Makes(s, e, t) == Append(s, e) = t

\* A record more makes the slice of the client's records one longer.
LEMMA OneMoreAnswer ==
  ASSUME NEW v, NEW n, NEW b \in Nat, NEW l \in Nat, NEW i, i = b + l + 1, NEW h, h = l + 1
  PROVE  Makes(Slice(Answers(v, n), b, l), Answer(v, n, i), Slice(Answers(v, n), b, h))
<1>1. i \in Nat /\ h = l + 1
  OBVIOUS
<1>2. Answers(v, n)[i] = Answer(v, n, i)
  BY <1>1 DEF Answers
<1>3. Append(Slice(Answers(v, n), b, l), Answers(v, n)[i]) = Slice(Answers(v, n), b, h)
  BY SliceGrows
<1> QED
  BY <1>2, <1>3 DEF Makes

\* TLS 1.2: server_hello_done is answered by three records.
LEMMA HearsDone ==
  ASSUME link # "broken",
         NEW c, NEW n \in Nat, NEW x \in Position, NEW b \in Nat, NEW k \in Nat,
         NEW g \in Nat, NEW q, NEW seen, x.at = 3, Client(c, "tls12", n, x, b, k, g, q)
  PROVE  Client(OnMessage(c, FALSE, "hs", Said("tls12", n, 4), seen),
                "tls12", n, Moved("tls12", x), b, k, g, q)
<1> DEFINE m == Said("tls12", n, 4)
           d == OnMessage(c, FALSE, "hs", m, seen)
           c1 == Counted(c)
           c2 == UpdateHash(c1, m)
           c3 == SendPacket(c2, link, "hs", Msg("CKE", None))
           c4 == SendPacket(c3, link, "ccs", Msg("CCS", None))
           c5 == [c4 EXCEPT !.encoding = TRUE]
           y == Moved("tls12", x)
<1>1. /\ DOMAIN c = Fields /\ c.err = None /\ c.idx = 3 /\ c.hash = To12SKE(n)
      /\ c.encoding = FALSE /\ c.cipher = "tls12" /\ c.localKey = Key12("client", n)
      /\ c.remoteKey = Key12("server", n) /\ c.serverRand = n
  BY DEF Client, ClientAt, ClientKeys, Seen
<1>1a. /\ b <= 1 /\ k = 0 /\ c.clientSeq = 0 /\ c.out = Slice(Answers("tls12", n), b, 1 - b)
  BY DEF Client, Sending, Answered, Turn
<1>2. m.name = "SHD" /\ Hashed(m) = << "SHD" >> /\ StateSeq(FALSE)[4] = "SHD"
  BY DEF Said, Msg, Names, StateSeq, Hashed
<1> HIDE DEF m
<1>3. c.idx < StatesCount(FALSE) /\ StateSeq(FALSE)[c.idx + 1] = m.name
  <2>1. c.idx + 1 = 4 /\ c.idx < StatesCount(FALSE)
    BY <1>1 DEF StatesCount
  <2> QED
    BY <1>2, <2>1
<1>4. d = OnHandshake(c1, m)
  BY <1>1, <1>3, Checked
<1>5. d = OnServerHelloDone(c2)
  BY <1>2, <1>4, OfHandshake
<1>6. c1.idx = 4 /\ Same(c, c1, {"idx"}) /\ DOMAIN c1 = Fields
  BY <1>1, Counting DEF Same
<1> HIDE DEF c1
<1>7. c2.hash = Append(c1.hash, << "SHD" >>) /\ Same(c1, c2, {"hash"}) /\ DOMAIN c2 = Fields
  BY <1>2, <1>6, Hashing DEF Same
<1>8. d = SendPacket(c5, link, "hs", Msg("Fin", Verify(c5.localKey, c5.hash)))
  BY <1>5 DEF OnServerHelloDone, SendClientFinish, SendChangeCipherSpec
<1> HIDE DEF c2, d
<1>9. c2.idx = 4 /\ c2.hash = To12SHD(n) /\ Same(c, c2, Handled)
  <2>1. c2.idx = c1.idx /\ c1.hash = c.hash
    BY <1>6, <1>7 DEF Same, Fields
  <2>2. Same(c, c2, Handled)
    BY <1>6, <1>7 DEF Same, Handled
  <2> QED
    BY <1>1, <1>6, <1>7, <2>1, <2>2 DEF To12SHD
<1>10. c2.err = None /\ c2.encoding = FALSE /\ c2.clientSeq = 0 /\ c2.out = c.out
  BY <1>1, <1>1a, <1>9 DEF Same, Fields, Handled
<1>11. /\ Same(c2, c3, {"out", "hash", "clientSeq"})
       /\ c3.out = Append(c2.out, Answer("tls12", n, 2))
       /\ c3.hash = To12CKE(n) /\ c3.clientSeq = 0
  <2> DEFINE p == Msg("CKE", None)
             r == [outer |-> "hs", type |-> "hs", msgs |-> << p >>, key |-> Plain, seq |-> 0]
  <2>1. Hashed(p) = << "CKE" >> /\ r = Answer("tls12", n, 2)
    BY DEF Hashed, Msg, Answer
  <2>2. r.key = Plain
    OBVIOUS
  <2> HIDE DEF p
  <2>3. /\ Same(c2, c3, {"out", "hash", "clientSeq"}) /\ c3.out = Append(c2.out, r)
        /\ c3.hash = Append(c2.hash, Hashed(p)) /\ c3.clientSeq = c2.clientSeq
    <3>1. c3 = SendPacket(c2, link, "hs", p)
      BY DEF p
    <3> HIDE DEF c3
    <3>2. Sent(c2, c3, r, "hs", p)
      BY <1>7, <1>10, <3>1, SendingClear
    <3> QED
      BY <3>2 DEF Sent
  <2> QED
    BY <1>9, <1>10, <2>1, <2>3 DEF To12CKE
<1> HIDE DEF c3
<1>12. c3.err = None /\ c3.encoding = FALSE /\ DOMAIN c3 = Fields
  BY <1>10, <1>11 DEF Same, Fields
<1>13. /\ Same(c3, c4, {"out", "hash", "clientSeq"})
       /\ c4.out = Append(c3.out, Answer("tls12", n, 3))
       /\ c4.hash = To12CKE(n) /\ c4.clientSeq = 0
  <2> DEFINE p == Msg("CCS", None)
             r == [outer |-> "ccs", type |-> "ccs", msgs |-> << p >>, key |-> Plain, seq |-> 0]
  <2>1. r = Answer("tls12", n, 3)
    BY DEF Msg, Answer
  <2> HIDE DEF p
  <2>3. /\ Same(c3, c4, {"out", "hash", "clientSeq"}) /\ c4.out = Append(c3.out, r)
        /\ c4.hash = c3.hash /\ c4.clientSeq = c3.clientSeq
    <3>1. c4 = SendPacket(c3, link, "ccs", p)
      BY DEF p
    <3> HIDE DEF c4
    <3>2. Sent(c3, c4, r, "ccs", p)
      BY <1>12, <3>1, SendingClear
    <3> QED
      BY <3>2 DEF Sent
  <2> QED
    BY <1>11, <2>1, <2>3
<1> HIDE DEF c4
<1>14. c5.encoding = TRUE /\ Same(c4, c5, {"encoding"})
  <2>1. DOMAIN c4 = Fields
    BY <1>13 DEF Same
  <2> QED
    BY <2>1 DEF Same, Fields
<1> HIDE DEF c5
<1>15. /\ DOMAIN c5 = Fields /\ c5.err = None /\ c5.clientSeq = 0 /\ c5.out = c4.out
       /\ c5.hash = To12CKE(n) /\ c5.localKey = Key12("client", n) /\ c5.cipher = "tls12"
  <2>1. /\ c5.err = c4.err /\ c5.clientSeq = c4.clientSeq /\ c5.out = c4.out /\ c5.hash = c4.hash
        /\ c5.localKey = c4.localKey /\ c5.cipher = c4.cipher /\ DOMAIN c5 = Fields
    BY <1>14 DEF Same, Fields
  <2>2. c4.err = c3.err /\ c4.localKey = c3.localKey /\ c4.cipher = c3.cipher
    BY <1>13 DEF Same, Fields
  <2>3. c3.localKey = c2.localKey /\ c3.cipher = c2.cipher
    BY <1>11 DEF Same, Fields
  <2>4. c2.localKey = c.localKey /\ c2.cipher = c.cipher
    BY <1>9 DEF Same, Fields, Handled
  <2> QED
    BY <1>1, <1>12, <1>13, <2>1, <2>2, <2>3, <2>4
<1>16. /\ Same(c5, d, {"out", "hash", "clientSeq"})
       /\ d.out = Append(c5.out, Answer("tls12", n, 4))
       /\ d.hash = To12Fin(n) /\ d.clientSeq = 1
  <2> DEFINE p == Msg("Fin", Verify(Key12("client", n), To12CKE(n)))
             r == [outer |-> "hs", type |-> "hs", msgs |-> << p >>,
                   key |-> Key12("client", n), seq |-> 0]
  <2>1. Hashed(p) = << "Fin" >> /\ r = Answer("tls12", n, 4)
    BY DEF Hashed, Msg, Answer
  <2>2. r.key # Plain /\ ~IsClear("hs")
    BY KeyNotPlain DEF Key12, IsClear
  <2> HIDE DEF p
  <2>3. d = SendPacket(c5, link, "hs", p)
    BY <1>8, <1>15 DEF p
  <2>4. /\ Same(c5, d, {"out", "hash", "clientSeq"}) /\ d.out = Append(c5.out, r)
        /\ d.hash = Append(c5.hash, Hashed(p)) /\ d.clientSeq = c5.clientSeq + 1
    <3>1. /\ c5.encoding = TRUE /\ c5.localKey = Key("client", "12", << n, n >>)
          /\ c5.cipher # "tls13" /\ r = [outer |-> IF c5.cipher = "tls13" THEN "data" ELSE "hs",
               type |-> "hs", msgs |-> << p >>, key |-> c5.localKey, seq |-> c5.clientSeq]
      BY <1>14, <1>15 DEF Key12
    <3>2. c5.localKey # Plain
      BY <3>1, KeyNotPlain
    <3>3. Sent(c5, d, r, "hs", p)
      BY <1>15, <2>2, <2>3, <3>1, <3>2, SendingSealed
    <3> QED
      BY <2>2, <3>3 DEF Sent
  <2> QED
    BY <1>15, <2>1, <2>4 DEF To12Fin
<1>17. d.out = Slice(Answers("tls12", n), b, 4 - b)
  <2>1. PICK l \in Nat : l = 1 - b
    BY <1>1a
  <2>2. /\ l + 1 \in Nat /\ l + 2 \in Nat /\ 2 = b + l + 1 /\ 3 = b + (l + 1) + 1
        /\ 4 = b + (l + 2) + 1 /\ l + 2 = (l + 1) + 1 /\ l + 3 = (l + 2) + 1 /\ l + 3 = 4 - b
    BY <1>1a, <2>1
  <2>3. c3.out = Slice(Answers("tls12", n), b, l + 1)
    <3>1. Makes(Slice(Answers("tls12", n), b, l), Answer("tls12", n, 2),
            Slice(Answers("tls12", n), b, l + 1))
      BY <2>2, OneMoreAnswer
    <3> QED
      BY <1>1a, <1>10, <1>11, <2>1, <3>1 DEF Makes
  <2>4. c4.out = Slice(Answers("tls12", n), b, l + 2)
    <3>1. Makes(Slice(Answers("tls12", n), b, l + 1), Answer("tls12", n, 3),
            Slice(Answers("tls12", n), b, l + 2))
      BY <2>2, OneMoreAnswer
    <3> QED
      BY <1>13, <2>3, <3>1 DEF Makes
  <2>5. Makes(Slice(Answers("tls12", n), b, l + 2), Answer("tls12", n, 4),
          Slice(Answers("tls12", n), b, l + 3))
    BY <2>2, OneMoreAnswer
  <2> QED
    BY <1>15, <1>16, <2>2, <2>4, <2>5 DEF Makes
<1>18. Same(c, d, Changing)
  BY <1>9, <1>11, <1>13, <1>14, <1>16 DEF Same, Changing, Handled
<1>19. /\ d.idx = 4 /\ d.cipher = "tls12" /\ d.encoding = TRUE /\ d.localKey = Key12("client", n)
       /\ d.remoteKey = Key12("server", n) /\ d.serverRand = n /\ d.clientRand = c.clientRand
       /\ d.serverSeq = c.serverSeq
  <2>1. /\ d.idx = c5.idx /\ d.cipher = c5.cipher /\ d.encoding = c5.encoding
        /\ d.localKey = c5.localKey /\ d.remoteKey = c5.remoteKey /\ d.serverRand = c5.serverRand
        /\ d.clientRand = c5.clientRand /\ d.serverSeq = c5.serverSeq
    BY <1>16 DEF Same, Fields
  <2>2. /\ c5.idx = c4.idx /\ c5.remoteKey = c4.remoteKey /\ c5.serverRand = c4.serverRand
        /\ c5.clientRand = c4.clientRand /\ c5.serverSeq = c4.serverSeq
    BY <1>14 DEF Same, Fields
  <2>3. /\ c4.idx = c3.idx /\ c4.remoteKey = c3.remoteKey /\ c4.serverRand = c3.serverRand
        /\ c4.clientRand = c3.clientRand /\ c4.serverSeq = c3.serverSeq
    BY <1>13 DEF Same, Fields
  <2>4. /\ c3.idx = c2.idx /\ c3.remoteKey = c2.remoteKey /\ c3.serverRand = c2.serverRand
        /\ c3.clientRand = c2.clientRand /\ c3.serverSeq = c2.serverSeq
    BY <1>11 DEF Same, Fields
  <2>5. /\ c2.remoteKey = c.remoteKey /\ c2.serverRand = c.serverRand
        /\ c2.clientRand = c.clientRand /\ c2.serverSeq = c.serverSeq
    BY <1>9 DEF Same, Fields, Handled
  <2> QED
    BY <1>1, <1>9, <1>14, <1>15, <2>1, <2>2, <2>3, <2>4, <2>5
<1>20. y.at = 4 /\ y.units = x.units /\ y.seq = x.seq
  BY DEF Moved
<1> HIDE DEF y
<1>21. ClientAt(d, "tls12", n, y)
  <2>1. c.serverSeq = x.seq /\ c.clientRand = n
    BY DEF Client, ClientAt
  <2>2. d.hash = Seen("tls12", n, 4)
    BY <1>16 DEF Seen
  <2>3. y.at >= (IF "tls12" = "tls12" THEN 4 ELSE 1) /\ ~("tls12" = "tls12" /\ y.at > 4) /\ y.at # 0
    BY <1>20
  <2> QED
    BY <1>19, <1>20, <2>1, <2>2, <2>3 DEF ClientAt
<1>22. ClientKeys(d, "tls12", n, y)
  BY <1>19 DEF ClientKeys
<1>23. Sending(d, "tls12", n, y, b, k)
  BY <1>1a, <1>16, <1>17, <1>20 DEF Sending, Answered, Turn
<1> QED
  BY <1>18, <1>20, <1>21, <1>22, <1>23, Assembled DEF d, m, y

\* TLS 1.2: the server's change_cipher_spec needs no state any more.
LEMMA HearsChange12 ==
  ASSUME NEW c, NEW n \in Nat, NEW x \in Position, NEW b \in Nat, NEW k \in Nat,
         NEW g \in Nat, NEW q, NEW seen, x.at = 4, Client(c, "tls12", n, x, b, k, g, q)
  PROVE  Client(OnMessage(c, FALSE, "ccs", Said("tls12", n, 5), seen),
                "tls12", n, Moved("tls12", x), b, k, g, q)
<1> DEFINE m == Said("tls12", n, 5)
           d == OnMessage(c, FALSE, "ccs", m, seen)
<1>1. DOMAIN c = Fields /\ c.err = None /\ c.idx = 4 /\ c.hash = To12Fin(n)
  BY DEF Client, ClientAt, Seen
<1> HIDE DEF m
<1>2. ~(c.idx < StatesCount(FALSE))
  BY <1>1 DEF StatesCount
<1>3. d = NotCounted(c)
  BY <1>1, <1>2, Unchecked
<1> HIDE DEF d
<1>4. d.idx = 4 /\ Same(c, d, {"idx"})
  BY <1>1, <1>3, Counting
<1>5. d.hash = c.hash /\ Same(c, d, Handled)
  BY <1>4 DEF Same, Fields, Handled
<1>6. d.hash = Seen("tls12", n, 5)
  BY <1>1, <1>5 DEF Seen
<1>7. Client(d, "tls12", n, Moved("tls12", x), b, k, g, q)
  <2>1. "tls12" \in Versions /\ ("tls12" = "tls13" => x.at \in 1 .. 4)
        /\ ("tls12" = "tls12" => x.at \in {1, 4, 5})
    BY DEF Versions
  <2>2. d.idx = (IF "tls12" = "tls12" /\ x.at >= 4 THEN 4 ELSE x.at + 1)
        /\ d.hash = Seen("tls12", n, x.at + 1)
    BY <1>4, <1>6
  <2> QED
    BY <1>5, <2>1, <2>2, QuietMessage
<1> QED
  BY <1>7 DEF d, m

\* TLS 1.2: the server's Finished verifies.
LEMMA HearsFinished12 ==
  ASSUME NEW c, NEW n \in Nat, NEW x \in Position, NEW b \in Nat, NEW k \in Nat,
         NEW g \in Nat, NEW q, NEW seen, x.at = 5, Client(c, "tls12", n, x, b, k, g, q)
  PROVE  Client(OnMessage(c, FALSE, "hs", Said("tls12", n, 6), seen),
                "tls12", n, Moved("tls12", x), b, k, g, q)
<1> DEFINE m == Said("tls12", n, 6)
           d == OnMessage(c, FALSE, "hs", m, seen)
           c1 == NotCounted(c)
<1>1. /\ DOMAIN c = Fields /\ c.err = None /\ c.idx = 4 /\ c.hash = To12Fin(n)
      /\ c.cipher = "tls12" /\ c.remoteKey = Key12("server", n)
  BY DEF Client, ClientAt, ClientKeys, Seen
<1>2. m.name = "Fin" /\ m.body = Verify(Key12("server", n), To12Fin(n))
  BY DEF Said, Msg, Names, StateSeq
<1> HIDE DEF m
<1>3. ~(c.idx < StatesCount(FALSE))
  BY <1>1 DEF StatesCount
<1>4. d = OnHandshake(c1, m)
  BY <1>1, <1>3, Unchecked
<1>5. d = OnFinished(c1, m)
  BY <1>2, <1>4, OfHandshake
<1>6. c1.idx = 4 /\ Same(c, c1, {"idx"}) /\ DOMAIN c1 = Fields
  BY <1>1, Counting DEF Same
<1> HIDE DEF c1, d
<1>7. c1.hash = c.hash /\ c1.remoteKey = c.remoteKey /\ c1.cipher = c.cipher
  BY <1>6 DEF Same, Fields
<1>8. d = UpdateHash(c1, m)
  <2>1. m.body = Verify(c1.remoteKey, c1.hash) /\ c1.cipher # "tls13"
    BY <1>1, <1>2, <1>7
  <2> QED
    BY <1>5, <2>1 DEF OnFinished
<1>9. Same(c1, d, {"hash"})
  BY <1>6, <1>8, Hashing
<1>10. d.idx = 4 /\ Same(c, d, Handled)
  BY <1>6, <1>9 DEF Same, Fields, Handled
<1>11. Client(d, "tls12", n, Moved("tls12", x), b, k, g, q)
  <2>1. "tls12" \in Versions /\ ("tls12" = "tls13" => x.at \in 1 .. 4)
        /\ ("tls12" = "tls12" => x.at \in {1, 4, 5}) /\ ~(x.at + 1 < 6)
    BY DEF Versions
  <2>2. d.idx = (IF "tls12" = "tls12" /\ x.at >= 4 THEN 4 ELSE x.at + 1)
    BY <1>10
  <2> QED
    BY <1>10, <2>1, <2>2, QuietMessage
<1> QED
  BY <1>11 DEF d, m

\* TLS 1.3: what on_server_finished does with a Finished that verifies.
LEMMA AtFinished13 ==
  ASSUME NEW c, NEW m, m.body = Verify(c.remoteKey, c.hash), c.cipher = "tls13",
         NEW h, h = UpdateHash(c, m),
         NEW a, a = SendClientFinish(SendChangeCipherSpec(h)), a.err = None
  PROVE  OnFinished(c, m) = Tls13ComputeKey([a EXCEPT !.clientSeq = 0, !.serverSeq = 0], "ap", h.hash)
BY DEF OnFinished

\* TLS 1.3: the server's Finished verifies and is answered by two records; the
\* application keys are derived and both sequence numbers start again.
LEMMA HearsFinished13 ==
  ASSUME link # "broken",
         NEW c, NEW n \in Nat, NEW x \in Position, NEW b \in Nat, NEW k \in Nat,
         NEW g \in Nat, NEW q, NEW seen, x.at = 5, Client(c, "tls13", n, x, b, k, g, q)
  PROVE  Client(OnMessage(c, TRUE, "hs", Said("tls13", n, 6), seen),
                "tls13", n, Moved("tls13", x), b, k, g, q)
<1> DEFINE m == Said("tls13", n, 6)
           d == OnMessage(c, TRUE, "hs", m, seen)
           c1 == Counted(c)
           c2 == UpdateHash(c1, m)
           c3 == SendPacket(c2, link, "ccs", Msg("CCS", None))
           c4 == SendPacket(c3, link, "hs", Msg("Fin", Verify(c3.localKey, c3.hash)))
           c5 == [c4 EXCEPT !.clientSeq = 0, !.serverSeq = 0]
           y == Moved("tls13", x)
<1>1. /\ DOMAIN c = Fields /\ c.err = None /\ c.idx = 5 /\ c.hash = To13CV(n)
      /\ c.encoding = TRUE /\ c.cipher = "tls13" /\ c.localKey = HsKey("client", n)
      /\ c.remoteKey = HsKey("server", n)
  BY DEF Client, ClientAt, ClientKeys, Seen
<1>1a. /\ b <= 1 /\ k = 0 /\ c.clientSeq = 0 /\ c.out = Slice(Answers("tls13", n), b, 1 - b)
  BY DEF Client, Sending, Answered, Turn
<1>2. /\ m.name = "Fin" /\ Hashed(m) = << "Fin" >> /\ StateSeq(TRUE)[6] = "Fin"
      /\ m.body = Verify(HsKey("server", n), To13CV(n))
  BY DEF Said, Msg, Names, StateSeq, Hashed
<1> HIDE DEF m
<1>3. c.idx < StatesCount(TRUE) /\ StateSeq(TRUE)[c.idx + 1] = m.name
  <2>1. c.idx + 1 = 6 /\ c.idx < StatesCount(TRUE)
    BY <1>1 DEF StatesCount
  <2> QED
    BY <1>2, <2>1
<1>4. d = OnHandshake(c1, m)
  BY <1>1, <1>3, Checked
<1>5. d = OnFinished(c1, m)
  BY <1>2, <1>4, OfHandshake
<1>6. c1.idx = 6 /\ Same(c, c1, {"idx"}) /\ DOMAIN c1 = Fields
  BY <1>1, Counting DEF Same
<1> HIDE DEF c1
<1>7. c2.hash = Append(c1.hash, << "Fin" >>) /\ Same(c1, c2, {"hash"}) /\ DOMAIN c2 = Fields
  BY <1>2, <1>6, Hashing DEF Same
<1>8. c4.err = None => d = Tls13ComputeKey(c5, "ap", c2.hash)
  <2>1. c1.remoteKey = HsKey("server", n) /\ c1.hash = To13CV(n) /\ c1.cipher = "tls13"
    BY <1>1, <1>6 DEF Same, Fields
  <2>2. c4 = SendClientFinish(SendChangeCipherSpec(c2)) /\ c2 = UpdateHash(c1, m)
    BY DEF SendClientFinish, SendChangeCipherSpec
  <2>3. c5 = [c4 EXCEPT !.clientSeq = 0, !.serverSeq = 0]
    OBVIOUS
  <2>4. m.body = Verify(c1.remoteKey, c1.hash)
    BY <1>2, <2>1
  <2> HIDE DEF c2, c4, c5
  <2> QED
    BY <1>5, <2>1, <2>2, <2>3, <2>4, AtFinished13
<1> HIDE DEF c2, d
<1>9. c2.idx = 6 /\ c2.hash = To13Fin(n) /\ Same(c, c2, Handled)
  <2>1. c2.idx = c1.idx /\ c1.hash = c.hash
    BY <1>6, <1>7 DEF Same, Fields
  <2>2. Same(c, c2, Handled)
    BY <1>6, <1>7 DEF Same, Handled
  <2> QED
    BY <1>1, <1>6, <1>7, <2>1, <2>2 DEF To13Fin
<1>10. c2.err = None /\ c2.clientSeq = 0 /\ c2.out = c.out
  BY <1>1, <1>1a, <1>9 DEF Same, Fields, Handled
<1>11. /\ Same(c2, c3, {"out", "hash", "clientSeq"})
       /\ c3.out = Append(c2.out, Answer("tls13", n, 2))
       /\ c3.hash = To13Fin(n) /\ c3.clientSeq = 0
  <2> DEFINE p == Msg("CCS", None)
             r == [outer |-> "ccs", type |-> "ccs", msgs |-> << p >>, key |-> Plain, seq |-> 0]
  <2>1. r = Answer("tls13", n, 2) /\ IsClear("ccs")
    BY DEF Msg, Answer, IsClear
  <2> HIDE DEF p
  <2>2. /\ Same(c2, c3, {"out", "hash", "clientSeq"}) /\ c3.out = Append(c2.out, r)
        /\ c3.hash = c2.hash /\ c3.clientSeq = c2.clientSeq
    <3>1. c3 = SendPacket(c2, link, "ccs", p)
      BY DEF p
    <3> HIDE DEF c3
    <3>2. Sent(c2, c3, r, "ccs", p)
      BY <1>7, <1>10, <2>1, <3>1, SendingClear
    <3> QED
      BY <3>2 DEF Sent
  <2> QED
    BY <1>9, <1>10, <2>1, <2>2
<1> HIDE DEF c3
<1>12. /\ DOMAIN c3 = Fields /\ c3.err = None /\ c3.encoding = TRUE
       /\ c3.localKey = HsKey("client", n) /\ c3.cipher = "tls13"
  <2>1. /\ DOMAIN c3 = Fields /\ c3.err = c2.err /\ c3.encoding = c2.encoding
        /\ c3.localKey = c2.localKey /\ c3.cipher = c2.cipher
    BY <1>11 DEF Same, Fields
  <2>2. c2.encoding = c.encoding /\ c2.localKey = c.localKey /\ c2.cipher = c.cipher
    BY <1>9 DEF Same, Fields, Handled
  <2> QED
    BY <1>1, <1>10, <2>1, <2>2
<1>13. /\ Same(c3, c4, {"out", "hash", "clientSeq"})
       /\ c4.out = Append(c3.out, Answer("tls13", n, 3))
  <2> DEFINE p == Msg("Fin", Verify(HsKey("client", n), To13Fin(n)))
             r == [outer |-> "data", type |-> "hs", msgs |-> << p >>,
                   key |-> HsKey("client", n), seq |-> 0]
  <2>1. r = Answer("tls13", n, 3) /\ ~IsClear("hs")
    BY DEF Answer, IsClear
  <2> HIDE DEF p
  <2>3. c4 = SendPacket(c3, link, "hs", p)
    BY <1>11, <1>12 DEF p
  <2> HIDE DEF c4
  <2>4. /\ Same(c3, c4, {"out", "hash", "clientSeq"}) /\ c4.out = Append(c3.out, r)
    <3>1. r = [outer |-> IF c3.cipher = "tls13" THEN "data" ELSE "hs",
               type |-> "hs", msgs |-> << p >>, key |-> c3.localKey, seq |-> c3.clientSeq]
      BY <1>11, <1>12
    <3>2. c3.localKey # Plain
      BY <1>12, KeyNotPlain DEF HsKey
    <3>3. Sent(c3, c4, r, "hs", p)
      BY <1>12, <2>1, <2>3, <3>1, <3>2, SendingSealed
    <3> QED
      BY <3>3 DEF Sent
  <2> QED
    BY <2>1, <2>4
<1> HIDE DEF c4
<1>14. c4.err = None /\ DOMAIN c4 = Fields
  BY <1>12, <1>13 DEF Same, Fields
<1>15. c5.clientSeq = 0 /\ c5.serverSeq = 0 /\ Same(c4, c5, {"clientSeq", "serverSeq"})
  BY <1>14 DEF Same, Fields
<1> HIDE DEF c5
<1>16. /\ d.localKey = ApKey("client", n) /\ d.remoteKey = ApKey("server", n)
       /\ Same(c5, d, {"localKey", "remoteKey"})
  <2>1. d = Tls13ComputeKey(c5, "ap", To13Fin(n)) /\ DOMAIN c5 = Fields
    BY <1>8, <1>9, <1>14, <1>15 DEF Same
  <2> QED
    BY <2>1 DEF Tls13ComputeKey, ApKey, Same, Fields
<1>17. d.out = Slice(Answers("tls13", n), b, 3 - b)
  <2>1. PICK l \in Nat : l = 1 - b
    BY <1>1a
  <2>2. /\ l + 1 \in Nat /\ 2 = b + l + 1 /\ 3 = b + (l + 1) + 1
        /\ l + 2 = (l + 1) + 1 /\ l + 2 = 3 - b
    BY <1>1a, <2>1
  <2>3. c3.out = Slice(Answers("tls13", n), b, l + 1)
    <3>1. Makes(Slice(Answers("tls13", n), b, l), Answer("tls13", n, 2),
                Slice(Answers("tls13", n), b, l + 1))
      BY <2>2, OneMoreAnswer
    <3> QED
      BY <1>1a, <1>10, <1>11, <2>1, <3>1 DEF Makes
  <2>4. c4.out = Slice(Answers("tls13", n), b, l + 2)
    <3>1. Makes(Slice(Answers("tls13", n), b, l + 1), Answer("tls13", n, 3),
                Slice(Answers("tls13", n), b, l + 2))
      BY <2>2, OneMoreAnswer
    <3> QED
      BY <1>13, <2>3, <3>1 DEF Makes
  <2>5. d.out = c5.out /\ c5.out = c4.out
    BY <1>15, <1>16 DEF Same, Fields
  <2> QED
    BY <2>2, <2>4, <2>5
<1>18. Same(c, d, Changing)
  BY <1>9, <1>11, <1>13, <1>15, <1>16 DEF Same, Changing, Handled
<1>19. /\ d.idx = 6 /\ d.cipher = "tls13" /\ d.encoding = TRUE /\ d.clientRand = c.clientRand
       /\ d.clientSeq = 0 /\ d.serverSeq = 0
  <2>1. /\ d.idx = c5.idx /\ d.cipher = c5.cipher /\ d.encoding = c5.encoding
        /\ d.clientRand = c5.clientRand /\ d.serverSeq = c5.serverSeq /\ d.clientSeq = c5.clientSeq
    BY <1>16 DEF Same, Fields
  <2>2. /\ c5.idx = c4.idx /\ c5.cipher = c4.cipher /\ c5.encoding = c4.encoding
        /\ c5.clientRand = c4.clientRand
    BY <1>15 DEF Same, Fields
  <2>3. /\ c4.idx = c3.idx /\ c4.cipher = c3.cipher /\ c4.encoding = c3.encoding
        /\ c4.clientRand = c3.clientRand
    BY <1>13 DEF Same, Fields
  <2>4. c3.idx = c2.idx /\ c3.clientRand = c2.clientRand
    BY <1>11 DEF Same, Fields
  <2>5. c2.clientRand = c.clientRand
    BY <1>9 DEF Same, Fields, Handled
  <2> QED
    BY <1>9, <1>12, <1>15, <2>1, <2>2, <2>3, <2>4, <2>5
<1>20. y.at = 6 /\ y.units = x.units /\ y.seq = 0
  BY DEF Moved
<1> HIDE DEF y
<1>21. ClientAt(d, "tls13", n, y)
  <2>1. c.clientRand = n
    BY DEF Client, ClientAt
  <2>2. y.at >= (IF "tls13" = "tls12" THEN 4 ELSE 1) /\ ~("tls13" = "tls12" /\ y.at > 4) /\ y.at # 0
        /\ ~(y.at < 6)
    BY <1>20
  <2> QED
    BY <1>19, <1>20, <2>1, <2>2 DEF ClientAt
<1>22. ClientKeys(d, "tls13", n, y)
  BY <1>16, <1>20 DEF ClientKeys
<1>23. Sending(d, "tls13", n, y, b, k)
  BY <1>1a, <1>17, <1>19, <1>20 DEF Sending, Answered, Turn
<1> QED
  BY <1>18, <1>20, <1>21, <1>22, <1>23, Assembled DEF d, m, y

(* --------------------- records, and the turn of a loop ---------------------- *)

\* on_packet: the record as decode leaves it, its type and what an alert shows.
Decoded(e, r) == IF IsClear(r.outer) THEN e ELSE Decode(e, r)
TypeIn(e, r) == IF e.cipher = "tls13" /\ Decoded(e, r).encoding /\ ~IsClear(r.outer)
                THEN r.type ELSE r.outer
SeenIn(e, r, misread) == IF TypeIn(e, r) = "alert" /\ IsClear(r.outer) /\ r.key # Plain
                         THEN misread ELSE r.msgs[1]

InTurn(h, e, r, misread, msgs, n) ==
  /\ h[0] = Decoded(e, r) /\ h[n] = OnPacket(e, r, misread)
  /\ \A i \in 1 .. n : h[i] = OnMessage(h[i - 1], e.cipher = "tls13", TypeIn(e, r),
                                       msgs[i], SeenIn(e, r, misread))

\* The messages of a record are handled one after the other.
LEMMA MessagesInTurn ==
  ASSUME NEW e, NEW r, NEW misread, e.err = None, Decoded(e, r).err = None,
         NEW msgs, msgs = r.msgs, NEW n \in Nat, DOMAIN msgs = 1 .. n
  PROVE  \E h : InTurn(h, e, r, misread, msgs, n)
<1> DEFINE Step(y, i) == OnMessage(y, e.cipher = "tls13", TypeIn(e, r), msgs[i], SeenIn(e, r, misread))
           Is(it) == it = [s \in SUBSET (1 .. n) |->
                             IF s = {} THEN Decoded(e, r) ELSE Step(it[s \ {Max(s)}], Max(s))]
           Good(it, k) == \A s \in SUBSET (1 .. k) :
                            it[s] = IF s = {} THEN Decoded(e, r) ELSE Step(it[s \ {Max(s)}], Max(s))
           T == {k \in 0 .. n : \E it : Good(it, k)}
           c == CHOOSE it : Is(it)
<1>1. OnPacket(e, r, misread) = c[1 .. n]
  BY DEF FoldLeft, MapThenFoldSet, OnPacket, Decoded, TypeIn, SeenIn
<1> HIDE DEF Step
<1>2. 0 \in T
  <2> DEFINE it == [s \in SUBSET (1 .. n) |-> Decoded(e, r)]
  <2>1. \A s \in SUBSET (1 .. 0) : s = {} /\ s \in SUBSET (1 .. n)
    OBVIOUS
  <2>2. \A s \in SUBSET (1 .. n) : it[s] = Decoded(e, r)
    OBVIOUS
  <2> HIDE DEF it
  <2>3. Good(it, 0)
    BY <2>1, <2>2
  <2>4. 0 \in 0 .. n
    OBVIOUS
  <2> HIDE DEF Good
  <2> QED
    BY <2>3, <2>4
<1>3. ASSUME NEW k \in 0 .. n, k \in T, k < n PROVE k + 1 \in T
  <2>1. PICK it : Good(it, k)
    BY <1>3
  <2>0. k + 1 \in 1 .. n /\ \A s \in SUBSET (1 .. n) : s \ {k + 1} \in SUBSET (1 .. n)
    BY <1>3
  <2> DEFINE up == [s \in SUBSET (1 .. n) |->
                      IF k + 1 \in s THEN Step(it[s \ {k + 1}], k + 1) ELSE it[s]]
  <2>3. \A s \in SUBSET (1 .. n) :
          up[s] = IF k + 1 \in s THEN Step(it[s \ {k + 1}], k + 1) ELSE it[s]
    OBVIOUS
  <2> HIDE DEF up
  <2>4. ASSUME NEW s \in SUBSET (1 .. k + 1)
        PROVE  up[s] = IF s = {} THEN Decoded(e, r) ELSE Step(up[s \ {Max(s)}], Max(s))
    <3>0. \A z \in s : z \in 1 .. n /\ (z = k + 1 \/ z \in 1 .. k)
      BY <1>3
    <3>1. s \in SUBSET (1 .. n) /\ s \ {k + 1} \in SUBSET (1 .. k)
          /\ (k + 1 \notin s => s \in SUBSET (1 .. k))
      BY <3>0
    <3>2. CASE k + 1 \in s
      <4>1. s # {} /\ k + 1 \in Nat
        BY <3>2
      <4>2. Max(s) \in s /\ \A y \in s : y <= Max(s)
        BY <4>1, MaxProperties
      <4>3. Max(s) = k + 1
        <5>1. Max(s) \in 1 .. k + 1 /\ k + 1 <= Max(s)
          BY <3>2, <4>2
        <5> QED
          BY <5>1
      <4>4. up[s \ {k + 1}] = it[s \ {k + 1}]
        BY <2>0, <2>3, <3>1
      <4> QED
        BY <2>3, <3>1, <3>2, <4>1, <4>3, <4>4
    <3>3. CASE k + 1 \notin s /\ s # {}
      <4>1. Max(s) \in s
        BY <3>1, <3>3, MaxProperties
      <4>2. s \ {Max(s)} \in SUBSET (1 .. n) /\ k + 1 \notin s \ {Max(s)}
        BY <3>1, <3>3
      <4>3. up[s \ {Max(s)}] = it[s \ {Max(s)}] /\ up[s] = it[s]
        BY <2>3, <3>1, <3>3, <4>2
      <4> QED
        BY <2>1, <3>1, <3>3, <4>3
    <3>4. CASE s = {}
      <4>1. up[s] = it[s] /\ it[s] = Decoded(e, r)
        BY <2>1, <2>3, <3>1, <3>4
      <4> QED
        BY <3>4, <4>1
    <3> QED
      BY <3>2, <3>3, <3>4
  <2>5. Good(up, k + 1)
    BY <2>4
  <2>6. k + 1 \in 0 .. n
    BY <2>0
  <2> HIDE DEF Good
  <2> QED
    BY <2>5, <2>6
<1>4. \E it : Good(it, n)
  <2>1. \A i \in 0 .. n : i \in T
    <3> HIDE DEF T
    <3> QED
      BY <1>2, <1>3, UpTo
  <2>2. n \in T
    <3>1. n \in 0 .. n
      OBVIOUS
    <3> HIDE DEF T
    <3> QED
      BY <2>1, <3>1
  <2> HIDE DEF Good
  <2> QED
    BY <2>2
<1>5. Is(c)
  <2>1. PICK it : Good(it, n)
    BY <1>4
  <2> DEFINE g == [s \in SUBSET (1 .. n) |-> it[s]]
  <2>2. ASSUME NEW s \in SUBSET (1 .. n)
        PROVE  it[s] = IF s = {} THEN Decoded(e, r) ELSE Step(g[s \ {Max(s)}], Max(s))
    <3>1. s \ {Max(s)} \in SUBSET (1 .. n)
      OBVIOUS
    <3>2. g[s \ {Max(s)}] = it[s \ {Max(s)}]
      BY <3>1
    <3> QED
      BY <2>1, <3>2
  <2>3. Is(g)
    BY <2>2
  <2> HIDE DEF g, Is
  <2> QED
    BY <2>3
<1>6. \A s \in SUBSET (1 .. n) : c[s] = IF s = {} THEN Decoded(e, r) ELSE Step(c[s \ {Max(s)}], Max(s))
  <2> HIDE DEF c
  <2> QED
    BY <1>5
<1> HIDE DEF c
<1> DEFINE h == [i \in 0 .. n |-> c[1 .. i]]
<1>7. h[0] = Decoded(e, r) /\ h[n] = c[1 .. n]
  <2>1. 1 .. 0 = {} /\ {} \in SUBSET (1 .. n) /\ 0 \in 0 .. n /\ n \in 0 .. n
    OBVIOUS
  <2> QED
    BY <1>6, <2>1
<1>8. ASSUME NEW i \in 1 .. n PROVE h[i] = Step(h[i - 1], i)
  <2>1. /\ 1 .. i # {} /\ Max(1 .. i) = i /\ (1 .. i) \ {i} = 1 .. i - 1
        /\ i - 1 \in 0 .. n /\ i \in 0 .. n /\ 1 .. i \in SUBSET (1 .. n)
    BY Beginnings
  <2>2. h[i] = c[1 .. i] /\ h[i - 1] = c[1 .. i - 1]
    BY <2>1
  <2> HIDE DEF h
  <2> QED
    BY <1>6, <2>1, <2>2
<1> HIDE DEF h
<1>9. \A i \in 1 .. n : h[i] = OnMessage(h[i - 1], e.cipher = "tls13", TypeIn(e, r), msgs[i], SeenIn(e, r, misread))
  BY <1>8 DEF Step
<1> QED
  BY <1>1, <1>7, <1>9 DEF InTurn

\* process_recv: what it has to read, how many records are complete and which,
\* and what becomes of the client once they are handled.
Buffer(e, j) == e.recvBuf \o SubSeq(net, 1, j)
Full(e, j) == Len(Buffer(e, j)) \div 2
Complete(e, j) == [i \in 1 .. Full(e, j) |-> Buffer(e, j)[2 * i]]
Finished(d, buf, full) ==
  IF d.err # None THEN [ClosedClient(d.err) EXCEPT !.out = d.out]
  ELSE [d EXCEPT !.recvBuf = SubSeq(buf, 2 * full + 1, Len(buf))]

\* The fold over the records, with the definition of FoldLeft expanded.
Folds(e, j, misread) ==
  (CHOOSE it : it = [s \in SUBSET DOMAIN Complete(e, j) |->
                       IF s = {} THEN e
                       ELSE OnPacket(it[s \ {Max(s)}], Complete(e, j)[Max(s)], misread)])
    [DOMAIN Complete(e, j)]
HandledInTurn(e, j, misread, n) ==
  \E h : /\ h[0] = e /\ ProcessRecv(e, j, misread) = Finished(h[n], Buffer(e, j), n)
         /\ \A i \in 1 .. n : h[i] = OnPacket(h[i - 1], Complete(e, j)[i], misread)

\* process_recv as its records in turn and the rest of the buffer.
LEMMA ReceivingFolds ==
  ASSUME NEW e, NEW j, NEW misread
  PROVE  ProcessRecv(e, j, misread) = Finished(Folds(e, j, misread), Buffer(e, j), Full(e, j))
BY DEF FoldLeft, MapThenFoldSet, ProcessRecv, Finished, Buffer, Complete, Full, Folds

\* So are the records that have arrived completely.
LEMMA RecordsInTurn ==
  ASSUME NEW e, NEW j, NEW misread, NEW n \in Nat, n = Full(e, j)
  PROVE  HandledInTurn(e, j, misread, n)
<1> DEFINE Step(y, i) == OnPacket(y, Complete(e, j)[i], misread)
           Is(it) == it = [s \in SUBSET (1 .. n) |->
                             IF s = {} THEN e ELSE Step(it[s \ {Max(s)}], Max(s))]
           Good(it, k) == \A s \in SUBSET (1 .. k) :
                            it[s] = IF s = {} THEN e ELSE Step(it[s \ {Max(s)}], Max(s))
           T == {k \in 0 .. n : \E it : Good(it, k)}
           c == CHOOSE it : Is(it)
<1>0. DOMAIN Complete(e, j) = 1 .. n
  BY DEF Complete
<1>a. Folds(e, j, misread) = c[1 .. n]
  BY <1>0 DEF Folds
<1>1. ProcessRecv(e, j, misread) = Finished(c[1 .. n], Buffer(e, j), n)
  BY <1>a, ReceivingFolds
<1> HIDE DEF Step
<1>2. 0 \in T
  <2> DEFINE it == [s \in SUBSET (1 .. n) |-> e]
  <2>1. \A s \in SUBSET (1 .. 0) : s = {} /\ s \in SUBSET (1 .. n)
    OBVIOUS
  <2>2. \A s \in SUBSET (1 .. n) : it[s] = e
    OBVIOUS
  <2> HIDE DEF it
  <2>3. Good(it, 0)
    BY <2>1, <2>2
  <2>4. 0 \in 0 .. n
    OBVIOUS
  <2> HIDE DEF Good
  <2> QED
    BY <2>3, <2>4
<1>3. ASSUME NEW k \in 0 .. n, k \in T, k < n PROVE k + 1 \in T
  <2>1. PICK it : Good(it, k)
    BY <1>3
  <2>0. k + 1 \in 1 .. n /\ \A s \in SUBSET (1 .. n) : s \ {k + 1} \in SUBSET (1 .. n)
    BY <1>3
  <2> DEFINE up == [s \in SUBSET (1 .. n) |->
                      IF k + 1 \in s THEN Step(it[s \ {k + 1}], k + 1) ELSE it[s]]
  <2>3. \A s \in SUBSET (1 .. n) :
          up[s] = IF k + 1 \in s THEN Step(it[s \ {k + 1}], k + 1) ELSE it[s]
    OBVIOUS
  <2> HIDE DEF up
  <2>4. ASSUME NEW s \in SUBSET (1 .. k + 1)
        PROVE  up[s] = IF s = {} THEN e ELSE Step(up[s \ {Max(s)}], Max(s))
    <3>0. \A z \in s : z \in 1 .. n /\ (z = k + 1 \/ z \in 1 .. k)
      BY <1>3
    <3>1. s \in SUBSET (1 .. n) /\ s \ {k + 1} \in SUBSET (1 .. k)
          /\ (k + 1 \notin s => s \in SUBSET (1 .. k))
      BY <3>0
    <3>2. CASE k + 1 \in s
      <4>1. s # {} /\ k + 1 \in Nat
        BY <3>2
      <4>2. Max(s) \in s /\ \A y \in s : y <= Max(s)
        BY <4>1, MaxProperties
      <4>3. Max(s) = k + 1
        <5>1. Max(s) \in 1 .. k + 1 /\ k + 1 <= Max(s)
          BY <3>2, <4>2
        <5> QED
          BY <5>1
      <4>4. up[s \ {k + 1}] = it[s \ {k + 1}]
        BY <2>0, <2>3, <3>1
      <4> QED
        BY <2>3, <3>1, <3>2, <4>1, <4>3, <4>4
    <3>3. CASE k + 1 \notin s /\ s # {}
      <4>1. Max(s) \in s
        BY <3>1, <3>3, MaxProperties
      <4>2. s \ {Max(s)} \in SUBSET (1 .. n) /\ k + 1 \notin s \ {Max(s)}
        BY <3>1, <3>3
      <4>3. up[s \ {Max(s)}] = it[s \ {Max(s)}] /\ up[s] = it[s]
        BY <2>3, <3>1, <3>3, <4>2
      <4> QED
        BY <2>1, <3>1, <3>3, <4>3
    <3>4. CASE s = {}
      <4>1. up[s] = it[s] /\ it[s] = e
        BY <2>1, <2>3, <3>1, <3>4
      <4> QED
        BY <3>4, <4>1
    <3> QED
      BY <3>2, <3>3, <3>4
  <2>5. Good(up, k + 1)
    BY <2>4
  <2>6. k + 1 \in 0 .. n
    BY <2>0
  <2> HIDE DEF Good
  <2> QED
    BY <2>5, <2>6
<1>4. \E it : Good(it, n)
  <2>1. \A i \in 0 .. n : i \in T
    <3> HIDE DEF T
    <3> QED
      BY <1>2, <1>3, UpTo
  <2>2. n \in T
    <3>1. n \in 0 .. n
      OBVIOUS
    <3> HIDE DEF T
    <3> QED
      BY <2>1, <3>1
  <2> HIDE DEF Good
  <2> QED
    BY <2>2
<1>5. Is(c)
  <2>1. PICK it : Good(it, n)
    BY <1>4
  <2> DEFINE g == [s \in SUBSET (1 .. n) |-> it[s]]
  <2>2. ASSUME NEW s \in SUBSET (1 .. n)
        PROVE  it[s] = IF s = {} THEN e ELSE Step(g[s \ {Max(s)}], Max(s))
    <3>1. s \ {Max(s)} \in SUBSET (1 .. n)
      OBVIOUS
    <3>2. g[s \ {Max(s)}] = it[s \ {Max(s)}]
      BY <3>1
    <3> QED
      BY <2>1, <3>2
  <2>3. Is(g)
    BY <2>2
  <2> HIDE DEF g, Is
  <2> QED
    BY <2>3
<1>6. \A s \in SUBSET (1 .. n) : c[s] = IF s = {} THEN e ELSE Step(c[s \ {Max(s)}], Max(s))
  <2> HIDE DEF c
  <2> QED
    BY <1>5
<1> HIDE DEF c
<1> DEFINE h == [i \in 0 .. n |-> c[1 .. i]]
<1>7. h[0] = e /\ h[n] = c[1 .. n]
  <2>1. 1 .. 0 = {} /\ {} \in SUBSET (1 .. n) /\ 0 \in 0 .. n /\ n \in 0 .. n
    OBVIOUS
  <2> QED
    BY <1>6, <2>1
<1>8. ASSUME NEW i \in 1 .. n PROVE h[i] = Step(h[i - 1], i)
  <2>1. /\ 1 .. i # {} /\ Max(1 .. i) = i /\ (1 .. i) \ {i} = 1 .. i - 1
        /\ i - 1 \in 0 .. n /\ i \in 0 .. n /\ 1 .. i \in SUBSET (1 .. n)
    BY Beginnings
  <2>2. h[i] = c[1 .. i] /\ h[i - 1] = c[1 .. i - 1]
    BY <2>1
  <2> HIDE DEF h
  <2> QED
    BY <1>6, <2>1, <2>2
<1> HIDE DEF h
<1>9. \A i \in 1 .. n : h[i] = OnPacket(h[i - 1], Complete(e, j)[i], misread)
  BY <1>8 DEF Step
<1> QED
  BY <1>1, <1>7, <1>9 DEF HandledInTurn

\* The next message of the server's handshake, whichever it is.
LEMMA HearsNext ==
  ASSUME link # "broken",
         NEW c, NEW v \in Versions, NEW n \in Nat, NEW x \in Position, NEW b \in Nat,
         NEW k \in Nat, NEW g \in Nat, NEW q, NEW seen, x.at < 6,
         Client(c, v, n, x, b, k, g, q),
         NEW tls13 \in BOOLEAN, v = "tls12" => ~tls13, v = "tls13" => (tls13 <=> x.at > 0),
         NEW type, type = IF Names(v)[x.at + 1] = "CCS" THEN "ccs" ELSE "hs"
  PROVE  Client(OnMessage(c, tls13, type, Said(v, n, x.at + 1), seen),
                v, n, Moved(v, x), b, k, g, q)
<1>1. x.at \in 0 .. 5
  BY DEF Position
<1>2. CASE x.at = 0
  <2>1. type = "hs" /\ tls13 = FALSE /\ x.at + 1 = 1
    BY <1>2 DEF Versions, Names, StateSeq
  <2> QED
    BY <1>2, <2>1, HearsHello
<1>3. CASE v = "tls13" /\ x.at # 0
  <2>0. tls13 = TRUE
    BY <1>1, <1>3
  <2>1. CASE x.at = 1
    <3>1. type = "ccs" /\ x.at + 1 = 2
      BY <1>3, <2>1 DEF Names, StateSeq
    <3> QED
      BY <1>3, <2>0, <2>1, <3>1, HearsChange13
  <2>2. CASE x.at = 2
    <3>1. type = "hs" /\ x.at + 1 = 3
      BY <1>3, <2>2 DEF Names, StateSeq
    <3> QED
      BY <1>3, <2>0, <2>2, <3>1, HearsExtensions
  <2>3. CASE x.at = 3
    <3>1. type = "hs" /\ x.at + 1 = 4
      BY <1>3, <2>3 DEF Names, StateSeq
    <3> QED
      BY <1>3, <2>0, <2>3, <3>1, HearsCertificate13
  <2>4. CASE x.at = 4
    <3>1. type = "hs" /\ x.at + 1 = 5
      BY <1>3, <2>4 DEF Names, StateSeq
    <3> QED
      BY <1>3, <2>0, <2>4, <3>1, HearsVerify
  <2>5. CASE x.at = 5
    <3>1. type = "hs" /\ x.at + 1 = 6
      BY <1>3, <2>5 DEF Names, StateSeq
    <3> QED
      BY <1>3, <2>0, <2>5, <3>1, HearsFinished13
  <2> QED
    BY <1>1, <1>3, <2>1, <2>2, <2>3, <2>4, <2>5
<1>4. CASE v = "tls12" /\ x.at # 0
  <2>0. tls13 = FALSE
    BY <1>4
  <2>1. CASE x.at = 1
    <3>1. type = "hs" /\ x.at + 1 = 2
      BY <1>4, <2>1 DEF Names, StateSeq
    <3> QED
      BY <1>4, <2>0, <2>1, <3>1, HearsCertificate12
  <2>2. CASE x.at = 2
    <3>1. type = "hs" /\ x.at + 1 = 3
      BY <1>4, <2>2 DEF Names, StateSeq
    <3> QED
      BY <1>4, <2>0, <2>2, <3>1, HearsKeyExchange
  <2>3. CASE x.at = 3
    <3>1. type = "hs" /\ x.at + 1 = 4
      BY <1>4, <2>3 DEF Names, StateSeq
    <3> QED
      BY <1>4, <2>0, <2>3, <3>1, HearsDone
  <2>4. CASE x.at = 4
    <3>1. type = "ccs" /\ x.at + 1 = 5
      BY <1>4, <2>4 DEF Names, StateSeq
    <3> QED
      BY <1>4, <2>0, <2>4, <3>1, HearsChange12
  <2>5. CASE x.at = 5
    <3>1. type = "hs" /\ x.at + 1 = 6
      BY <1>4, <2>5 DEF Names, StateSeq
    <3> QED
      BY <1>4, <2>0, <2>5, <3>1, HearsFinished12
  <2> QED
    BY <1>1, <1>4, <2>1, <2>2, <2>3, <2>4, <2>5
<1> QED
  BY <1>2, <1>3, <1>4 DEF Versions

(* ----------------------- records the server may send ------------------------ *)

SealedAt(v, p) == IF v = "tls13" THEN p > 0 ELSE p > 4
SealKey(v, n, p) == CASE v = "tls12" -> Key12("server", n)
                      [] v = "tls13" /\ p < 6 -> HsKey("server", n)
                      [] OTHER -> ApKey("server", n)
Record(v, n, p, seq, type, msgs) ==
  LET sealed == SealedAt(v, p) /\ type # "ccs"
  IN  [outer |-> IF sealed /\ v = "tls13" THEN "data" ELSE type,
       type |-> type, msgs |-> msgs,
       key |-> IF sealed THEN SealKey(v, n, p) ELSE Plain,
       seq |-> IF sealed THEN seq ELSE 0]

\* The position once a record of that type has been opened, or left as it is.
Opened(v, x, type) ==
  [x EXCEPT !.seq = IF SealedAt(v, x.at) /\ type # "ccs" /\ (v = "tls13" \/ type # "alert")
                    THEN @ + 1 ELSE @]

\* A client that differs in its sequence number only.
LEMMA Recounted ==
  ASSUME NEW c, NEW d, NEW v \in Versions, NEW n, NEW x \in Position, NEW y \in Position,
         NEW b, NEW k, NEW g, NEW q, Client(c, v, n, x, b, k, g, q), Same(c, d, {"serverSeq"}),
         d.serverSeq = y.seq, y.at = x.at, y.units = x.units
  PROVE  Client(d, v, n, y, b, k, g, q)
<1>1. /\ DOMAIN d = Fields /\ d.sock = c.sock /\ d.err = c.err /\ d.closeNotify = c.closeNotify
      /\ d.clientRand = c.clientRand /\ d.readed = c.readed /\ d.channel = c.channel
      /\ d.idx = c.idx /\ d.cipher = c.cipher /\ d.encoding = c.encoding /\ d.hash = c.hash
      /\ d.serverRand = c.serverRand /\ d.localKey = c.localKey /\ d.remoteKey = c.remoteKey
      /\ d.out = c.out /\ d.clientSeq = c.clientSeq
  BY DEF Same, Fields
<1>2. ClientAt(d, v, n, y)
  BY <1>1 DEF Client, ClientAt
<1>3. ClientKeys(d, v, n, y)
  BY <1>1 DEF Client, ClientKeys
<1>4. Sending(d, v, n, y, b, k)
  BY <1>1 DEF Client, Sending
<1>5. Holds(d, n, g, y)
  BY <1>1 DEF Client, Holds
<1> QED
  BY <1>1, <1>2, <1>3, <1>4, <1>5 DEF Client

\* What decode makes of a record that is sealed as the client expects it.
LEMMA Decoding ==
  ASSUME NEW c, NEW v \in Versions, NEW n \in Nat, NEW x \in Position, NEW b, NEW k,
         NEW g, NEW q, Client(c, v, n, x, b, k, g, q), NEW type, type # "ccs",
         v = "tls12" => x.at # 4,
         NEW msgs, NEW r, r = Record(v, n, x.at, x.seq, type, msgs)
  PROVE  Client(Decode(c, r), v, n, [x EXCEPT !.seq = IF SealedAt(v, x.at) THEN @ + 1 ELSE @],
                b, k, g, q)
<1> DEFINE d == Decode(c, r)
           y == [x EXCEPT !.seq = IF SealedAt(v, x.at) THEN @ + 1 ELSE @]
<1>1. /\ DOMAIN c = Fields /\ c.err = None /\ c.serverSeq = x.seq
      /\ c.encoding = (IF x.at >= (IF v = "tls12" THEN 4 ELSE 1) THEN TRUE ELSE FALSE)
  BY DEF Client, ClientAt
<1>2. x.at \in 0 .. 6 /\ x.seq \in Nat /\ v \in {"tls12", "tls13"}
  BY DEF Position, Versions
<1>3. y \in Position /\ y.at = x.at /\ y.units = x.units
      /\ y.seq = IF SealedAt(v, x.at) THEN x.seq + 1 ELSE x.seq
  BY DEF Position
<1> HIDE DEF y
<1>4. CASE SealedAt(v, x.at)
  <2>1. c.encoding = TRUE
    BY <1>1, <1>2, <1>4 DEF SealedAt
  <2>2. r.key = SealKey(v, n, x.at) /\ r.seq = x.seq
    BY <1>4 DEF Record
  <2>3. c.remoteKey = SealKey(v, n, x.at)
    <3>1. CASE v = "tls12"
      <4>1. x.at >= 3
        BY <1>2, <1>4, <3>1 DEF SealedAt
      <4> QED
        BY <3>1, <4>1 DEF SealKey, Client, ClientKeys
    <3>2. CASE v = "tls13" /\ x.at < 6
      <4>1. x.at \in 1 .. 5
        BY <1>2, <1>4, <3>2 DEF SealedAt
      <4> QED
        BY <3>2, <4>1 DEF SealKey, Client, ClientKeys
    <3>3. CASE v = "tls13" /\ x.at = 6
      BY <3>3 DEF SealKey, Client, ClientKeys
    <3> QED
      BY <1>2, <3>1, <3>2, <3>3
  <2>4. Opens(c, r)
    BY <1>1, <2>2, <2>3 DEF Opens
  <2>5. d = [c EXCEPT !.serverSeq = c.serverSeq + 1, !.err = c.err]
    BY <2>1, <2>4 DEF Decode
  <2> HIDE DEF d
  <2>6. d.serverSeq = c.serverSeq + 1 /\ d.err = c.err /\ Same(c, d, {"serverSeq", "err"})
    BY <1>1, <2>5 DEF Same, Fields
  <2>7. Same(c, d, {"serverSeq"})
    BY <2>6 DEF Same
  <2>8. d.serverSeq = y.seq
    BY <1>1, <1>3, <1>4, <2>6
  <2>9. Client(d, v, n, y, b, k, g, q)
    BY <1>3, <2>7, <2>8, Recounted
  <2> QED
    BY <2>9 DEF d, y
<1>5. CASE ~SealedAt(v, x.at)
  <2>1. c.encoding = FALSE
    BY <1>1, <1>2, <1>5 DEF SealedAt
  <2>2. r.key = Plain
    BY <1>5 DEF Record
  <2>5. d = [c EXCEPT !.err = c.err]
    BY <2>1, <2>2 DEF Decode
  <2> HIDE DEF d
  <2>7. Same(c, d, {"serverSeq"}) /\ d.serverSeq = c.serverSeq
    BY <1>1, <2>5 DEF Same, Fields
  <2>8. d.serverSeq = y.seq
    BY <1>1, <1>3, <1>5, <2>7
  <2>9. Client(d, v, n, y, b, k, g, q)
    BY <1>3, <2>7, <2>8, Recounted
  <2> QED
    BY <2>9 DEF d, y
<1> QED
  BY <1>4, <1>5

Types == {"hs", "ccs", "data", "alert"}

\* The parts of a position.
LEMMA PositionFacts ==
  ASSUME NEW x, x \in Position
  PROVE  /\ x.at \in 0 .. 6 /\ x.seq \in Nat /\ x.units \in Nat
         /\ \A a \in 0 .. 6, s \in Nat, u \in Nat : [at |-> a, seq |-> s, units |-> u] \in Position
BY DEF Position

\* The parts of a record the server sends.
LEMMA RecordFacts ==
  ASSUME NEW v, NEW n, NEW p, NEW seq, NEW type, NEW msgs, NEW r,
         r = Record(v, n, p, seq, type, msgs)
  PROVE  /\ r.msgs = msgs /\ r.type = type
         /\ r.outer = IF SealedAt(v, p) /\ type # "ccs" /\ v = "tls13" THEN "data" ELSE type
         /\ r.key = IF SealedAt(v, p) /\ type # "ccs" THEN SealKey(v, n, p) ELSE Plain
BY DEF Record

\* The server never seals with the absence of a key.
LEMMA SealKeyNotPlain ==
  ASSUME NEW v, NEW n, NEW p
  PROVE  SealKey(v, n, p) # Plain
BY KeyNotPlain DEF SealKey, Key12, HsKey, ApKey

\* Opening a record counts it, unless it is clear.
LEMMA OpenedFacts ==
  ASSUME NEW v \in Versions, NEW x, x \in Position, NEW type, NEW y, y = Opened(v, x, type)
  PROVE  /\ y \in Position /\ y.at = x.at /\ y.units = x.units
         /\ y.seq = IF SealedAt(v, x.at) /\ type # "ccs" /\ (v = "tls13" \/ type # "alert")
                    THEN x.seq + 1 ELSE x.seq
BY DEF Opened, Position

\* Once r is opened, c is at the position after it and takes it for what it is.
FoundOpened(c, r, misread, v, n, x, b, k, g, q, type, msgs) ==
  /\ Client(Decoded(c, r), v, n, Opened(v, x, type), b, k, g, q)
  /\ c.err = None /\ Decoded(c, r).err = None
  /\ c.cipher = "tls13" <=> (v = "tls13" /\ x.at > 0)
  /\ TypeIn(c, r) = type
  /\ SeenIn(c, r, misread) = IF v = "tls12" /\ type = "alert" /\ SealedAt(v, x.at)
                             THEN misread ELSE msgs[1]

\* The clients h[0] .. h[l] before, between and after the messages of a record.
HeardInTurn(h, tls13, seen, v, n, x, b, k, g, q, type, msgs, l, misread) ==
  /\ Client(h[0], v, n, Opened(v, x, type), b, k, g, q)
  /\ tls13 \in BOOLEAN /\ (tls13 <=> (v = "tls13" /\ x.at > 0))
  /\ seen = IF v = "tls12" /\ type = "alert" /\ SealedAt(v, x.at) THEN misread ELSE msgs[1]
  /\ \A i \in 1 .. l : h[i] = OnMessage(h[i - 1], tls13, type, msgs[i], seen)

HeardRecord(c, r, misread, v, n, x, b, k, g, q, type, msgs, l) ==
  \E h, tls13, seen :
    /\ HeardInTurn(h, tls13, seen, v, n, x, b, k, g, q, type, msgs, l, misread)
    /\ h[l] = OnPacket(c, r, misread)

\* What the client has before it when the messages of a record are handled.
LEMMA RecordOpened ==
  ASSUME NEW c, NEW v \in Versions, NEW n \in Nat, NEW x, x \in Position, NEW b, NEW k,
         NEW g, NEW q, Client(c, v, n, x, b, k, g, q), NEW type, type \in Types,
         v = "tls12" /\ x.at = 4 => type \in {"ccs", "alert"},
         NEW msgs, NEW r, r = Record(v, n, x.at, x.seq, type, msgs), NEW misread
  PROVE  FoundOpened(c, r, misread, v, n, x, b, k, g, q, type, msgs)
<1> DEFINE y == Opened(v, x, type)
           y1 == [x EXCEPT !.seq = IF SealedAt(v, x.at) THEN @ + 1 ELSE @]
           d == Decoded(c, r)
           outer == IF SealedAt(v, x.at) /\ type # "ccs" /\ v = "tls13" THEN "data" ELSE type
<1>1. v \in {"tls12", "tls13"} /\ x.at \in 0 .. 6
  BY PositionFacts DEF Versions
<1>2. /\ r.msgs = msgs /\ r.type = type /\ r.outer = outer
      /\ r.key = IF SealedAt(v, x.at) /\ type # "ccs" THEN SealKey(v, n, x.at) ELSE Plain
  BY RecordFacts
<1>3. c.err = None /\ c.cipher = (IF x.at = 0 THEN None ELSE v)
  BY DEF Client, ClientAt
<1>4. c.cipher = "tls13" <=> (v = "tls13" /\ x.at > 0)
  BY <1>1, <1>3 DEF None
<1>5. IsClear(outer) <=> type = "ccs" \/ (type = "alert" /\ ~(SealedAt(v, x.at) /\ v = "tls13"))
  BY DEF IsClear, Types
<1>6. Client(d, v, n, y, b, k, g, q)
  <2>1. CASE IsClear(outer)
    <3>1. y.seq = x.seq /\ y.at = x.at /\ y.units = x.units /\ y \in Position
      BY <1>1, <1>5, <2>1, OpenedFacts DEF Types
    <3>2. d = c
      BY <1>2, <2>1 DEF Decoded
    <3>3. Same(c, c, {"serverSeq"}) /\ c.serverSeq = y.seq
      BY <3>1 DEF Same, Client, ClientAt
    <3> HIDE DEF d, y
    <3>4. Client(c, v, n, y, b, k, g, q)
      BY <3>1, <3>3, Recounted
    <3> QED
      BY <3>2, <3>4
  <2>2. CASE ~IsClear(outer)
    <3>1. type # "ccs" /\ (v = "tls12" => x.at # 4)
      BY <1>1, <1>5, <2>2 DEF SealedAt
    <3>2. Client(Decode(c, r), v, n, y1, b, k, g, q)
      BY <3>1, Decoding
    <3>3. y1 = y
      <4>1. type # "alert" \/ v = "tls13" \/ ~SealedAt(v, x.at)
        BY <1>1, <1>5, <2>2, <3>1
      <4> QED
        BY <3>1, <4>1 DEF Opened
    <3>4. d = Decode(c, r)
      BY <1>2, <2>2 DEF Decoded
    <3> QED
      BY <3>2, <3>3, <3>4
  <2> QED
    BY <2>1, <2>2
<1>8. d.err = None /\ d.encoding = (IF x.at >= (IF v = "tls12" THEN 4 ELSE 1) THEN TRUE ELSE FALSE)
  <2>1. y.at = x.at
    BY OpenedFacts
  <2> HIDE DEF d, y
  <2> QED
    BY <1>6, <2>1 DEF Client, ClientAt
<1>9. TypeIn(c, r) = type
  <2>1. CASE v = "tls13" /\ SealedAt(v, x.at) /\ type # "ccs"
    <3>1. outer = "data" /\ c.cipher = "tls13" /\ d.encoding = TRUE
      BY <1>1, <1>4, <1>8, <2>1 DEF SealedAt
    <3>2. ~IsClear(outer)
      BY <3>1 DEF IsClear
    <3> QED
      BY <1>2, <3>1, <3>2 DEF TypeIn
  <2>2. CASE ~(v = "tls13" /\ SealedAt(v, x.at) /\ type # "ccs")
    BY <1>2, <2>2 DEF TypeIn
  <2> QED
    BY <2>1, <2>2
<1>10. SeenIn(c, r, misread) = IF v = "tls12" /\ type = "alert" /\ SealedAt(v, x.at)
                               THEN misread ELSE msgs[1]
  <2>1. type = "alert" /\ IsClear(outer) /\ r.key # Plain
          <=> v = "tls12" /\ type = "alert" /\ SealedAt(v, x.at)
    BY <1>1, <1>2, <1>5, SealKeyNotPlain
  <2> QED
    BY <1>2, <1>9, <2>1 DEF SeenIn
<1> QED
  BY <1>3, <1>4, <1>6, <1>8, <1>9, <1>10 DEF FoundOpened

\* The messages of such a record, in turn, with the client that each one finds.
LEMMA RecordHeard ==
  ASSUME NEW c, NEW v \in Versions, NEW n \in Nat, NEW x, x \in Position, NEW b, NEW k,
         NEW g, NEW q, Client(c, v, n, x, b, k, g, q), NEW type, type \in Types,
         v = "tls12" /\ x.at = 4 => type \in {"ccs", "alert"},
         NEW l \in Nat, NEW msgs, DOMAIN msgs = 1 .. l,
         NEW r, r = Record(v, n, x.at, x.seq, type, msgs), NEW misread
  PROVE  HeardRecord(c, r, misread, v, n, x, b, k, g, q, type, msgs, l)
<1>0. FoundOpened(c, r, misread, v, n, x, b, k, g, q, type, msgs)
  BY RecordOpened
<1>1. /\ Client(Decoded(c, r), v, n, Opened(v, x, type), b, k, g, q)
      /\ c.err = None /\ Decoded(c, r).err = None
      /\ c.cipher = "tls13" <=> (v = "tls13" /\ x.at > 0)
      /\ TypeIn(c, r) = type
      /\ SeenIn(c, r, misread) = IF v = "tls12" /\ type = "alert" /\ SealedAt(v, x.at)
                                 THEN misread ELSE msgs[1]
  BY <1>0 DEF FoundOpened
<1>2. msgs = r.msgs
  BY RecordFacts
<1>3. PICK h : InTurn(h, c, r, misread, msgs, l)
  BY <1>1, <1>2, MessagesInTurn
<1> DEFINE tls13 == c.cipher = "tls13"
           seen == SeenIn(c, r, misread)
<1>4. \A i \in 1 .. l : h[i] = OnMessage(h[i - 1], tls13, type, msgs[i], seen)
  BY <1>1, <1>3 DEF InTurn
<1>5. Client(h[0], v, n, Opened(v, x, type), b, k, g, q) /\ h[l] = OnPacket(c, r, misread)
  BY <1>1, <1>3 DEF InTurn
<1>6. tls13 \in BOOLEAN /\ (tls13 <=> (v = "tls13" /\ x.at > 0))
      /\ seen = IF v = "tls12" /\ type = "alert" /\ SealedAt(v, x.at) THEN misread ELSE msgs[1]
  BY <1>1
<1>7. HeardInTurn(h, tls13, seen, v, n, x, b, k, g, q, type, msgs, l, misread)
  BY <1>4, <1>5, <1>6 DEF HeardInTurn
<1> HIDE DEF tls13, seen
<1> QED
  BY <1>5, <1>7 DEF HeardRecord

\* The records of the server that is at x and at y after it: messages of the
\* handshake, data, a ticket or a warning, and an alert that ends the stream.
TypeAt(v, p) == IF Names(v)[p + 1] = "CCS" THEN "ccs" ELSE "hs"
SaidAfter(v, n, p, l) == [i \in 1 .. l |-> Said(v, n, p + i)]
After(v, x, type, i) ==
  [at |-> x.at + i, units |-> x.units,
   seq |-> IF v = "tls13" /\ x.at < 6 /\ x.at + i = 6 THEN 0 ELSE Opened(v, x, type).seq]

Spoken(v, n, r, x, y) ==
  \E l \in 1 .. 6 - x.at :
    /\ l > 1 => IF v = "tls13" THEN x.at >= 2 ELSE x.at + l <= 4
    /\ r = Record(v, n, x.at, x.seq, TypeAt(v, x.at), SaidAfter(v, n, x.at, l))
    /\ y = After(v, x, TypeAt(v, x.at), l)

Written(v, n, r, x, y) ==
  \E l \in 1 .. 2 :
    /\ x.at = 6 /\ r = Record(v, n, 6, x.seq, "data", Slice(Units(n), x.units, l))
    /\ y = [at |-> 6, units |-> x.units + l, seq |-> x.seq + 1]

Extra(v, n, r, x, y) ==
  /\ x.at = 6 /\ v = "tls13"
  /\ \/ r = Record(v, n, 6, x.seq, "hs", << Msg("NST", None) >>)
     \/ r = Record(v, n, 6, x.seq, "alert", << "warning" >>)
  /\ y = [at |-> 6, units |-> x.units, seq |-> x.seq + 1]

Ending(v, n, r, x, y) ==
  /\ \/ x.at = 6 /\ r = Record(v, n, 6, x.seq, "alert", << "close_notify" >>)
     \/ r = Record(v, n, x.at, x.seq, "alert", << "fatal" >>)
  /\ y = Opened(v, x, "alert")

\* The client hears a record of messages of the handshake.
LEMMA SpokenPacket ==
  ASSUME link # "broken",
         NEW c, NEW v \in Versions, NEW n \in Nat, NEW x, x \in Position, NEW b \in Nat,
         NEW k \in Nat, NEW g \in Nat, NEW q, Client(c, v, n, x, b, k, g, q),
         NEW r, NEW y, Spoken(v, n, r, x, y), NEW misread
  PROVE  y \in Position /\ Client(OnPacket(c, r, misread), v, n, y, b, k, g, q)
<1>a. PICK type : type = TypeAt(v, x.at)
  OBVIOUS
<1>0. x.at \in 0 .. 6 /\ x.seq \in Nat /\ x.units \in Nat /\ v \in {"tls12", "tls13"}
  BY PositionFacts DEF Versions
<1>1. PICK l \in 1 .. 6 - x.at :
         /\ l > 1 => IF v = "tls13" THEN x.at >= 2 ELSE x.at + l <= 4
         /\ r = Record(v, n, x.at, x.seq, type, SaidAfter(v, n, x.at, l))
         /\ y = After(v, x, type, l)
  BY <1>a DEF Spoken
<1>2. l \in Nat /\ l >= 1 /\ x.at + l <= 6 /\ x.at < 6
  BY <1>0, <1>1
<1>3. type \in Types /\ (v = "tls12" /\ x.at = 4 => type \in {"ccs", "alert"})
  BY <1>a DEF TypeAt, Types, Names, StateSeq
<1>b. PICK msgs : msgs = SaidAfter(v, n, x.at, l)
  OBVIOUS
<1>4. DOMAIN msgs = 1 .. l /\ \A i \in 1 .. l : msgs[i] = Said(v, n, x.at + i)
  BY <1>b DEF SaidAfter
<1>5. r = Record(v, n, x.at, x.seq, type, msgs)
  BY <1>1, <1>b
<1>c. l \in Nat /\ DOMAIN msgs = 1 .. l
  BY <1>2, <1>4
<1>d. type \in Types
  BY <1>3
<1>e. v = "tls12" /\ x.at = 4 => type \in {"ccs", "alert"}
  BY <1>3
<1>f. HeardRecord(c, r, misread, v, n, x, b, k, g, q, type, msgs, l)
  BY <1>c, <1>d, <1>e, <1>5, RecordHeard
<1>6. PICK h, tls13, seen :
         /\ HeardInTurn(h, tls13, seen, v, n, x, b, k, g, q, type, msgs, l, misread)
         /\ h[l] = OnPacket(c, r, misread)
  BY <1>f DEF HeardRecord
<1>7. /\ Client(h[0], v, n, Opened(v, x, type), b, k, g, q)
      /\ tls13 \in BOOLEAN /\ (tls13 <=> (v = "tls13" /\ x.at > 0))
      /\ \A i \in 1 .. l : h[i] = OnMessage(h[i - 1], tls13, type, msgs[i], seen)
  BY <1>6 DEF HeardInTurn
<1>8. Opened(v, x, type) = After(v, x, type, 0)
  <2>1. x = [at |-> x.at, seq |-> x.seq, units |-> x.units]
    BY DEF Position
  <2> DEFINE s == IF SealedAt(v, x.at) /\ type # "ccs" /\ (v = "tls13" \/ type # "alert")
                  THEN x.seq + 1 ELSE x.seq
  <2> HIDE DEF s
  <2>2. [x EXCEPT !.seq = s] = [at |-> x.at, seq |-> s, units |-> x.units]
    BY <2>1
  <2>3. Opened(v, x, type) = [at |-> x.at, seq |-> s, units |-> x.units]
    BY <2>2 DEF Opened, s
  <2> QED
    BY <1>0, <1>2, <2>3 DEF After
<1>9. \A i \in 0 .. l : After(v, x, type, i) \in Position
                        /\ After(v, x, type, i).at = x.at + i
  BY <1>0, <1>2, OpenedFacts DEF After, Position
<1> DEFINE T == {i \in 0 .. l : Client(h[i], v, n, After(v, x, type, i), b, k, g, q)}
<1>10. 0 \in T
  BY <1>2, <1>7, <1>8
<1>11. ASSUME NEW i \in 0 .. l, i \in T, i < l PROVE i + 1 \in T
  <2> DEFINE p == After(v, x, type, i)
             t == TypeAt(v, p.at)
             d == OnMessage(h[i], tls13, t, Said(v, n, p.at + 1), seen)
  <2>1. Client(h[i], v, n, p, b, k, g, q)
    BY <1>11
  <2>2. p \in Position /\ p.at = x.at + i /\ i \in 0 .. 6 /\ i + 1 \in 1 .. l /\ p.at < 6
    BY <1>0, <1>2, <1>9, <1>11
  <2>3. t = type
    <3>1. CASE i = 0
      BY <1>0, <1>a, <2>2, <3>1
    <3>2. CASE i # 0
      <4>1. IF v = "tls13" THEN x.at >= 2 ELSE x.at + l <= 4
        BY <1>1, <1>2, <1>11, <3>2
      <4>2. IF v = "tls13" THEN x.at >= 2 /\ p.at \in 2 .. 5 ELSE x.at \in 0 .. 3 /\ p.at \in 0 .. 3
        BY <1>0, <1>2, <2>2, <4>1
      <4>3. \A a \in 2 .. 5 : TypeAt("tls13", a) = "hs"
        BY DEF TypeAt, Names, StateSeq
      <4>4. \A a \in 0 .. 3 : TypeAt("tls12", a) = "hs"
        BY DEF TypeAt, Names, StateSeq
      <4>5. CASE v = "tls13"
        <5>1. x.at \in 2 .. 5
          BY <1>0, <1>2, <4>2, <4>5
        <5> QED
          BY <4>2, <4>3, <4>5, <5>1, <1>a
      <4>6. CASE v = "tls12"
        BY <4>2, <4>4, <4>6, <1>a
      <4> QED
        BY <1>0, <4>5, <4>6
    <3> QED
      BY <3>1, <3>2
  <2>4. v = "tls12" => ~tls13
    BY <1>7
  <2>5. v = "tls13" => (tls13 <=> p.at > 0)
    <3>1. CASE i = 0
      BY <1>0, <1>7, <2>2, <3>1
    <3>2. CASE i # 0
      BY <1>0, <1>1, <1>2, <1>7, <1>11, <2>2, <3>2
    <3> QED
      BY <3>1, <3>2
  <2> HIDE DEF p, t
  <2>6. t = IF Names(v)[p.at + 1] = "CCS" THEN "ccs" ELSE "hs"
    BY DEF t, TypeAt
  <2>7. Client(d, v, n, Moved(v, p), b, k, g, q)
    BY <1>7, <2>1, <2>2, <2>4, <2>5, <2>6, HearsNext
  <2>8. h[i + 1] = d
    <3>1. h[i + 1] = OnMessage(h[(i + 1) - 1], tls13, type, msgs[i + 1], seen)
      BY <1>7, <2>2
    <3>2. (i + 1) - 1 = i /\ msgs[i + 1] = Said(v, n, p.at + 1)
      <4>1. x.at + (i + 1) = p.at + 1
        BY <1>0, <2>2
      <4>2. msgs[i + 1] = Said(v, n, x.at + (i + 1))
        BY <1>4, <2>2
      <4> QED
        BY <2>2, <4>1, <4>2
    <3> QED
      BY <2>3, <3>1, <3>2
  <2>9. Moved(v, p) = After(v, x, type, i + 1)
    BY <1>0, <1>2, <2>2 DEF p, After, Moved
  <2>10. i + 1 \in 0 .. l
    BY <1>2, <2>2
  <2> HIDE DEF d
  <2> QED
    BY <2>7, <2>8, <2>9, <2>10
<1>12. l \in T
  <2>1. l \in 0 .. l
    BY <1>2
  <2> HIDE DEF T
  <2>2. \A i \in 0 .. l : i \in T
    BY <1>2, <1>10, <1>11, UpTo
  <2> QED
    BY <2>1, <2>2
<1> QED
  BY <1>1, <1>2, <1>6, <1>9, <1>12

\* A unit more makes the slice of the stream one longer.
LEMMA OneMoreUnit ==
  ASSUME NEW n, NEW b \in Nat, NEW l \in Nat, NEW i, i = b + l + 1, NEW h, h = l + 1
  PROVE  Makes(Slice(Units(n), b, l), Units(n)[i], Slice(Units(n), b, h))
<1>1. Append(Slice(Units(n), b, l), Units(n)[i]) = Slice(Units(n), b, h)
  BY SliceGrows
<1> QED
  BY <1>1 DEF Makes

(* --------------------------- after the handshake ---------------------------- *)

\* The client after the handshake, whose channel or flag has changed at most.
LEMMA AfterHandshake ==
  ASSUME NEW c, NEW d, NEW v \in Versions, NEW n, NEW x, x \in Position, NEW y, y \in Position,
         NEW b, NEW k, NEW g, NEW q, NEW p, Client(c, v, n, x, b, k, g, q),
         x.at = 6 \/ Same(c, d, {"channel", "closeNotify"}), y.at = x.at, y.seq = x.seq,
         Same(c, d, {"channel", "closeNotify", "hash"}), d.closeNotify = p, Holds(d, n, g, y)
  PROVE  Client(d, v, n, y, b, k, g, p)
<1>1. /\ DOMAIN d = Fields /\ d.sock = c.sock /\ d.err = c.err
      /\ d.clientRand = c.clientRand /\ d.serverSeq = c.serverSeq
      /\ d.idx = c.idx /\ d.cipher = c.cipher /\ d.encoding = c.encoding
      /\ d.serverRand = c.serverRand /\ d.localKey = c.localKey /\ d.remoteKey = c.remoteKey
      /\ d.out = c.out /\ d.clientSeq = c.clientSeq
  BY DEF Same, Fields
<1>2. x.at = 6 \/ d.hash = c.hash
  BY DEF Same, Fields
<1>3. ClientAt(d, v, n, y)
  BY <1>1, <1>2 DEF Client, ClientAt
<1>4. ClientKeys(d, v, n, y)
  BY <1>1 DEF Client, ClientKeys
<1>5. Sending(d, v, n, y, b, k)
  BY <1>1 DEF Client, Sending
<1> QED
  BY <1>1, <1>3, <1>4, <1>5 DEF Client

More(x, l) == [at |-> x.at, seq |-> x.seq, units |-> x.units + l]

\* One unit of data: it comes last in the channel.
LEMMA HearsData ==
  ASSUME NEW c, NEW v \in Versions, NEW n \in Nat, NEW x, x \in Position, NEW b, NEW k,
         NEW g, g \in Nat, NEW q, NEW seen, NEW tls13 \in BOOLEAN, x.at = 6,
         v = "tls12" => ~tls13, Client(c, v, n, x, b, k, g, q)
  PROVE  Client(OnMessage(c, tls13, "data", Units(n)[x.units + 1], seen), v, n, More(x, 1), b, k, g, q)
<1> DEFINE m == Units(n)[x.units + 1]
           d == OnMessage(c, tls13, "data", m, seen)
           e == NotCounted(c)
           y == More(x, 1)
<1>1. /\ DOMAIN c = Fields /\ c.err = None /\ c.idx = (IF v = "tls12" THEN 4 ELSE 6)
      /\ Holds(c, n, g, x) /\ c.closeNotify = q
  BY DEF Client, ClientAt
<1>2. ~(c.idx < StatesCount(tls13))
  BY <1>1 DEF StatesCount, Versions
<1>3. d = TakenIn(e, m)
  BY <1>1, <1>2, Unchecked
<1>4. Same(c, e, {"idx"}) /\ e.idx = c.idx
  BY <1>1, Counting
<1>5. DOMAIN e = Fields /\ e.channel = c.channel
  BY <1>4 DEF Same, Fields
<1> HIDE DEF e, m
<1>6. Same(e, d, {"channel"}) /\ d.channel = Append(c.channel, m)
  BY <1>3, <1>5 DEF Same, Fields, TakenIn
<1>7. Same(c, d, {"channel"})
  <2>1. Same(c, e, {})
    BY <1>4 DEF Same
  <2>2. Same(c, d, {} \cup {"channel"})
    BY <1>6, <2>1, SameSame
  <2>3. {} \cup {"channel"} = {"channel"}
    OBVIOUS
  <2> QED
    BY <2>2, <2>3
<1> HIDE DEF d
<1>8. d.closeNotify = q /\ d.readed = c.readed
  BY <1>1, <1>7 DEF Same, Fields
<1>9. y \in Position /\ y.at = x.at /\ y.seq = x.seq /\ y.units = x.units + 1
      /\ x.units \in Nat
  BY DEF Position, More
<1>10. Holds(d, n, g, y)
  <2> DEFINE f == g - c.readed
             l == x.units - f
  <2>1. /\ c.readed \in 0 .. g /\ g <= x.units /\ c.channel = Slice(Units(n), f, l)
    BY <1>1 DEF Holds
  <2>2. f \in Nat /\ l \in Nat /\ x.units + 1 = f + l + 1 /\ (x.units + 1) - f = l + 1
    BY <1>9, <2>1
  <2>3. Makes(Slice(Units(n), f, l), Units(n)[x.units + 1], Slice(Units(n), f, l + 1))
    BY <2>2, OneMoreUnit
  <2>4. Append(c.channel, m) = Slice(Units(n), f, (x.units + 1) - f)
    BY <2>1, <2>2, <2>3 DEF Makes, m
  <2> QED
    BY <1>6, <1>8, <1>9, <2>1, <2>4 DEF Holds
<1> HIDE DEF y
<1>11. Same(c, d, {"channel", "closeNotify", "hash"})
  BY <1>7, SameMore
<1>12. Client(d, v, n, y, b, k, g, q)
  BY <1>8, <1>9, <1>10, <1>11, AfterHandshake
<1> QED
  BY <1>12 DEF d, m, y

\* A session ticket is counted in the transcript, which matters no longer.
LEMMA HearsTicket ==
  ASSUME NEW c, NEW v \in Versions, NEW n \in Nat, NEW x, x \in Position, NEW b, NEW k,
         NEW g, g \in Nat, NEW q, NEW seen, NEW tls13 \in BOOLEAN, x.at = 6,
         v = "tls12" => ~tls13, Client(c, v, n, x, b, k, g, q)
  PROVE  Client(OnMessage(c, tls13, "hs", Msg("NST", None), seen), v, n, x, b, k, g, q)
<1> DEFINE m == Msg("NST", None)
           d == OnMessage(c, tls13, "hs", m, seen)
           e == NotCounted(c)
<1>1. /\ DOMAIN c = Fields /\ c.err = None /\ c.idx = (IF v = "tls12" THEN 4 ELSE 6)
      /\ Holds(c, n, g, x) /\ c.closeNotify = q
  BY DEF Client, ClientAt
<1>2. ~(c.idx < StatesCount(tls13))
  BY <1>1 DEF StatesCount, Versions
<1>3. d = OnHandshake(e, m)
  BY <1>1, <1>2, Unchecked
<1>4. Same(c, e, {"idx"}) /\ e.idx = c.idx
  BY <1>1, Counting
<1>5. DOMAIN e = Fields /\ Same(c, e, {})
  BY <1>4 DEF Same
<1>6. m.name = "NST"
  BY DEF Msg
<1> HIDE DEF e, m
<1>7. d = UpdateHash(e, m)
  BY <1>3, <1>6, OfHandshake
<1>8. Same(e, d, {"hash"})
  BY <1>5, <1>7, Hashing
<1>9. Same(c, d, {} \cup {"hash"})
  BY <1>5, <1>8, SameSame
<1> HIDE DEF d
<1>10. d.closeNotify = q /\ d.readed = c.readed /\ d.channel = c.channel
       /\ Same(c, d, {"channel", "closeNotify", "hash"})
  BY <1>1, <1>9 DEF Same, Fields
<1>11. Holds(d, n, g, x)
  BY <1>1, <1>10 DEF Holds
<1>12. Client(d, v, n, x, b, k, g, q)
  BY <1>10, <1>11, AfterHandshake
<1> QED
  BY <1>12 DEF d, m

\* An alert ends the connection, is remembered, or changes nothing.
LEMMA HearsAlert ==
  ASSUME NEW c, NEW v \in Versions, NEW n \in Nat, NEW x, x \in Position, NEW b, NEW k,
         NEW g, g \in Nat, NEW q, NEW seen, NEW tls13, NEW m, Client(c, v, n, x, b, k, g, q)
  PROVE  /\ seen = "close_notify" =>
              Client(OnMessage(c, tls13, "alert", m, seen), v, n, x, b, k, g, TRUE)
         /\ seen = "fatal" => OnMessage(c, tls13, "alert", m, seen).err = "fatal alert"
         /\ seen \notin {"close_notify", "fatal"} =>
              Client(OnMessage(c, tls13, "alert", m, seen), v, n, x, b, k, g, q)
<1> DEFINE d == OnMessage(c, tls13, "alert", m, seen)
           e == NotCounted(c)
<1>1. DOMAIN c = Fields /\ c.err = None /\ Holds(c, n, g, x) /\ c.closeNotify = q
  BY DEF Client, ClientAt
<1>3. d = OnAlert(e, seen)
  BY <1>1 DEF OnMessage, NotCounted
<1>4. Same(c, e, {"idx"}) /\ e.idx = c.idx
  BY <1>1, Counting
<1>5. DOMAIN e = Fields /\ Same(c, e, {})
  BY <1>4 DEF Same
<1> HIDE DEF e
<1>6. CASE seen = "close_notify"
  <2>1. d = [e EXCEPT !.closeNotify = TRUE]
    BY <1>3, <1>6 DEF OnAlert
  <2>2. Same(e, d, {"closeNotify"}) /\ d.closeNotify = TRUE
    BY <1>5, <2>1 DEF Same, Fields
  <2>3. Same(c, d, {} \cup {"closeNotify"})
    BY <1>5, <2>2, SameSame
  <2> HIDE DEF d
  <2>4. /\ Same(c, d, {"channel", "closeNotify"}) /\ Same(c, d, {"channel", "closeNotify", "hash"})
        /\ d.readed = c.readed /\ d.channel = c.channel
    BY <2>3 DEF Same, Fields
  <2>5. Holds(d, n, g, x)
    BY <1>1, <2>4 DEF Holds
  <2>6. Client(d, v, n, x, b, k, g, TRUE)
    BY <2>2, <2>4, <2>5, AfterHandshake
  <2> QED
    BY <1>6, <2>6 DEF d
<1>7. CASE seen = "fatal"
  <2>1. d = [e EXCEPT !.err = "fatal alert"]
    BY <1>3, <1>7 DEF OnAlert
  <2>2. d.err = "fatal alert"
    BY <1>5, <2>1 DEF Fields
  <2> QED
    BY <1>7, <2>2
<1>8. CASE seen \notin {"close_notify", "fatal"}
  <2>1. d = e
    BY <1>3, <1>8 DEF OnAlert
  <2>2. Same(c, d, {})
    BY <1>5, <2>1
  <2> HIDE DEF d
  <2>4. /\ Same(c, d, {"channel", "closeNotify"}) /\ Same(c, d, {"channel", "closeNotify", "hash"})
        /\ d.readed = c.readed /\ d.channel = c.channel /\ d.closeNotify = q
    BY <1>1, <2>2 DEF Same, Fields
  <2>5. Holds(d, n, g, x)
    BY <1>1, <2>4 DEF Holds
  <2>6. Client(d, v, n, x, b, k, g, q)
    BY <2>4, <2>5, AfterHandshake
  <2> QED
    BY <1>8, <2>6 DEF d
<1> QED
  BY <1>6, <1>7, <1>8

\* What a record does to a client: it is heard, or it ends the connection.
HeardOut(d, v, n, y, b, k, g, q, last) ==
  \/ Client(d, v, n, y, b, k, g, q)
  \/ last /\ Client(d, v, n, y, b, k, g, TRUE)
  \/ last /\ d.err = "fatal alert"

\* The client takes a record of application data into its channel.
LEMMA DataPacket ==
  ASSUME NEW c, NEW v \in Versions, NEW n \in Nat, NEW x, x \in Position, NEW b \in Nat,
         NEW k \in Nat, NEW g, g \in Nat, NEW q, Client(c, v, n, x, b, k, g, q),
         NEW r, NEW y, Written(v, n, r, x, y), NEW misread
  PROVE  y \in Position /\ Client(OnPacket(c, r, misread), v, n, y, b, k, g, q)
<1>1. PICK l \in 1 .. 2 :
        /\ x.at = 6 /\ r = Record(v, n, 6, x.seq, "data", Slice(Units(n), x.units, l))
        /\ y = [at |-> 6, units |-> x.units + l, seq |-> x.seq + 1]
  BY DEF Written
<1>2. x.at \in 0 .. 6 /\ x.seq \in Nat /\ x.units \in Nat
  BY PositionFacts
<1>b. PICK msgs : msgs = Slice(Units(n), x.units, l)
  OBVIOUS
<1>c. l \in Nat /\ DOMAIN msgs = 1 .. l
  BY <1>b DEF Slice
<1>3. \A i \in 1 .. l : msgs[i] = Units(n)[x.units + i]
  BY <1>b DEF Slice
<1>d. "data" \in Types
  BY DEF Types
<1>e. v = "tls12" /\ x.at = 4 => "data" \in {"ccs", "alert"}
  BY <1>1
<1>f. r = Record(v, n, x.at, x.seq, "data", msgs)
  BY <1>1, <1>b
<1>g. HeardRecord(c, r, misread, v, n, x, b, k, g, q, "data", msgs, l)
  BY <1>c, <1>d, <1>e, <1>f, RecordHeard
<1>4. PICK h, tls13, seen :
         /\ HeardInTurn(h, tls13, seen, v, n, x, b, k, g, q, "data", msgs, l, misread)
         /\ h[l] = OnPacket(c, r, misread)
  BY <1>g DEF HeardRecord
<1>5. PICK z : z = Opened(v, x, "data")
  OBVIOUS
<1>6. /\ Client(h[0], v, n, z, b, k, g, q)
      /\ tls13 \in BOOLEAN /\ (v = "tls12" => ~tls13)
      /\ \A i \in 1 .. l : h[i] = OnMessage(h[i - 1], tls13, "data", msgs[i], seen)
  BY <1>4, <1>5 DEF HeardInTurn
<1>7. z \in Position /\ z.at = 6 /\ z.units = x.units /\ z.seq = x.seq + 1
  <2>1. SealedAt(v, 6)
    BY DEF SealedAt
  <2> QED
    BY <1>1, <1>2, <1>5, <2>1, OpenedFacts
<1>8. Client(h[1], v, n, More(z, 1), b, k, g, q)
  <2>1. h[1] = OnMessage(h[0], tls13, "data", Units(n)[z.units + 1], seen)
    BY <1>3, <1>6, <1>7, <1>c
  <2>2. Client(OnMessage(h[0], tls13, "data", Units(n)[z.units + 1], seen), v, n, More(z, 1), b, k, g, q)
    BY <1>6, <1>7, HearsData
  <2> QED
    BY <2>1, <2>2
<1>9. PICK w : w = More(z, 1)
  OBVIOUS
<1>10. w \in Position /\ w.at = 6 /\ w.units = x.units + 1 /\ w.seq = x.seq + 1
  BY <1>2, <1>7, <1>9 DEF More, Position
<1>11. CASE l = 1
  <2>1. y = w
    BY <1>1, <1>7, <1>9, <1>11 DEF More
  <2> QED
    BY <1>4, <1>8, <1>9, <1>10, <1>11, <2>1
<1>12. CASE l = 2
  <2>1. h[2] = OnMessage(h[1], tls13, "data", Units(n)[w.units + 1], seen)
    <3>1. h[2] = OnMessage(h[2 - 1], tls13, "data", msgs[2], seen)
      BY <1>6, <1>12
    <3>2. msgs[2] = Units(n)[w.units + 1] /\ 2 - 1 = 1
      <4>1. w.units + 1 = x.units + 2
        BY <1>2, <1>10
      <4> QED
        BY <1>3, <1>12, <4>1
    <3> QED
      BY <3>1, <3>2
  <2>2. Client(h[1], v, n, w, b, k, g, q)
    BY <1>8, <1>9
  <2>3. Client(OnMessage(h[1], tls13, "data", Units(n)[w.units + 1], seen), v, n, More(w, 1), b, k, g, q)
    BY <1>6, <1>10, <2>2, HearsData
  <2>4. y = More(w, 1) /\ y \in Position
    BY <1>1, <1>2, <1>10, <1>12 DEF More, Position
  <2> QED
    BY <1>4, <1>12, <2>1, <2>3, <2>4
<1> QED
  BY <1>1, <1>11, <1>12

HeardMessage(c, r, misread, v, n, x, b, k, g, q, type, m) ==
  \E d, tls13, seen :
    /\ Client(d, v, n, Opened(v, x, type), b, k, g, q)
    /\ tls13 \in BOOLEAN /\ (tls13 <=> (v = "tls13" /\ x.at > 0))
    /\ seen = IF v = "tls12" /\ type = "alert" /\ SealedAt(v, x.at) THEN misread ELSE m
    /\ OnPacket(c, r, misread) = OnMessage(d, tls13, type, m, seen)

\* A record of one message, which is all that is left to hear.
LEMMA OneMessage ==
  ASSUME NEW c, NEW v \in Versions, NEW n \in Nat, NEW x, x \in Position, NEW b, NEW k,
         NEW g, NEW q, Client(c, v, n, x, b, k, g, q), NEW type, type \in Types,
         v = "tls12" /\ x.at = 4 => type \in {"ccs", "alert"},
         NEW m, NEW r, r = Record(v, n, x.at, x.seq, type, << m >>), NEW misread
  PROVE  HeardMessage(c, r, misread, v, n, x, b, k, g, q, type, m)
<1>1. PICK msgs : msgs = << m >>
  OBVIOUS
<1>2. 1 \in Nat /\ DOMAIN msgs = 1 .. 1 /\ msgs[1] = m /\ r = Record(v, n, x.at, x.seq, type, msgs)
  BY <1>1
<1>3. HeardRecord(c, r, misread, v, n, x, b, k, g, q, type, msgs, 1)
  BY <1>2, RecordHeard
<1>4. PICK h, tls13, seen :
         /\ HeardInTurn(h, tls13, seen, v, n, x, b, k, g, q, type, msgs, 1, misread)
         /\ h[1] = OnPacket(c, r, misread)
  BY <1>3 DEF HeardRecord
<1>5. /\ Client(h[0], v, n, Opened(v, x, type), b, k, g, q)
      /\ tls13 \in BOOLEAN /\ (tls13 <=> (v = "tls13" /\ x.at > 0))
      /\ seen = IF v = "tls12" /\ type = "alert" /\ SealedAt(v, x.at) THEN misread ELSE msgs[1]
      /\ h[1] = OnMessage(h[1 - 1], tls13, type, msgs[1], seen)
  BY <1>4 DEF HeardInTurn
<1>6. OnPacket(c, r, misread) = OnMessage(h[0], tls13, type, m, seen)
  <2>1. 1 - 1 = 0
    OBVIOUS
  <2> QED
    BY <1>2, <1>4, <1>5, <2>1
<1> QED
  BY <1>2, <1>5, <1>6 DEF HeardMessage

\* The client hears a session ticket or a warning and goes on as before.
LEMMA ExtraPacket ==
  ASSUME NEW c, NEW v \in Versions, NEW n \in Nat, NEW x, x \in Position, NEW b \in Nat,
         NEW k \in Nat, NEW g, g \in Nat, NEW q, Client(c, v, n, x, b, k, g, q),
         NEW r, NEW y, Extra(v, n, r, x, y), NEW misread
  PROVE  y \in Position /\ Client(OnPacket(c, r, misread), v, n, y, b, k, g, q)
<1>1. PICK type, m :
        /\ r = Record(v, n, x.at, x.seq, type, << m >>)
        /\ (type = "hs" /\ m = Msg("NST", None)) \/ (type = "alert" /\ m = "warning")
  <2>1. x.at = 6
    BY DEF Extra
  <2>2. CASE r = Record(v, n, 6, x.seq, "hs", << Msg("NST", None) >>)
    <3>1. PICK t, m : t = "hs" /\ m = Msg("NST", None)
      OBVIOUS
    <3>2. r = Record(v, n, x.at, x.seq, t, << m >>)
      BY <2>1, <2>2, <3>1
    <3> QED
      BY <3>1, <3>2
  <2>3. CASE r = Record(v, n, 6, x.seq, "alert", << "warning" >>)
    BY <2>1, <2>3
  <2> QED
    BY <2>2, <2>3 DEF Extra
<1>2. x.at = 6 /\ v = "tls13" /\ y = [at |-> 6, units |-> x.units, seq |-> x.seq + 1]
  BY DEF Extra
<1>3. type \in Types /\ (v = "tls12" /\ x.at = 4 => type \in {"ccs", "alert"})
  BY <1>1, <1>2 DEF Types
<1>4. PICK z : z = Opened(v, x, type)
  OBVIOUS
<1>5. z \in Position /\ z.at = 6 /\ z = y
  <2>0. x.at \in 0 .. 6 /\ x.seq \in Nat /\ x.units \in Nat
    BY PositionFacts
  <2>1. /\ z \in Position /\ z.at = x.at /\ z.units = x.units
        /\ z.seq = IF SealedAt(v, x.at) /\ type # "ccs" /\ (v = "tls13" \/ type # "alert")
                   THEN x.seq + 1 ELSE x.seq
    BY <1>4, OpenedFacts
  <2>2. z.seq = x.seq + 1
    BY <1>1, <1>2, <2>1 DEF SealedAt
  <2>3. z = [at |-> z.at, seq |-> z.seq, units |-> z.units]
    BY <2>1 DEF Position
  <2> QED
    BY <1>2, <2>1, <2>2, <2>3
<1>a. HeardMessage(c, r, misread, v, n, x, b, k, g, q, type, m)
  BY <1>1, <1>3, OneMessage
<1>6. PICK d, tls13, seen :
        /\ Client(d, v, n, Opened(v, x, type), b, k, g, q)
        /\ tls13 \in BOOLEAN /\ (tls13 <=> (v = "tls13" /\ x.at > 0))
        /\ seen = IF v = "tls12" /\ type = "alert" /\ SealedAt(v, x.at) THEN misread ELSE m
        /\ OnPacket(c, r, misread) = OnMessage(d, tls13, type, m, seen)
  BY <1>a DEF HeardMessage
<1>7. Client(d, v, n, z, b, k, g, q)
  BY <1>4, <1>6
<1>8. CASE type = "hs" /\ m = Msg("NST", None)
  <2>1. v = "tls12" => ~tls13
    BY <1>2
  <2>2. Client(OnMessage(d, tls13, "hs", Msg("NST", None), seen), v, n, z, b, k, g, q)
    BY <1>5, <1>6, <1>7, <2>1, HearsTicket
  <2> QED
    BY <1>5, <1>6, <1>8, <2>2
<1>9. CASE type = "alert" /\ m = "warning"
  <2>1. seen \notin {"close_notify", "fatal"}
    BY <1>2, <1>6, <1>9
  <2>2. Client(OnMessage(d, tls13, "alert", m, seen), v, n, z, b, k, g, q)
    BY <1>5, <1>7, <2>1, HearsAlert
  <2> QED
    BY <1>5, <1>6, <1>9, <2>2
<1> QED
  BY <1>1, <1>8, <1>9

\* The last record: close_notify, or a fatal alert; sealed by TLS 1.2 it may be misread.
LEMMA EndingPacket ==
  ASSUME NEW c, NEW v \in Versions, NEW n \in Nat, NEW x, x \in Position, NEW b \in Nat,
         NEW k \in Nat, NEW g, g \in Nat, NEW q, Client(c, v, n, x, b, k, g, q),
         NEW r, NEW y, Ending(v, n, r, x, y), NEW misread
  PROVE  y \in Position /\ HeardOut(OnPacket(c, r, misread), v, n, y, b, k, g, q, TRUE)
<1>1. PICK m : r = Record(v, n, x.at, x.seq, "alert", << m >>)
  BY DEF Ending
<1>2. y = Opened(v, x, "alert") /\ "alert" \in Types
      /\ (v = "tls12" /\ x.at = 4 => "alert" \in {"ccs", "alert"})
  BY DEF Ending, Types
<1>3. y \in Position
  BY <1>2, OpenedFacts
<1>a. HeardMessage(c, r, misread, v, n, x, b, k, g, q, "alert", m)
  BY <1>1, <1>2, OneMessage
<1>6. PICK d, tls13, seen :
        /\ Client(d, v, n, Opened(v, x, "alert"), b, k, g, q)
        /\ tls13 \in BOOLEAN /\ (tls13 <=> (v = "tls13" /\ x.at > 0))
        /\ seen = IF v = "tls12" /\ "alert" = "alert" /\ SealedAt(v, x.at) THEN misread ELSE m
        /\ OnPacket(c, r, misread) = OnMessage(d, tls13, "alert", m, seen)
  BY <1>a DEF HeardMessage
<1>7. Client(d, v, n, y, b, k, g, q)
  BY <1>2, <1>6
<1>8. /\ seen = "close_notify" =>
           Client(OnMessage(d, tls13, "alert", m, seen), v, n, y, b, k, g, TRUE)
      /\ seen = "fatal" => OnMessage(d, tls13, "alert", m, seen).err = "fatal alert"
      /\ seen \notin {"close_notify", "fatal"} =>
           Client(OnMessage(d, tls13, "alert", m, seen), v, n, y, b, k, g, q)
  BY <1>3, <1>7, HearsAlert
<1> QED
  BY <1>3, <1>6, <1>8 DEF HeardOut

Fits(v, n, r, x, y, last) ==
  \/ Spoken(v, n, r, x, y) \/ Written(v, n, r, x, y) \/ Extra(v, n, r, x, y)
  \/ last /\ Ending(v, n, r, x, y)

\* The client hears any record that fits where it stands.
LEMMA FittingPacket ==
  ASSUME link # "broken",
         NEW c, NEW v \in Versions, NEW n \in Nat, NEW x, x \in Position, NEW b \in Nat,
         NEW k \in Nat, NEW g, g \in Nat, NEW q, Client(c, v, n, x, b, k, g, q),
         NEW r, NEW y, NEW last, Fits(v, n, r, x, y, last), NEW misread
  PROVE  y \in Position /\ HeardOut(OnPacket(c, r, misread), v, n, y, b, k, g, q, last)
<1>1. CASE Spoken(v, n, r, x, y)
  BY <1>1, SpokenPacket DEF HeardOut
<1>2. CASE Written(v, n, r, x, y)
  BY <1>2, DataPacket DEF HeardOut
<1>3. CASE Extra(v, n, r, x, y)
  BY <1>3, ExtraPacket DEF HeardOut
<1>4. CASE last /\ Ending(v, n, r, x, y)
  <2>1. y \in Position /\ HeardOut(OnPacket(c, r, misread), v, n, y, b, k, g, q, TRUE)
    BY <1>4, EndingPacket
  <2> QED
    BY <1>4, <2>1 DEF HeardOut
<1> QED
  BY <1>1, <1>2, <1>3, <1>4 DEF Fits

\* The server goes on, in its handshake and in its data.
LEMMA FittingUnits ==
  ASSUME NEW v \in Versions, NEW n, NEW r, NEW x, x \in Position, NEW y, NEW last,
         Fits(v, n, r, x, y, last)
  PROVE  y \in Position /\ x.units <= y.units /\ x.at <= y.at
<1>0. x.at \in 0 .. 6 /\ x.seq \in Nat /\ x.units \in Nat
  BY PositionFacts
<1>1. CASE Spoken(v, n, r, x, y)
  <2>1. PICK l \in 1 .. 6 - x.at : y = After(v, x, TypeAt(v, x.at), l)
    BY <1>1 DEF Spoken
  <2>2. PICK z : z = Opened(v, x, TypeAt(v, x.at))
    OBVIOUS
  <2>3. z.seq \in Nat
    BY <2>2, OpenedFacts DEF Position
  <2> QED
    BY <1>0, <2>1, <2>2, <2>3 DEF After, Position
<1>2. CASE Written(v, n, r, x, y)
  BY <1>0, <1>2 DEF Written, Position
<1>3. CASE Extra(v, n, r, x, y)
  BY <1>0, <1>3 DEF Extra, Position
<1>4. CASE last /\ Ending(v, n, r, x, y)
  BY <1>0, <1>4, OpenedFacts DEF Ending
<1> QED
  BY <1>1, <1>2, <1>3, <1>4 DEF Fits

(* --------------------------------- the wire --------------------------------- *)

IsRest(S, a, b, j, buf, f, u, t) ==
  /\ Len(buf) = Len(a) + j /\ Len(a) \in Nat /\ a \o b \in Seq(S)
  /\ \A i \in 1 .. Len(buf) : buf[i] = (a \o b)[i]
  /\ u \in Seq(S) /\ t \in Seq(S) /\ Len(u \o t) = Len(a \o b) - f
  /\ \A i \in 1 .. Len(u \o t) : (u \o t)[i] = (a \o b)[i + f]

\* Lengths and elements of what is left of a and b when j of b have been taken
\* and f of all are done with.
LEMMA RestOfTwo ==
  ASSUME NEW S, NEW a, a \in Seq(S), NEW b, b \in Seq(S), NEW j, j \in 1 .. Len(b),
         NEW buf, buf = a \o SubSeq(b, 1, j), NEW f, f \in 0 .. Len(buf),
         NEW u, u = SubSeq(buf, f + 1, Len(buf)), NEW t, t = SubSeq(b, j + 1, Len(b))
  PROVE  IsRest(S, a, b, j, buf, f, u, t)
<1>1. /\ Len(a) \in Nat /\ Len(b) \in Nat /\ j \in 1 .. Len(b) /\ j \in Int
      /\ \A i \in 1 .. Len(b) : b[i] \in S
  BY LenProperties, ElementOfSeq
<1>2. PICK p : p = SubSeq(b, 1, j)
  OBVIOUS
<1>3. p \in Seq(S) /\ Len(p) = j /\ \A i \in 1 .. j : p[i] = b[i]
  <2>1. /\ p \in Seq(S) /\ Len(p) = (IF 1 <= j THEN j - 1 + 1 ELSE 0)
        /\ \A i \in 1 .. j - 1 + 1 : p[i] = b[1 + i - 1]
    BY <1>1, <1>2, SubSeqProperties
  <2> QED
    BY <1>1, <2>1
<1>4. /\ buf \in Seq(S) /\ Len(buf) = Len(a) + j
      /\ \A i \in 1 .. Len(a) + j : buf[i] = IF i <= Len(a) THEN a[i] ELSE p[i - Len(a)]
  <2>1. buf = a \o p
    BY <1>2
  <2> QED
    BY <1>3, <2>1, ConcatProperties
<1>5. /\ a \o b \in Seq(S) /\ Len(a \o b) = Len(a) + Len(b)
      /\ \A i \in 1 .. Len(a) + Len(b) : (a \o b)[i] = IF i <= Len(a) THEN a[i] ELSE b[i - Len(a)]
  BY ConcatProperties
<1>6. PICK w : w = a \o b
  OBVIOUS
<1>7. /\ w \in Seq(S) /\ Len(w) = Len(a) + Len(b)
      /\ \A i \in 1 .. Len(a) + Len(b) : w[i] = IF i <= Len(a) THEN a[i] ELSE b[i - Len(a)]
  BY <1>5, <1>6
<1>8. ASSUME NEW i \in 1 .. Len(a) + j PROVE buf[i] = w[i]
  <2>1. CASE i <= Len(a)
    BY <1>1, <1>4, <1>7, <2>1
  <2>2. CASE ~(i <= Len(a))
    <3>1. i - Len(a) \in 1 .. j /\ i \in 1 .. Len(a) + Len(b)
      BY <1>1, <2>2
    <3> QED
      BY <1>3, <1>4, <1>7, <2>2, <3>1
  <2> QED
    BY <2>1, <2>2
<1>9. u \in Seq(S) /\ Len(u) = Len(a) + j - f /\ \A i \in 1 .. Len(a) + j - f : u[i] = w[i + f]
  <2>0. f \in 0 .. Len(a) + j /\ f + 1 \in Int /\ Len(buf) \in Int
    BY <1>1, <1>4
  <2>1. \A i \in f + 1 .. Len(buf) : buf[i] \in S
    <3>1. \A i \in f + 1 .. Len(buf) : i \in 1 .. Len(buf)
      BY <1>1, <2>0
    <3> QED
      BY <1>4, <3>1, ElementOfSeq
  <2>2. /\ u \in Seq(S) /\ Len(u) = (IF f + 1 <= Len(buf) THEN Len(buf) - (f + 1) + 1 ELSE 0)
        /\ \A i \in 1 .. Len(buf) - (f + 1) + 1 : u[i] = buf[(f + 1) + i - 1]
    BY <2>0, <2>1, SubSeqProperties
  <2>3. Len(u) = Len(a) + j - f
    <3>1. f + 1 <= Len(buf) => Len(u) = Len(buf) - (f + 1) + 1
      BY <2>2
    <3>2. ~(f + 1 <= Len(buf)) => Len(u) = 0
      BY <2>2
    <3>3. PICK la, lb, lu : la = Len(a) /\ lb = Len(buf) /\ lu = Len(u)
      OBVIOUS
    <3>4. la \in Nat /\ j \in Int /\ lb = la + j /\ f \in 0 .. la + j
      BY <1>1, <1>4, <2>0, <3>3
    <3>5. (f + 1 <= lb => lu = lb - (f + 1) + 1) /\ (~(f + 1 <= lb) => lu = 0)
      BY <3>1, <3>2, <3>3
    <3>6. lu = la + j - f
      BY <3>4, <3>5
    <3> QED
      BY <3>3, <3>6
  <2>4. ASSUME NEW i \in 1 .. Len(a) + j - f PROVE u[i] = w[i + f]
    <3>1. (f + 1) + i - 1 = i + f /\ i + f \in 1 .. Len(a) + j /\ i \in 1 .. Len(buf) - (f + 1) + 1
      BY <1>1, <1>4, <2>0
    <3> QED
      BY <1>8, <2>2, <3>1
  <2> QED
    BY <2>2, <2>3, <2>4
<1>10. t \in Seq(S) /\ Len(t) = Len(b) - j /\ \A i \in 1 .. Len(b) - j : t[i] = b[i + j]
  <2>1. \A i \in j + 1 .. Len(b) : b[i] \in S
    BY <1>1
  <2>2. /\ t \in Seq(S) /\ Len(t) = (IF j + 1 <= Len(b) THEN Len(b) - (j + 1) + 1 ELSE 0)
        /\ \A i \in 1 .. Len(b) - (j + 1) + 1 : t[i] = b[(j + 1) + i - 1]
    BY <1>1, <2>1, SubSeqProperties
  <2>3. Len(t) = Len(b) - j
    BY <1>1, <2>2
  <2>4. ASSUME NEW i \in 1 .. Len(b) - j PROVE t[i] = b[i + j]
    <3>1. (j + 1) + i - 1 = i + j /\ i \in 1 .. Len(b) - (j + 1) + 1
      BY <1>1
    <3> QED
      BY <2>2, <3>1
  <2> QED
    BY <2>2, <2>3, <2>4
<1>a. /\ Len(u \o t) = Len(u) + Len(t)
      /\ \A i \in 1 .. Len(u) + Len(t) : (u \o t)[i] = IF i <= Len(u) THEN u[i] ELSE t[i - Len(u)]
  <2>0. PICK y, z : y = u /\ z = t
    OBVIOUS
  <2>1. y \in Seq(S) /\ z \in Seq(S)
    BY <1>9, <1>10, <2>0
  <2>2. /\ Len(y \o z) = Len(y) + Len(z)
        /\ \A i \in 1 .. Len(y) + Len(z) : (y \o z)[i] = IF i <= Len(y) THEN y[i] ELSE z[i - Len(y)]
    BY <2>1, ConcatProperties
  <2> QED
    BY <2>0, <2>2
<1>11. PICK s : s = u \o t
  OBVIOUS
<1>12. /\ Len(s) = Len(u) + Len(t)
       /\ \A i \in 1 .. Len(u) + Len(t) : s[i] = IF i <= Len(u) THEN u[i] ELSE t[i - Len(u)]
  BY <1>a, <1>11
<1>13. Len(s) = Len(a) + Len(b) - f
  BY <1>1, <1>4, <1>9, <1>10, <1>12
<1>14. ASSUME NEW i \in 1 .. Len(s) PROVE s[i] = w[i + f]
  <2>0. i \in 1 .. Len(u) + Len(t) /\ f \in 0 .. Len(a) + j
    BY <1>4, <1>12
  <2>1. CASE i <= Len(u)
    <3>1. i \in 1 .. Len(a) + j - f
      BY <1>1, <1>9, <2>0, <2>1
    <3> QED
      BY <1>9, <1>12, <2>0, <2>1, <3>1
  <2>2. CASE ~(i <= Len(u))
    <3>0. PICK la, lb, lu, lt : la = Len(a) /\ lb = Len(b) /\ lu = Len(u) /\ lt = Len(t)
      OBVIOUS
    <3>a. la \in Nat /\ lb \in Nat /\ j \in 1 .. lb /\ lu = la + j - f /\ lt = lb - j
          /\ i \in 1 .. lu + lt /\ f \in 0 .. la + j /\ ~(i <= lu)
      BY <1>1, <1>9, <1>10, <2>0, <2>2, <3>0
    <3>b. /\ i - lu \in 1 .. lb - j /\ (i - lu) + j = (i + f) - la
          /\ i + f \in 1 .. la + lb /\ ~(i + f <= la)
      BY <3>a
    <3>1. /\ i - Len(u) \in 1 .. Len(b) - j /\ (i - Len(u)) + j = (i + f) - Len(a)
          /\ i + f \in 1 .. Len(a) + Len(b) /\ ~(i + f <= Len(a))
      BY <3>0, <3>b
    <3>2. s[i] = b[(i + f) - Len(a)]
      BY <1>10, <1>12, <2>0, <2>2, <3>1
    <3> QED
      BY <1>7, <3>1, <3>2
  <2> QED
    BY <2>1, <2>2
<1>15. Len(buf) = Len(a) + j /\ Len(a) \in Nat /\ a \o b \in Seq(S) /\ u \in Seq(S) /\ t \in Seq(S)
  BY <1>1, <1>4, <1>5, <1>9, <1>10
<1>16. \A i \in 1 .. Len(buf) : buf[i] = (a \o b)[i]
  BY <1>4, <1>6, <1>8
<1>17. Len(u \o t) = Len(a \o b) - f
  BY <1>5, <1>11, <1>13
<1>18. \A i \in 1 .. Len(u \o t) : (u \o t)[i] = (a \o b)[i + f]
  BY <1>6, <1>11, <1>14
<1> QED
  BY <1>15, <1>16, <1>17, <1>18 DEF IsRest

\* The m records of w lead from position pos[0] to pos[m]; an ending is the last.
Leads(w, m, pos, v, n, e) ==
  /\ m \in Nat /\ pos \in [0 .. m -> Position] /\ Len(w) = 2 * m
  /\ \A j \in 1 .. m : /\ w[2 * j - 1] = w[2 * j]
                       /\ Fits(v, n, w[2 * j], pos[j - 1], pos[j], e /\ j = m)
Chain(w, v, n, x, z, e) ==
  \E m, pos : Leads(w, m, pos, v, n, e) /\ pos[0] = x /\ pos[m] = z

\* What is left of a wire leads on from where its reader has come.
LEMMA LeadsOn ==
  ASSUME NEW S, NEW w, NEW m, NEW pos, NEW v, NEW n, NEW e,
         Leads(w, m, pos, v, n, e), NEW i, i \in 0 .. m,
         NEW u, Len(u) = Len(w) - 2 * i, \A t \in 1 .. Len(u) : u[t] = w[t + 2 * i]
  PROVE  Chain(u, v, n, pos[i], pos[m], e)
<1> DEFINE l == m - i
           p == [j \in 0 .. l |-> pos[i + j]]
<1>1. m \in Nat /\ pos \in [0 .. m -> Position] /\ Len(w) = 2 * m
  BY DEF Leads
<1>2. l \in Nat /\ Len(u) = 2 * l
  BY <1>1
<1>3. \A j \in 0 .. l : p[j] = pos[i + j] /\ i + j \in 0 .. m
  BY <1>1
<1>4. p \in [0 .. l -> Position]
  BY <1>1, <1>3
<1>5. p[0] = pos[i] /\ p[l] = pos[m]
  BY <1>1, <1>2, <1>3
<1> HIDE DEF p
<1>6. ASSUME NEW j \in 1 .. l
      PROVE  u[2 * j - 1] = u[2 * j] /\ Fits(v, n, u[2 * j], p[j - 1], p[j], e /\ j = l)
  <2>1. /\ i + j \in 1 .. m /\ 2 * j - 1 \in 1 .. Len(u) /\ 2 * j \in 1 .. Len(u)
        /\ (2 * j - 1) + 2 * i = 2 * (i + j) - 1 /\ 2 * j + 2 * i = 2 * (i + j)
        /\ (i + j) - 1 = i + (j - 1) /\ j - 1 \in 0 .. l /\ j \in 0 .. l
        /\ (j = l <=> i + j = m)
    BY <1>1, <1>2
  <2>2. /\ w[2 * (i + j) - 1] = w[2 * (i + j)]
        /\ Fits(v, n, w[2 * (i + j)], pos[(i + j) - 1], pos[i + j], e /\ (i + j) = m)
    BY <2>1 DEF Leads
  <2>3. u[2 * j - 1] = w[2 * (i + j) - 1] /\ u[2 * j] = w[2 * (i + j)]
    BY <2>1
  <2>4. p[j - 1] = pos[(i + j) - 1] /\ p[j] = pos[i + j]
    BY <1>3, <2>1
  <2>5. Fits(v, n, u[2 * j], p[j - 1], p[j], e /\ (i + j) = m)
    BY <2>2, <2>3, <2>4
  <2>6. Fits(v, n, u[2 * j], p[j - 1], p[j], e /\ j = l)
    BY <2>1, <2>5 DEF Fits
  <2> QED
    BY <2>2, <2>3, <2>6
<1>7. Leads(u, l, p, v, n, e)
  BY <1>2, <1>4, <1>6 DEF Leads
<1> HIDE DEF l
<1> QED
  BY <1>5, <1>7 DEF Chain

\* Positions along a wire only go up.
LEMMA LeadsUp ==
  ASSUME NEW w, NEW m, NEW pos, NEW v \in Versions, NEW n, NEW e, Leads(w, m, pos, v, n, e)
  PROVE  \A i \in 0 .. m : /\ pos[i] \in Position /\ pos[0].at <= pos[i].at
                           /\ pos[0].units <= pos[i].units /\ pos[i].units <= pos[m].units
<1>1. m \in Nat /\ pos \in [0 .. m -> Position]
  BY DEF Leads
<1>2. ASSUME NEW j \in 1 .. m
      PROVE  /\ pos[j - 1] \in Position /\ pos[j] \in Position
             /\ pos[j - 1].units <= pos[j].units /\ pos[j - 1].at <= pos[j].at
  <2>1. pos[j - 1] \in Position /\ pos[j] \in Position
    BY <1>1
  <2>2. Fits(v, n, w[2 * j], pos[j - 1], pos[j], e /\ j = m)
    BY DEF Leads
  <2> QED
    BY <2>1, <2>2, FittingUnits
<1>3. \A i \in 0 .. m : pos[i] \in Position /\ pos[i].at \in Nat /\ pos[i].units \in Nat
  BY <1>1 DEF Position
<1> DEFINE T == {i \in 0 .. m : pos[0].at <= pos[i].at /\ pos[0].units <= pos[i].units}
           U == {i \in 0 .. m : pos[m - i].units <= pos[m].units}
<1>4. 0 \in T /\ 0 \in U
  BY <1>1, <1>3
<1>5. ASSUME NEW i \in 0 .. m, i < m, i \in T PROVE i + 1 \in T
  <2>1. i + 1 \in 1 .. m /\ (i + 1) - 1 = i /\ i + 1 \in 0 .. m /\ 0 \in 0 .. m
    BY <1>1, <1>5
  <2>2. pos[i].at <= pos[i + 1].at /\ pos[i].units <= pos[i + 1].units
    BY <1>2, <2>1
  <2> QED
    BY <1>3, <1>5, <2>1, <2>2
<1>6. ASSUME NEW i \in 0 .. m, i < m, i \in U PROVE i + 1 \in U
  <2>1. /\ m - i \in 1 .. m /\ (m - i) - 1 = m - (i + 1) /\ i + 1 \in 0 .. m /\ m - i \in 0 .. m
        /\ m - (i + 1) \in 0 .. m /\ m \in 0 .. m
    BY <1>1, <1>6
  <2>2. pos[m - (i + 1)].units <= pos[m - i].units
    BY <1>2, <2>1
  <2> QED
    BY <1>3, <1>6, <2>1, <2>2
<1>7. \A i \in 0 .. m : i \in T
  <2> HIDE DEF T
  <2> QED
    BY <1>1, <1>4, <1>5, UpTo
<1>8. \A i \in 0 .. m : i \in U
  <2> HIDE DEF U
  <2> QED
    BY <1>1, <1>4, <1>6, UpTo
<1>9. ASSUME NEW i \in 0 .. m PROVE pos[i].units <= pos[m].units
  <2>1. m - i \in 0 .. m /\ m - (m - i) = i
    BY <1>1
  <2> QED
    BY <1>8, <2>1
<1> QED
  BY <1>3, <1>7, <1>9

\* A client that differs in what it has not read off its records only.
LEMMA Rebuffered ==
  ASSUME NEW c, NEW d, NEW v, NEW n, NEW x, NEW b, NEW k, NEW g, NEW q,
         Client(c, v, n, x, b, k, g, q), Same(c, d, {"recvBuf"})
  PROVE  Client(d, v, n, x, b, k, g, q)
<1>1. /\ DOMAIN d = Fields /\ d.sock = c.sock /\ d.err = c.err /\ d.closeNotify = c.closeNotify
      /\ d.clientRand = c.clientRand /\ d.readed = c.readed /\ d.channel = c.channel
      /\ d.idx = c.idx /\ d.cipher = c.cipher /\ d.encoding = c.encoding /\ d.hash = c.hash
      /\ d.serverRand = c.serverRand /\ d.localKey = c.localKey /\ d.remoteKey = c.remoteKey
      /\ d.out = c.out /\ d.clientSeq = c.clientSeq /\ d.serverSeq = c.serverSeq
  BY DEF Same, Fields
<1>2. ClientAt(d, v, n, x)
  BY <1>1 DEF Client, ClientAt
<1>3. ClientKeys(d, v, n, x)
  BY <1>1 DEF Client, ClientKeys
<1>4. Sending(d, v, n, x, b, k)
  BY <1>1 DEF Client, Sending
<1>5. Holds(d, n, g, x)
  BY <1>1 DEF Client, Holds
<1> QED
  BY <1>1, <1>2, <1>3, <1>4, <1>5 DEF Client

\* process_recv on a client at x with z where the server's records end: the client
\* is further on the same way, or a fatal alert has closed it.
Wire(a, b, v, n, x, z, e) ==
  \E S : a \in Seq(S) /\ b \in Seq(S) /\ Chain(a \o b, v, n, x, z, e)

Onward(d, rest, v, n, x, z, e, b, k, g, q) ==
  \E y \in Position, p \in BOOLEAN :
    /\ Client(d, v, n, y, b, k, g, p) /\ Wire(d.recvBuf, rest, v, n, y, z, e)
    /\ x.at <= y.at /\ y.units <= z.units
    /\ p => y.units = z.units /\ (q \/ e)
    /\ q => p

OneByOne(h, c, f, w, misread) ==
  h[0] = c /\ \A i \in 1 .. f : h[i] = OnPacket(h[i - 1], w[2 * i], misread)

HeardAll(h, f, v, n, pos, b, k, g, q, e, m) ==
  HeardOut(h[f], v, n, pos[f], b, k, g, q, e /\ f = m)

\* A client that hears the records of a wire in turn goes along its positions.
LEMMA RecordsHeard ==
  ASSUME link # "broken",
         NEW c, NEW v \in Versions, NEW n \in Nat, NEW b \in Nat,
         NEW k \in Nat, NEW g, g \in Nat, NEW q \in BOOLEAN,
         NEW w, NEW m, NEW pos, NEW e, Leads(w, m, pos, v, n, e),
         Client(c, v, n, pos[0], b, k, g, q),
         NEW f, f \in 0 .. m, NEW misread, NEW h, OneByOne(h, c, f, w, misread)
  PROVE  HeardAll(h, f, v, n, pos, b, k, g, q, e, m)
<1>0. /\ m \in Nat /\ f \in Nat /\ h[0] = c
      /\ \A i \in 1 .. f : h[i] = OnPacket(h[i - 1], w[2 * i], misread)
  BY DEF Leads, OneByOne
<1> DEFINE T == {i \in 0 .. f : HeardOut(h[i], v, n, pos[i], b, k, g, q, e /\ i = m)}
<1>2. 0 \in T
  <2>1. 0 \in 0 .. f
    BY <1>0
  <2>2. Client(h[0], v, n, pos[0], b, k, g, q)
    BY <1>0
  <2>3. HeardOut(h[0], v, n, pos[0], b, k, g, q, e /\ 0 = m)
    BY <2>2 DEF HeardOut
  <2> QED
    BY <2>1, <2>3
<1>3. ASSUME NEW i \in 0 .. f, i < f, i \in T PROVE i + 1 \in T
  <2>1. /\ i + 1 \in 1 .. m /\ i + 1 \in 1 .. f /\ i + 1 \in 0 .. f /\ (i + 1) - 1 = i /\ i # m
        /\ i \in 0 .. m
    BY <1>0, <1>3
  <2>2. Client(h[i], v, n, pos[i], b, k, g, q)
    BY <1>3, <2>1 DEF HeardOut
  <2>3. Fits(v, n, w[2 * (i + 1)], pos[i], pos[i + 1], e /\ (i + 1) = m)
    <3>1. Fits(v, n, w[2 * (i + 1)], pos[(i + 1) - 1], pos[i + 1], e /\ (i + 1) = m)
      BY <2>1 DEF Leads
    <3> QED
      BY <2>1, <3>1
  <2>4. pos[i] \in Position
    BY <2>1 DEF Leads
  <2>5. HeardOut(OnPacket(h[i], w[2 * (i + 1)], misread), v, n, pos[i + 1], b, k, g, q, e /\ (i + 1) = m)
    BY <2>2, <2>3, <2>4, FittingPacket
  <2>6. h[i + 1] = OnPacket(h[i], w[2 * (i + 1)], misread)
    <3>1. h[i + 1] = OnPacket(h[(i + 1) - 1], w[2 * (i + 1)], misread)
      BY <1>0, <2>1
    <3> QED
      BY <2>1, <3>1
  <2> QED
    BY <2>1, <2>5, <2>6
<1>4. f \in T
  <2>1. f \in 0 .. f
    BY <1>0
  <2> HIDE DEF T
  <2>2. \A i \in 0 .. f : i \in T
    BY <1>0, <1>2, <1>3, UpTo
  <2> QED
    BY <2>1, <2>2
<1> QED
  BY <1>4 DEF HeardAll

ReceivedTo(c, j, misread, v, n, x, z, e, b, k, g, q) ==
  \/ Onward(ProcessRecv(c, j, misread), SubSeq(net, j + 1, Len(net)), v, n, x, z, e, b, k, g, q)
  \/ \E o : ProcessRecv(c, j, misread) = [ClosedClient("fatal alert") EXCEPT !.out = o]

\* process_recv on a client at x: it is further on the same way, or closed.
LEMMA Received ==
  ASSUME link # "broken",
         NEW c, NEW v \in Versions, NEW n \in Nat, NEW x, x \in Position, NEW b \in Nat,
         NEW k \in Nat, NEW g, g \in Nat, NEW q \in BOOLEAN,
         NEW z, NEW e \in BOOLEAN, Client(c, v, n, x, b, k, g, q),
         Wire(c.recvBuf, net, v, n, x, z, e), q => x.units = z.units,
         NEW j, j \in 1 .. Len(net), NEW misread
  PROVE  ReceivedTo(c, j, misread, v, n, x, z, e, b, k, g, q)
<1>0. SUFFICES
        \/ Onward(ProcessRecv(c, j, misread), SubSeq(net, j + 1, Len(net)), v, n, x, z, e, b, k, g, q)
        \/ \E o : ProcessRecv(c, j, misread) = [ClosedClient("fatal alert") EXCEPT !.out = o]
  BY DEF ReceivedTo
<1>1. PICK S : /\ c.recvBuf \in Seq(S) /\ net \in Seq(S)
               /\ Chain(c.recvBuf \o net, v, n, x, z, e)
  BY DEF Wire
<1>2. PICK w : w = c.recvBuf \o net
  OBVIOUS
<1>3. PICK m, pos : Leads(w, m, pos, v, n, e) /\ pos[0] = x /\ pos[m] = z
  BY <1>1, <1>2 DEF Chain
<1>4. PICK buf, f, full, u, t :
        /\ buf = Buffer(c, j) /\ full = Full(c, j) /\ f = 2 * full
        /\ u = SubSeq(buf, f + 1, Len(buf)) /\ t = SubSeq(net, j + 1, Len(net))
  OBVIOUS
<1>5. buf = c.recvBuf \o SubSeq(net, 1, j) /\ full = Len(buf) \div 2
  BY <1>4 DEF Buffer, Full
<1>6. Len(buf) \in Nat
  <2>1. SubSeq(net, 1, j) \in Seq(S)
    <3>1. \A i \in 1 .. j : net[i] \in S
      BY <1>1, LenProperties, ElementOfSeq
    <3>2. 1 \in Int /\ j \in Int
      BY <1>1, LenProperties
    <3> QED
      BY <3>1, <3>2, SubSeqProperties
  <2>2. buf \in Seq(S)
    BY <1>1, <1>5, <2>1, ConcatProperties
  <2> QED
    BY <2>2, LenProperties
<1>7. full \in Nat /\ f \in 0 .. Len(buf) /\ Len(buf) - f \in 0 .. 1
  <2>1. PICK lb : lb = Len(buf)
    OBVIOUS
  <2>2. lb \in Nat /\ full = lb \div 2 /\ f = 2 * full
    BY <1>4, <1>5, <1>6, <2>1
  <2>3. full \in Nat /\ f \in 0 .. lb /\ lb - f \in 0 .. 1
    BY <2>2
  <2> QED
    BY <2>1, <2>3
<1>8. /\ Len(buf) = Len(c.recvBuf) + j /\ Len(c.recvBuf) \in Nat /\ c.recvBuf \o net \in Seq(S)
      /\ \A i \in 1 .. Len(buf) : buf[i] = (c.recvBuf \o net)[i]
      /\ u \in Seq(S) /\ t \in Seq(S) /\ Len(u \o t) = Len(c.recvBuf \o net) - f
      /\ \A i \in 1 .. Len(u \o t) : (u \o t)[i] = (c.recvBuf \o net)[i + f]
  <2>1. c.recvBuf \in Seq(S) /\ net \in Seq(S)
    BY <1>1
  <2>2. buf = c.recvBuf \o SubSeq(net, 1, j)
    BY <1>5
  <2>3. f \in 0 .. Len(buf)
    BY <1>7
  <2>4. u = SubSeq(buf, f + 1, Len(buf)) /\ t = SubSeq(net, j + 1, Len(net))
    BY <1>4
  <2>5. IsRest(S, c.recvBuf, net, j, buf, f, u, t)
    BY <2>1, <2>2, <2>3, <2>4, RestOfTwo
  <2> QED
    BY <2>5 DEF IsRest
<1>9. /\ \A i \in 1 .. Len(buf) : buf[i] = w[i]
      /\ Len(u \o t) = Len(w) - 2 * full
      /\ \A i \in 1 .. Len(u \o t) : (u \o t)[i] = w[i + 2 * full]
  BY <1>2, <1>4, <1>8
<1>10. Len(buf) <= Len(w) /\ m \in Nat /\ Len(w) = 2 * m /\ full \in 0 .. m
  <2>1. Len(w) = Len(c.recvBuf) + Len(net) /\ Len(net) \in Nat
    BY <1>1, <1>2, ConcatProperties, LenProperties
  <2>2. m \in Nat /\ Len(w) = 2 * m
    BY <1>3 DEF Leads
  <2>3. Len(buf) <= Len(w)
    BY <1>8, <2>1
  <2> QED
    BY <1>4, <1>6, <1>7, <2>2, <2>3, SMTT(30)
<1>11. PICK h : /\ h[0] = c /\ ProcessRecv(c, j, misread) = Finished(h[full], Buffer(c, j), full)
                /\ \A i \in 1 .. full : h[i] = OnPacket(h[i - 1], Complete(c, j)[i], misread)
  <2>1. full \in Nat /\ full = Full(c, j)
    BY <1>4, <1>7
  <2>2. HandledInTurn(c, j, misread, full)
    BY <2>1, RecordsInTurn
  <2> QED
    BY <2>2 DEF HandledInTurn
<1>12. \A i \in 1 .. full : h[i] = OnPacket(h[i - 1], w[2 * i], misread)
  <2>1. ASSUME NEW i \in 1 .. full PROVE Complete(c, j)[i] = w[2 * i]
    <3>1. 2 * i \in 1 .. Len(buf)
      BY <1>4, <1>7, SMTT(30)
    <3>2. Complete(c, j)[i] = Buffer(c, j)[2 * i]
      BY <1>4 DEF Complete
    <3> QED
      BY <1>4, <1>9, <3>1, <3>2
  <2> QED
    BY <1>11, <2>1
<1>13. HeardOut(h[full], v, n, pos[full], b, k, g, q, e /\ full = m)
  <2>1. Client(c, v, n, pos[0], b, k, g, q)
    BY <1>3
  <2>2. OneByOne(h, c, full, w, misread)
    BY <1>11, <1>12 DEF OneByOne
  <2>3. full \in 0 .. m
    BY <1>10
  <2>4. Leads(w, m, pos, v, n, e)
    BY <1>3
  <2>5. HeardAll(h, full, v, n, pos, b, k, g, q, e, m)
    BY <2>1, <2>2, <2>3, <2>4, RecordsHeard
  <2> QED
    BY <2>5 DEF HeardAll
<1>14. pos[full] \in Position /\ x.at <= pos[full].at /\ pos[full].units <= z.units
       /\ x.units <= pos[full].units
  <2>1. \A i \in 0 .. m : /\ pos[i] \in Position /\ pos[0].at <= pos[i].at
                          /\ pos[0].units <= pos[i].units /\ pos[i].units <= pos[m].units
    BY <1>3, LeadsUp
  <2>2. 0 \in 0 .. m
    BY <1>10
  <2>3. /\ pos[full] \in Position /\ pos[0].at <= pos[full].at
        /\ pos[full].units <= pos[m].units /\ pos[0].units <= pos[full].units
    BY <1>10, <2>1, <2>2
  <2> QED
    BY <1>3, <2>3
<1>15. PICK y, d : y = pos[full] /\ d = h[full]
  OBVIOUS
<1>16. y \in Position /\ x.at <= y.at /\ y.units <= z.units /\ (q => y.units = z.units)
  <2>1. x.units \in Nat /\ y.units \in Nat
    BY <1>14, <1>15 DEF Position
  <2> QED
    BY <1>14, <1>15, <2>1
<1>17. CASE d.err = "fatal alert"
  <2>1. ProcessRecv(c, j, misread) = [ClosedClient("fatal alert") EXCEPT !.out = d.out]
    BY <1>11, <1>15, <1>17 DEF Finished, None
  <2> QED
    BY <2>1
<1>18. CASE \E p \in BOOLEAN : /\ Client(d, v, n, y, b, k, g, p)
                               /\ (p = q \/ (p /\ e /\ full = m))
  <2>1. PICK p \in BOOLEAN : /\ Client(d, v, n, y, b, k, g, p)
                             /\ (p = q \/ (p /\ e /\ full = m))
    BY <1>18
  <2>2. d.err = None /\ DOMAIN d = Fields
    BY <2>1 DEF Client
  <2>3. PICK r : r = [d EXCEPT !.recvBuf = SubSeq(buf, f + 1, Len(buf))]
    OBVIOUS
  <2>4. ProcessRecv(c, j, misread) = r
    BY <1>4, <1>11, <1>15, <2>2, <2>3 DEF Finished
  <2>5. r.recvBuf = u /\ Same(d, r, {"recvBuf"})
    BY <1>4, <2>2, <2>3 DEF Same, Fields
  <2>6. Client(r, v, n, y, b, k, g, p)
    BY <2>1, <2>5, Rebuffered
  <2>7. Chain(u \o t, v, n, y, z, e)
    <3>1. PICK s : s = u \o t
      OBVIOUS
    <3>2. Len(s) = Len(w) - 2 * full /\ \A i \in 1 .. Len(s) : s[i] = w[i + 2 * full]
      BY <1>9, <3>1
    <3>3. Chain(s, v, n, pos[full], pos[m], e)
      BY <1>3, <1>10, <3>2, LeadsOn
    <3> QED
      BY <1>3, <1>15, <3>1, <3>3
  <2>8. Wire(r.recvBuf, t, v, n, y, z, e)
    BY <1>8, <2>5, <2>7 DEF Wire
  <2>9. p => y.units = z.units /\ (q \/ e)
    BY <1>3, <1>15, <1>16, <2>1
  <2>10. q => p
    BY <2>1
  <2>11. Onward(r, t, v, n, x, z, e, b, k, g, q)
    BY <1>16, <2>6, <2>8, <2>9, <2>10 DEF Onward
  <2> QED
    BY <1>4, <2>4, <2>11
<1> QED
  <2>1. HeardOut(d, v, n, y, b, k, g, q, e /\ full = m)
    BY <1>13, <1>15
  <2> QED
    BY <1>17, <1>18, <2>1 DEF HeardOut

\* A wire on which nothing is left.
LEMMA EmptyWire ==
  ASSUME NEW v, NEW n, NEW x, x \in Position, NEW a, a = << >>, NEW b, b = << >>
  PROVE  Wire(a, b, v, n, x, x, FALSE)
<1>1. PICK pos : pos = [j \in 0 .. 0 |-> x]
  OBVIOUS
<1>2. PICK w : w = a \o b
  OBVIOUS
<1>3. Len(w) = 2 * 0
  <2>1. a \in Seq({}) /\ b \in Seq({}) /\ Len(a) = 0 /\ Len(b) = 0
    OBVIOUS
  <2>2. Len(a \o b) = Len(a) + Len(b)
    BY <2>1, ConcatProperties
  <2> QED
    BY <1>2, <2>1, <2>2
<1>4. 0 \in Nat /\ pos \in [0 .. 0 -> Position] /\ pos[0] = x /\ \A j \in 1 .. 0 : FALSE
  BY <1>1
<1>5. Leads(w, 0, pos, v, n, FALSE)
  BY <1>3, <1>4 DEF Leads
<1>6. Chain(w, v, n, x, x, FALSE)
  BY <1>4, <1>5 DEF Chain
<1>7. a \in Seq({}) /\ b \in Seq({})
  OBVIOUS
<1> QED
  BY <1>2, <1>6, <1>7 DEF Wire

\* Where a wire ends is a position not below where it starts.
LEMMA WireEnds ==
  ASSUME NEW a, NEW b, NEW v \in Versions, NEW n, NEW x, NEW z, NEW e, Wire(a, b, v, n, x, z, e)
  PROVE  z \in Position /\ x.at <= z.at /\ x.units <= z.units
<1>1. PICK w, m, pos : Leads(w, m, pos, v, n, e) /\ pos[0] = x /\ pos[m] = z
  BY DEF Wire, Chain
<1>2. m \in Nat /\ m \in 0 .. m
  BY <1>1 DEF Leads
<1>3. \A i \in 0 .. m : /\ pos[i] \in Position /\ pos[0].at <= pos[i].at
                        /\ pos[0].units <= pos[i].units /\ pos[i].units <= pos[m].units
  BY <1>1, LeadsUp
<1> QED
  BY <1>1, <1>2, <1>3

\* One record more, sent where the wire ends, makes it lead further.
LEMMA LeadsOneMore ==
  ASSUME NEW w, NEW m, NEW pos, NEW v \in Versions, NEW n, Leads(w, m, pos, v, n, FALSE),
         NEW y, y \in Position, NEW r, NEW last, Fits(v, n, r, pos[m], y, last),
         NEW u, Len(u) = Len(w) + 2, \A i \in 1 .. Len(w) : u[i] = w[i],
         u[Len(w) + 1] = r, u[Len(w) + 2] = r
  PROVE  Chain(u, v, n, pos[0], y, last)
<1>1. m \in Nat /\ pos \in [0 .. m -> Position] /\ Len(w) = 2 * m
  BY DEF Leads
<1>2. PICK l, p : l = m + 1 /\ p = [j \in 0 .. l |-> IF j <= m THEN pos[j] ELSE y]
  OBVIOUS
<1>3. /\ l \in Nat /\ Len(u) = 2 * l /\ 0 \in 0 .. l /\ l \in 0 .. l /\ ~(l <= m) /\ m \in 0 .. l
  BY <1>1, <1>2
<1>4. \A j \in 0 .. l : p[j] = IF j <= m THEN pos[j] ELSE y
  BY <1>2
<1>5. p \in [0 .. l -> Position]
  <2>1. \A j \in 0 .. l : (IF j <= m THEN pos[j] ELSE y) \in Position
    BY <1>1, <1>2
  <2> QED
    BY <1>2, <2>1
<1>6. p[0] = pos[0] /\ p[l] = y /\ p[m] = pos[m]
  BY <1>1, <1>3, <1>4
<1>7. ASSUME NEW j \in 1 .. l
      PROVE  u[2 * j - 1] = u[2 * j] /\ Fits(v, n, u[2 * j], p[j - 1], p[j], last /\ j = l)
  <2>1. CASE j <= m
    <3>1. /\ j \in 1 .. m /\ 2 * j - 1 \in 1 .. Len(w) /\ 2 * j \in 1 .. Len(w) /\ j - 1 \in 0 .. l
          /\ j \in 0 .. l /\ j - 1 <= m
      BY <1>1, <1>3, <2>1
    <3>2. w[2 * j - 1] = w[2 * j] /\ Fits(v, n, w[2 * j], pos[j - 1], pos[j], FALSE /\ j = m)
      BY <3>1 DEF Leads
    <3>3. p[j - 1] = pos[j - 1] /\ p[j] = pos[j]
      BY <1>4, <2>1, <3>1
    <3>4. u[2 * j - 1] = w[2 * j - 1] /\ u[2 * j] = w[2 * j]
      BY <3>1
    <3>5. Fits(v, n, u[2 * j], p[j - 1], p[j], FALSE /\ j = m)
      BY <3>2, <3>3, <3>4
    <3>6. Fits(v, n, u[2 * j], p[j - 1], p[j], last /\ j = l)
      BY <3>5 DEF Fits
    <3> QED
      BY <3>2, <3>4, <3>6
  <2>2. CASE ~(j <= m)
    <3>1. j = l /\ 2 * j - 1 = Len(w) + 1 /\ 2 * j = Len(w) + 2 /\ j - 1 = m
      BY <1>1, <1>2, <2>2
    <3>2. u[2 * j - 1] = r /\ u[2 * j] = r
      BY <3>1
    <3>3. p[j - 1] = pos[m] /\ p[j] = y
      BY <1>6, <3>1
    <3>4. Fits(v, n, u[2 * j], p[j - 1], p[j], last)
      BY <3>2, <3>3
    <3>5. Fits(v, n, u[2 * j], p[j - 1], p[j], last /\ j = l)
      BY <3>1, <3>4 DEF Fits
    <3> QED
      BY <3>2, <3>5
  <2> QED
    BY <2>1, <2>2
<1>8. Leads(u, l, p, v, n, last)
  BY <1>3, <1>5, <1>7 DEF Leads
<1> QED
  BY <1>6, <1>8 DEF Chain

\* The server sends one more record.
LEMMA WireGrows ==
  ASSUME NEW a, NEW b, NEW v \in Versions, NEW n, NEW x, NEW z, Wire(a, b, v, n, x, z, FALSE),
         NEW y, NEW r, NEW last, Fits(v, n, r, z, y, last)
  PROVE  Wire(a, b \o << r, r >>, v, n, x, y, last)
<1>1. PICK S : a \in Seq(S) /\ b \in Seq(S) /\ Chain(a \o b, v, n, x, z, FALSE)
  BY DEF Wire
<1>2. PICK T, t, w : T = S \cup {r} /\ t = << r, r >> /\ w = a \o b
  OBVIOUS
<1>3. /\ a \in Seq(T) /\ b \in Seq(T) /\ t \in Seq(T) /\ Len(t) = 2 /\ t[1] = r /\ t[2] = r
      /\ Len(a) \in Nat /\ Len(b) \in Nat
  <2>1. S \subseteq T /\ r \in T
    BY <1>2
  <2>2. t \in Seq(T) /\ Len(t) = 2 /\ t[1] = r /\ t[2] = r
    BY <1>2, <2>1
  <2>3. \A i \in 1 .. Len(a) : a[i] \in T
    BY <1>1, <2>1, ElementOfSeq
  <2>4. \A i \in 1 .. Len(b) : b[i] \in T
    BY <1>1, <2>1, ElementOfSeq
  <2>5. a = [i \in 1 .. Len(a) |-> a[i]] /\ b = [i \in 1 .. Len(b) |-> b[i]]
        /\ Len(a) \in Nat /\ Len(b) \in Nat
    BY <1>1, LenProperties
  <2>6. a \in Seq(T)
    BY <2>3, <2>5
  <2>7. b \in Seq(T)
    BY <2>4, <2>5
  <2> QED
    BY <2>2, <2>5, <2>6, <2>7
<1>4. PICK f : f = b \o t
  OBVIOUS
<1>5. /\ Len(w) = Len(a) + Len(b)
      /\ \A i \in 1 .. Len(a) + Len(b) : w[i] = IF i <= Len(a) THEN a[i] ELSE b[i - Len(a)]
  BY <1>2, <1>3, ConcatProperties
<1>7. /\ f \in Seq(T) /\ Len(f) = Len(b) + 2
      /\ \A i \in 1 .. Len(b) + 2 : f[i] = IF i <= Len(b) THEN b[i] ELSE t[i - Len(b)]
  <2>1. f \in Seq(T) /\ Len(f) = Len(b) + Len(t)
    BY <1>3, <1>4, ConcatProperties
  <2>2. \A i \in 1 .. Len(b) + Len(t) : f[i] = IF i <= Len(b) THEN b[i] ELSE t[i - Len(b)]
    BY <1>3, <1>4, ConcatProperties
  <2>3. Len(b) + Len(t) = Len(b) + 2
    BY <1>3
  <2> QED
    BY <2>1, <2>2, <2>3
<1>8. PICK u : u = a \o f
  OBVIOUS
<1>9. /\ Len(u) = Len(a) + Len(f)
      /\ \A i \in 1 .. Len(a) + Len(f) : u[i] = IF i <= Len(a) THEN a[i] ELSE f[i - Len(a)]
  BY <1>3, <1>7, <1>8, ConcatProperties
<1>10. PICK la, lb : la = Len(a) /\ lb = Len(b)
  OBVIOUS
<1>11. /\ la \in Nat /\ lb \in Nat /\ Len(w) = la + lb /\ Len(u) = la + lb + 2
       /\ \A i \in 1 .. la + lb + 2 : u[i] = IF i <= la THEN a[i] ELSE f[i - la]
       /\ \A i \in 1 .. la + lb : w[i] = IF i <= la THEN a[i] ELSE b[i - la]
       /\ \A i \in 1 .. lb + 2 : f[i] = IF i <= lb THEN b[i] ELSE t[i - lb]
  <2>1. la \in Nat /\ lb \in Nat /\ Len(f) = lb + 2 /\ la + (lb + 2) = la + lb + 2
    BY <1>3, <1>7, <1>10
  <2>2. Len(w) = la + lb /\ Len(u) = la + lb + 2
    BY <1>5, <1>9, <1>10, <2>1
  <2> QED
    BY <1>5, <1>7, <1>9, <1>10, <2>1, <2>2
<1>12. ASSUME NEW i \in 1 .. la + lb PROVE u[i] = w[i]
  <2>1. CASE i <= la
    BY <1>11, <2>1
  <2>2. CASE ~(i <= la)
    <3>1. i - la \in 1 .. lb + 2 /\ i - la <= lb /\ i \in 1 .. la + lb + 2
      BY <1>11, <2>2
    <3> QED
      BY <1>11, <2>2, <3>1
  <2> QED
    BY <2>1, <2>2
<1>13. u[la + lb + 1] = r /\ u[la + lb + 2] = r
  <2>1. /\ la + lb + 1 \in 1 .. la + lb + 2 /\ ~(la + lb + 1 <= la) /\ (la + lb + 1) - la = lb + 1
        /\ la + lb + 2 \in 1 .. la + lb + 2 /\ ~(la + lb + 2 <= la) /\ (la + lb + 2) - la = lb + 2
        /\ lb + 1 \in 1 .. lb + 2 /\ ~(lb + 1 <= lb) /\ (lb + 1) - lb = 1
        /\ lb + 2 \in 1 .. lb + 2 /\ ~(lb + 2 <= lb) /\ (lb + 2) - lb = 2
    BY <1>11
  <2>2. u[la + lb + 1] = f[lb + 1] /\ u[la + lb + 2] = f[lb + 2]
    BY <1>11, <2>1
  <2>3. f[lb + 1] = t[1] /\ f[lb + 2] = t[2]
    BY <1>11, <2>1
  <2> QED
    BY <1>3, <2>2, <2>3
<1>14. PICK m, pos : Leads(w, m, pos, v, n, FALSE) /\ pos[0] = x /\ pos[m] = z
  BY <1>1, <1>2 DEF Chain
<1>15. y \in Position
  <2>1. z \in Position
    BY WireEnds
  <2> QED
    BY <2>1, FittingUnits
<1>16. Chain(u, v, n, pos[0], y, last)
  <2>1. Fits(v, n, r, pos[m], y, last) /\ Leads(w, m, pos, v, n, FALSE)
    BY <1>14
  <2>2. /\ Len(u) = Len(w) + 2 /\ \A i \in 1 .. Len(w) : u[i] = w[i]
        /\ u[Len(w) + 1] = r /\ u[Len(w) + 2] = r
    BY <1>11, <1>12, <1>13
  <2> QED
    BY <1>15, <2>1, <2>2, LeadsOneMore
<1>17. Wire(a, f, v, n, x, y, last)
  BY <1>3, <1>7, <1>8, <1>14, <1>16 DEF Wire
<1> QED
  BY <1>2, <1>4, <1>17

\* One message of a flight, of the server w that has made x so far.
Silent(w) == [msgs |-> << >>, hash |-> w.hash]
Speak(w, x, name) ==
  LET m == CASE name = "SH"  -> Msg(name, [rand |-> conns, ver |-> w.ver])
             [] name = "Fin" -> Msg(name, Verify(w.localKey, x.hash))
             [] OTHER        -> Msg(name, None)
  IN  [msgs |-> Append(x.msgs, m),
       hash |-> IF name \in {"CCS", "rest"} THEN x.hash ELSE Append(x.hash, Hashed(m))]
SaidInTurn(w, names, n) ==
  \E h : /\ h[0] = Silent(w) /\ h[n] = ServerSays(w, names)
         /\ \A i \in 1 .. n : h[i] = Speak(w, h[i - 1], names[i])

\* The server makes the messages of a flight one after the other.
LEMMA SaidByTurns ==
  ASSUME NEW w, NEW names, NEW n \in Nat, DOMAIN names = 1 .. n
  PROVE  SaidInTurn(w, names, n)
<1> DEFINE Step(y, i) == Speak(w, y, names[i])
           Is(it) == it = [s \in SUBSET (1 .. n) |->
                             IF s = {} THEN Silent(w) ELSE Step(it[s \ {Max(s)}], Max(s))]
           Good(it, k) == \A s \in SUBSET (1 .. k) :
                            it[s] = IF s = {} THEN Silent(w) ELSE Step(it[s \ {Max(s)}], Max(s))
           T == {k \in 0 .. n : \E it : Good(it, k)}
           c == CHOOSE it : Is(it)
<1>1. ServerSays(w, names) = c[1 .. n]
  BY DEF FoldLeft, MapThenFoldSet, ServerSays, Speak, Silent
<1> HIDE DEF Step
<1>2. 0 \in T
  <2> DEFINE it == [s \in SUBSET (1 .. n) |-> Silent(w)]
  <2>1. \A s \in SUBSET (1 .. 0) : s = {} /\ s \in SUBSET (1 .. n)
    OBVIOUS
  <2>2. \A s \in SUBSET (1 .. n) : it[s] = Silent(w)
    OBVIOUS
  <2> HIDE DEF it
  <2>3. Good(it, 0)
    BY <2>1, <2>2
  <2>4. 0 \in 0 .. n
    OBVIOUS
  <2> HIDE DEF Good
  <2> QED
    BY <2>3, <2>4
<1>3. ASSUME NEW k \in 0 .. n, k \in T, k < n PROVE k + 1 \in T
  <2>1. PICK it : Good(it, k)
    BY <1>3
  <2>0. k + 1 \in 1 .. n /\ \A s \in SUBSET (1 .. n) : s \ {k + 1} \in SUBSET (1 .. n)
    BY <1>3
  <2> DEFINE up == [s \in SUBSET (1 .. n) |->
                      IF k + 1 \in s THEN Step(it[s \ {k + 1}], k + 1) ELSE it[s]]
  <2>3. \A s \in SUBSET (1 .. n) :
          up[s] = IF k + 1 \in s THEN Step(it[s \ {k + 1}], k + 1) ELSE it[s]
    OBVIOUS
  <2> HIDE DEF up
  <2>4. ASSUME NEW s \in SUBSET (1 .. k + 1)
        PROVE  up[s] = IF s = {} THEN Silent(w) ELSE Step(up[s \ {Max(s)}], Max(s))
    <3>0. \A z \in s : z \in 1 .. n /\ (z = k + 1 \/ z \in 1 .. k)
      BY <1>3
    <3>1. s \in SUBSET (1 .. n) /\ s \ {k + 1} \in SUBSET (1 .. k)
          /\ (k + 1 \notin s => s \in SUBSET (1 .. k))
      BY <3>0
    <3>2. CASE k + 1 \in s
      <4>1. s # {} /\ k + 1 \in Nat
        BY <3>2
      <4>2. Max(s) \in s /\ \A y \in s : y <= Max(s)
        BY <4>1, MaxProperties
      <4>3. Max(s) = k + 1
        <5>1. Max(s) \in 1 .. k + 1 /\ k + 1 <= Max(s)
          BY <3>2, <4>2
        <5> QED
          BY <5>1
      <4>4. up[s \ {k + 1}] = it[s \ {k + 1}]
        BY <2>0, <2>3, <3>1
      <4> QED
        BY <2>3, <3>1, <3>2, <4>1, <4>3, <4>4
    <3>3. CASE k + 1 \notin s /\ s # {}
      <4>1. Max(s) \in s
        BY <3>1, <3>3, MaxProperties
      <4>2. s \ {Max(s)} \in SUBSET (1 .. n) /\ k + 1 \notin s \ {Max(s)}
        BY <3>1, <3>3
      <4>3. up[s \ {Max(s)}] = it[s \ {Max(s)}] /\ up[s] = it[s]
        BY <2>3, <3>1, <3>3, <4>2
      <4> QED
        BY <2>1, <3>1, <3>3, <4>3
    <3>4. CASE s = {}
      <4>1. up[s] = it[s] /\ it[s] = Silent(w)
        BY <2>1, <2>3, <3>1, <3>4
      <4> QED
        BY <3>4, <4>1
    <3> QED
      BY <3>2, <3>3, <3>4
  <2>5. Good(up, k + 1)
    BY <2>4
  <2>6. k + 1 \in 0 .. n
    BY <2>0
  <2> HIDE DEF Good
  <2> QED
    BY <2>5, <2>6
<1>4. \E it : Good(it, n)
  <2>1. \A i \in 0 .. n : i \in T
    <3> HIDE DEF T
    <3> QED
      BY <1>2, <1>3, UpTo
  <2>2. n \in T
    <3>1. n \in 0 .. n
      OBVIOUS
    <3> HIDE DEF T
    <3> QED
      BY <2>1, <3>1
  <2> HIDE DEF Good
  <2> QED
    BY <2>2
<1>5. Is(c)
  <2>1. PICK it : Good(it, n)
    BY <1>4
  <2> DEFINE g == [s \in SUBSET (1 .. n) |-> it[s]]
  <2>2. ASSUME NEW s \in SUBSET (1 .. n)
        PROVE  it[s] = IF s = {} THEN Silent(w) ELSE Step(g[s \ {Max(s)}], Max(s))
    <3>1. s \ {Max(s)} \in SUBSET (1 .. n)
      OBVIOUS
    <3>2. g[s \ {Max(s)}] = it[s \ {Max(s)}]
      BY <3>1
    <3> QED
      BY <2>1, <3>2
  <2>3. Is(g)
    BY <2>2
  <2> HIDE DEF g, Is
  <2> QED
    BY <2>3
<1>6. \A s \in SUBSET (1 .. n) : c[s] = IF s = {} THEN Silent(w) ELSE Step(c[s \ {Max(s)}], Max(s))
  <2> HIDE DEF c
  <2> QED
    BY <1>5
<1> HIDE DEF c
<1> DEFINE h == [i \in 0 .. n |-> c[1 .. i]]
<1>7. h[0] = Silent(w) /\ h[n] = c[1 .. n]
  <2>1. 1 .. 0 = {} /\ {} \in SUBSET (1 .. n) /\ 0 \in 0 .. n /\ n \in 0 .. n
    OBVIOUS
  <2> QED
    BY <1>6, <2>1
<1>8. ASSUME NEW i \in 1 .. n PROVE h[i] = Step(h[i - 1], i)
  <2>1. /\ 1 .. i # {} /\ Max(1 .. i) = i /\ (1 .. i) \ {i} = 1 .. i - 1
        /\ i - 1 \in 0 .. n /\ i \in 0 .. n /\ 1 .. i \in SUBSET (1 .. n)
    BY Beginnings
  <2>2. h[i] = c[1 .. i] /\ h[i - 1] = c[1 .. i - 1]
    BY <2>1
  <2> HIDE DEF h
  <2> QED
    BY <1>6, <2>1, <2>2
<1> HIDE DEF h
<1>9. \A i \in 1 .. n : h[i] = Speak(w, h[i - 1], names[i])
  BY <1>8 DEF Step
<1> QED
  BY <1>1, <1>7, <1>9 DEF SaidInTurn

(* -------------------------------- the server -------------------------------- *)

SrvFields == {"ver", "flight", "sealed", "opening", "localKey", "remoteKey", "serverSeq",
              "clientSeq", "hash", "appHash", "sent", "extra", "notified", "complete",
              "rejected"}

\* The transcript of the server that has sent p messages, in its second flight or not.
Told(v, n, p, second) ==
  CASE v = "tls12" /\ p = 4 -> IF second THEN To12Fin(n) ELSE To12SHD(n)
    [] v = "tls12" /\ p = 5 -> To12Fin(n)
    [] v = "tls12" /\ p = 6 -> Append(To12Fin(n), << "Fin" >>)
    [] v = "tls13" /\ p = 6 -> To13Fin(n)
    [] OTHER -> Seen(v, n, p)

\* What the next message is, and the transcript after it.
SaidNext(v, n, q, second, name) ==
  /\ name \in {"SH", "CCS", "EE", "Cert", "CV", "Fin", "SKE", "SHD"}
  /\ name = "SH" <=> q = 0
  /\ name = "Fin" <=> q = 5
  /\ name = "CCS" <=> q = IF v = "tls13" THEN 1 ELSE 4
  /\ name = "SH" => Said(v, n, q + 1) = Msg(name, [rand |-> n, ver |-> v])
  /\ name = "Fin" => /\ v = "tls13" => Said(v, n, q + 1) = Msg(name, Verify(HsKey("server", n), Told(v, n, q, second)))
                     /\ v = "tls12" => Said(v, n, q + 1) = Msg(name, Verify(Key12("server", n), Told(v, n, q, second)))
  /\ name \notin {"SH", "Fin"} => Said(v, n, q + 1) = Msg(name, None)
  /\ name = "CCS" => Told(v, n, q + 1, second) = Told(v, n, q, second)
  /\ name # "CCS" => Told(v, n, q + 1, second) = Append(Told(v, n, q, second), Hashed(Said(v, n, q + 1)))

\* What the server says for each name of its flight.
LEMMA NextSaid ==
  ASSUME NEW v \in Versions, NEW n, NEW q \in 0 .. 5, NEW second \in BOOLEAN,
         v = "tls13" => ~second, v = "tls12" => (second <=> q >= 4), NEW name, name = Names(v)[q + 1]
  PROVE  SaidNext(v, n, q, second, name)
<1> USE DEF SaidNext
<1>0. v \in {"tls12", "tls13"} /\ q \in {0, 1, 2, 3, 4, 5}
  BY DEF Versions
<1>1. CASE v = "tls13" /\ q = 0
  <2>1. name = "SH" /\ q + 1 = 1 /\ Names(v)[1] = "SH"
    BY <1>1 DEF Names, StateSeq
  <2>2. Said(v, n, 1) = Msg("SH", [rand |-> n, ver |-> v])
    BY <1>1, <2>1 DEF Said
  <2>3. Told(v, n, 0, second) = Start(n) /\ Told(v, n, 1, second) = Greeted(n)
    BY <1>1 DEF Told, Seen
  <2>4. Hashed(Msg("SH", [rand |-> n, ver |-> v])) = << "SH", n >>
    BY DEF Hashed, Msg
  <2>5. Greeted(n) = Append(Start(n), << "SH", n >>)
    BY DEF Greeted
  <2>6. Told(v, n, q + 1, second) = Append(Told(v, n, q, second), Hashed(Said(v, n, q + 1)))
    BY <1>1, <2>1, <2>2, <2>3, <2>4, <2>5
  <2>7. Said(v, n, q + 1) = Msg(name, [rand |-> n, ver |-> v])
    BY <1>1, <2>1, <2>2, <2>3
  <2> QED
    BY <1>1, <2>1, <2>6, <2>7
<1>2. CASE v = "tls13" /\ q = 1
  <2>1. name = "CCS" /\ q + 1 = 2 /\ Names(v)[2] = "CCS"
    BY <1>2 DEF Names, StateSeq
  <2>2. Said(v, n, 2) = Msg("CCS", None)
    BY <1>2, <2>1 DEF Said
  <2>3. Told(v, n, 1, second) = Greeted(n) /\ Told(v, n, 2, second) = Greeted(n)
    BY <1>2 DEF Told, Seen
  <2>4. Hashed(Msg("CCS", None)) = << "CCS" >>
    BY DEF Hashed, Msg
  <2>6. Told(v, n, q + 1, second) = Told(v, n, q, second)
    BY <1>2, <2>1, <2>3
  <2>7. Said(v, n, q + 1) = Msg(name, None)
    BY <1>2, <2>1, <2>2
  <2> QED
    BY <1>2, <2>1, <2>6, <2>7
<1>3. CASE v = "tls13" /\ q = 2
  <2>1. name = "EE" /\ q + 1 = 3 /\ Names(v)[3] = "EE"
    BY <1>3 DEF Names, StateSeq
  <2>2. Said(v, n, 3) = Msg("EE", None)
    BY <1>3, <2>1 DEF Said
  <2>3. Told(v, n, 2, second) = Greeted(n) /\ Told(v, n, 3, second) = To13EE(n)
    BY <1>3 DEF Told, Seen
  <2>4. Hashed(Msg("EE", None)) = << "EE" >>
    BY DEF Hashed, Msg
  <2>5. To13EE(n) = Append(Greeted(n), << "EE" >>)
    BY DEF To13EE
  <2>6. Told(v, n, q + 1, second) = Append(Told(v, n, q, second), Hashed(Said(v, n, q + 1)))
    BY <1>3, <2>1, <2>2, <2>3, <2>4, <2>5
  <2>7. Said(v, n, q + 1) = Msg(name, None)
    BY <1>3, <2>1, <2>2, <2>3
  <2> QED
    BY <1>3, <2>1, <2>6, <2>7
<1>4. CASE v = "tls13" /\ q = 3
  <2>1. name = "Cert" /\ q + 1 = 4 /\ Names(v)[4] = "Cert"
    BY <1>4 DEF Names, StateSeq
  <2>2. Said(v, n, 4) = Msg("Cert", None)
    BY <1>4, <2>1 DEF Said
  <2>3. Told(v, n, 3, second) = To13EE(n) /\ Told(v, n, 4, second) = To13Cert(n)
    BY <1>4 DEF Told, Seen
  <2>4. Hashed(Msg("Cert", None)) = << "Cert" >>
    BY DEF Hashed, Msg
  <2>5. To13Cert(n) = Append(To13EE(n), << "Cert" >>)
    BY DEF To13Cert
  <2>6. Told(v, n, q + 1, second) = Append(Told(v, n, q, second), Hashed(Said(v, n, q + 1)))
    BY <1>4, <2>1, <2>2, <2>3, <2>4, <2>5
  <2>7. Said(v, n, q + 1) = Msg(name, None)
    BY <1>4, <2>1, <2>2, <2>3
  <2> QED
    BY <1>4, <2>1, <2>6, <2>7
<1>5. CASE v = "tls13" /\ q = 4
  <2>1. name = "CV" /\ q + 1 = 5 /\ Names(v)[5] = "CV"
    BY <1>5 DEF Names, StateSeq
  <2>2. Said(v, n, 5) = Msg("CV", None)
    BY <1>5, <2>1 DEF Said
  <2>3. Told(v, n, 4, second) = To13Cert(n) /\ Told(v, n, 5, second) = To13CV(n)
    BY <1>5 DEF Told, Seen
  <2>4. Hashed(Msg("CV", None)) = << "CV" >>
    BY DEF Hashed, Msg
  <2>5. To13CV(n) = Append(To13Cert(n), << "CV" >>)
    BY DEF To13CV
  <2>6. Told(v, n, q + 1, second) = Append(Told(v, n, q, second), Hashed(Said(v, n, q + 1)))
    BY <1>5, <2>1, <2>2, <2>3, <2>4, <2>5
  <2>7. Said(v, n, q + 1) = Msg(name, None)
    BY <1>5, <2>1, <2>2, <2>3
  <2> QED
    BY <1>5, <2>1, <2>6, <2>7
<1>6. CASE v = "tls13" /\ q = 5
  <2>1. name = "Fin" /\ q + 1 = 6 /\ Names(v)[6] = "Fin"
    BY <1>6 DEF Names, StateSeq
  <2>2. Said(v, n, 6) = Msg("Fin", Verify(HsKey("server", n), To13CV(n)))
    BY <1>6, <2>1 DEF Said
  <2>3. Told(v, n, 5, second) = To13CV(n) /\ Told(v, n, 6, second) = To13Fin(n)
    BY <1>6 DEF Told, Seen
  <2>4. Hashed(Msg("Fin", Verify(HsKey("server", n), To13CV(n)))) = << "Fin" >>
    BY DEF Hashed, Msg
  <2>5. To13Fin(n) = Append(To13CV(n), << "Fin" >>)
    BY DEF To13Fin
  <2>6. Told(v, n, q + 1, second) = Append(Told(v, n, q, second), Hashed(Said(v, n, q + 1)))
    BY <1>6, <2>1, <2>2, <2>3, <2>4, <2>5
  <2>7. Said(v, n, q + 1) = Msg(name, Verify(HsKey("server", n), Told(v, n, q, second)))
    BY <1>6, <2>1, <2>2, <2>3
  <2> QED
    BY <1>6, <2>1, <2>6, <2>7
<1>7. CASE v = "tls12" /\ q = 0
  <2>1. name = "SH" /\ q + 1 = 1 /\ Names(v)[1] = "SH"
    BY <1>7 DEF Names, StateSeq
  <2>2. Said(v, n, 1) = Msg("SH", [rand |-> n, ver |-> v])
    BY <1>7, <2>1 DEF Said
  <2>3. Told(v, n, 0, second) = Start(n) /\ Told(v, n, 1, second) = Greeted(n)
    BY <1>7 DEF Told, Seen
  <2>4. Hashed(Msg("SH", [rand |-> n, ver |-> v])) = << "SH", n >>
    BY DEF Hashed, Msg
  <2>5. Greeted(n) = Append(Start(n), << "SH", n >>)
    BY DEF Greeted
  <2>6. Told(v, n, q + 1, second) = Append(Told(v, n, q, second), Hashed(Said(v, n, q + 1)))
    BY <1>7, <2>1, <2>2, <2>3, <2>4, <2>5
  <2>7. Said(v, n, q + 1) = Msg(name, [rand |-> n, ver |-> v])
    BY <1>7, <2>1, <2>2, <2>3
  <2> QED
    BY <1>7, <2>1, <2>6, <2>7
<1>8. CASE v = "tls12" /\ q = 1
  <2>1. name = "Cert" /\ q + 1 = 2 /\ Names(v)[2] = "Cert"
    BY <1>8 DEF Names, StateSeq
  <2>2. Said(v, n, 2) = Msg("Cert", None)
    BY <1>8, <2>1 DEF Said
  <2>3. Told(v, n, 1, second) = Greeted(n) /\ Told(v, n, 2, second) = To12Cert(n)
    BY <1>8 DEF Told, Seen
  <2>4. Hashed(Msg("Cert", None)) = << "Cert" >>
    BY DEF Hashed, Msg
  <2>5. To12Cert(n) = Append(Greeted(n), << "Cert" >>)
    BY DEF To12Cert
  <2>6. Told(v, n, q + 1, second) = Append(Told(v, n, q, second), Hashed(Said(v, n, q + 1)))
    BY <1>8, <2>1, <2>2, <2>3, <2>4, <2>5
  <2>7. Said(v, n, q + 1) = Msg(name, None)
    BY <1>8, <2>1, <2>2, <2>3
  <2> QED
    BY <1>8, <2>1, <2>6, <2>7
<1>9. CASE v = "tls12" /\ q = 2
  <2>1. name = "SKE" /\ q + 1 = 3 /\ Names(v)[3] = "SKE"
    BY <1>9 DEF Names, StateSeq
  <2>2. Said(v, n, 3) = Msg("SKE", None)
    BY <1>9, <2>1 DEF Said
  <2>3. Told(v, n, 2, second) = To12Cert(n) /\ Told(v, n, 3, second) = To12SKE(n)
    BY <1>9 DEF Told, Seen
  <2>4. Hashed(Msg("SKE", None)) = << "SKE" >>
    BY DEF Hashed, Msg
  <2>5. To12SKE(n) = Append(To12Cert(n), << "SKE" >>)
    BY DEF To12SKE
  <2>6. Told(v, n, q + 1, second) = Append(Told(v, n, q, second), Hashed(Said(v, n, q + 1)))
    BY <1>9, <2>1, <2>2, <2>3, <2>4, <2>5
  <2>7. Said(v, n, q + 1) = Msg(name, None)
    BY <1>9, <2>1, <2>2, <2>3
  <2> QED
    BY <1>9, <2>1, <2>6, <2>7
<1>10. CASE v = "tls12" /\ q = 3
  <2>1. name = "SHD" /\ q + 1 = 4 /\ Names(v)[4] = "SHD"
    BY <1>10 DEF Names, StateSeq
  <2>2. Said(v, n, 4) = Msg("SHD", None)
    BY <1>10, <2>1 DEF Said
  <2>3. Told(v, n, 3, second) = To12SKE(n) /\ Told(v, n, 4, second) = To12SHD(n)
    BY <1>10 DEF Told, Seen
  <2>4. Hashed(Msg("SHD", None)) = << "SHD" >>
    BY DEF Hashed, Msg
  <2>5. To12SHD(n) = Append(To12SKE(n), << "SHD" >>)
    BY DEF To12SHD
  <2>6. Told(v, n, q + 1, second) = Append(Told(v, n, q, second), Hashed(Said(v, n, q + 1)))
    BY <1>10, <2>1, <2>2, <2>3, <2>4, <2>5
  <2>7. Said(v, n, q + 1) = Msg(name, None)
    BY <1>10, <2>1, <2>2, <2>3
  <2> QED
    BY <1>10, <2>1, <2>6, <2>7
<1>11. CASE v = "tls12" /\ q = 4
  <2>1. name = "CCS" /\ q + 1 = 5 /\ Names(v)[5] = "CCS"
    BY <1>11 DEF Names, StateSeq
  <2>2. Said(v, n, 5) = Msg("CCS", None)
    BY <1>11, <2>1 DEF Said
  <2>3. Told(v, n, 4, second) = To12Fin(n) /\ Told(v, n, 5, second) = To12Fin(n)
    BY <1>11 DEF Told, Seen
  <2>4. Hashed(Msg("CCS", None)) = << "CCS" >>
    BY DEF Hashed, Msg
  <2>6. Told(v, n, q + 1, second) = Told(v, n, q, second)
    BY <1>11, <2>1, <2>3
  <2>7. Said(v, n, q + 1) = Msg(name, None)
    BY <1>11, <2>1, <2>2
  <2>8. /\ name \in {"SH", "CCS", "EE", "Cert", "CV", "Fin", "SKE", "SHD"}
        /\ name = "SH" <=> q = 0
        /\ name = "Fin" <=> q = 5
        /\ name = "CCS" <=> q = IF v = "tls13" THEN 1 ELSE 4
    BY <1>11, <2>1
  <2>9. name # "SH" /\ v # "tls13" /\ name = "CCS" /\ name # "Fin"
    BY <1>11, <2>1
  <2> QED
    BY <2>6, <2>7, <2>8, <2>9, Zenon
<1>12. CASE v = "tls12" /\ q = 5
  <2>1. name = "Fin" /\ q + 1 = 6 /\ Names(v)[6] = "Fin"
    BY <1>12 DEF Names, StateSeq
  <2>2. Said(v, n, 6) = Msg("Fin", Verify(Key12("server", n), To12Fin(n)))
    BY <1>12, <2>1 DEF Said
  <2>3. Told(v, n, 5, second) = To12Fin(n) /\ Told(v, n, 6, second) = Append(To12Fin(n), << "Fin" >>)
    BY <1>12 DEF Told, Seen
  <2>4. Hashed(Msg("Fin", Verify(Key12("server", n), To12Fin(n)))) = << "Fin" >>
    BY DEF Hashed, Msg
  <2>5. Append(To12Fin(n), << "Fin" >>) = Append(To12Fin(n), << "Fin" >>)
    OBVIOUS
  <2>6. Told(v, n, q + 1, second) = Append(Told(v, n, q, second), Hashed(Said(v, n, q + 1)))
    BY <1>12, <2>1, <2>2, <2>3, <2>4, <2>5
  <2>7. Said(v, n, q + 1) = Msg(name, Verify(Key12("server", n), Told(v, n, q, second)))
    BY <1>12, <2>1, <2>2, <2>3
  <2>8. /\ name \in {"SH", "CCS", "EE", "Cert", "CV", "Fin", "SKE", "SHD"}
        /\ name = "SH" <=> q = 0
        /\ name = "Fin" <=> q = 5
        /\ name = "CCS" <=> q = IF v = "tls13" THEN 1 ELSE 4
    BY <1>12, <2>1
  <2>9. name # "SH" /\ v # "tls13" /\ name # "CCS" /\ name = "Fin"
    BY <1>12, <2>1
  <2> QED
    BY <2>6, <2>7, <2>8, <2>9, Zenon
<1> QED
  BY <1>0, <1>1, <1>2, <1>3, <1>4, <1>5, <1>6, <1>7, <1>8, <1>9, <1>10, <1>11, <1>12

\* What is left of the flight of the server that has sent p messages and has
\* received a records.
FlightEnd(v, a) == IF v = "tls12" /\ a < 4 THEN 4 ELSE 6
Rest(v, p, a) == Slice(Names(v), p, FlightEnd(v, a) - p)

Turns(v, p, a) ==
  /\ v = "tls12" /\ p < 4 => a = 1
  /\ v = "tls12" /\ p >= 5 => a >= 4
  /\ v = "tls13" /\ p < 6 => a = 1

InFlight(v, p, a, k, f, names) ==
  /\ p < 6 /\ k \in 1 .. 6 - p /\ p + k <= FlightEnd(v, a)
  /\ v = "tls12" /\ a >= 4 => p >= 4
  /\ DOMAIN names = 1 .. k /\ \A i \in 1 .. k : names[i] = Names(v)[p + i]
  /\ SubSeq(f, k + 1, Len(f)) = Rest(v, p + k, a)

\* The names of a record are part of the flight, and the rest is its rest.
LEMMA FlightNames ==
  ASSUME NEW v \in Versions, NEW p \in 0 .. 6, NEW a \in Nat, Turns(v, p, a),
         NEW f, f = Rest(v, p, a), NEW k, k \in 1 .. Len(f), NEW names, names = SubSeq(f, 1, k)
  PROVE  InFlight(v, p, a, k, f, names)
<1> DEFINE m == FlightEnd(v, a) - p
<1>1. m \in Nat /\ p + m = FlightEnd(v, a) /\ FlightEnd(v, a) <= 6 /\ p \in Nat
  BY DEF FlightEnd, Turns, Versions
<1>2. Len(f) = m
  <2> HIDE DEF m
  <2>1. Len(Slice(Names(v), p, m)) = m
    BY <1>1, SliceProperties
  <2> QED
    BY <2>1 DEF Rest, m
<1>3. k \in Nat /\ k <= m /\ k >= 1
  BY <1>1, <1>2
<1>4. names = Slice(Names(v), p, k)
  <2>0. 0 \in Nat /\ 0 + k <= m /\ m \in Nat /\ k \in Nat
    BY <1>1, <1>3
  <2> HIDE DEF m
  <2>1. 1 = 0 + 1 /\ k = 0 + k /\ p = p + 0
    BY <1>3
  <2>2. IsPart(Names(v), p, m, 1, k, p, k)
    BY <1>1, <2>0, <2>1, SlicePart
  <2> QED
    BY <2>2 DEF Rest, m, IsPart
<1>5. SubSeq(f, k + 1, Len(f)) = Rest(v, p + k, a)
  <2> DEFINE j == m - k
  <2>1. j \in Nat /\ k + j = m /\ FlightEnd(v, a) - (p + k) = j
    BY <1>1, <1>3 DEF FlightEnd
  <2> HIDE DEF j, m
  <2>a. m \in Nat /\ k \in Nat /\ k + j <= m /\ p \in Nat
    BY <1>1, <1>3, <2>1
  <2>2. IsPart(Names(v), p, m, k + 1, m, p + k, j)
    BY <2>1, <2>a, SlicePart
  <2>3. f = Slice(Names(v), p, m)
    BY DEF Rest, m
  <2>4. Rest(v, p + k, a) = Slice(Names(v), p + k, j)
    BY <2>1 DEF Rest
  <2>5. Len(f) = m
    BY <1>2 DEF m
  <2> QED
    BY <2>2, <2>3, <2>4, <2>5 DEF IsPart
<1>6. DOMAIN names = 1 .. k /\ \A i \in 1 .. k : names[i] = Names(v)[p + i]
  BY <1>4 DEF Slice
<1>7. p < 6 /\ k \in 1 .. 6 - p /\ p + k <= FlightEnd(v, a)
  BY <1>1, <1>3 DEF FlightEnd
<1>8. v = "tls12" /\ a >= 4 => p >= 4
  BY DEF Turns
<1> QED
  BY <1>5, <1>6, <1>7, <1>8 DEF InFlight

\* The server has said the next k messages.
Speech(s, v, p, k, second) ==
  s.msgs = SaidAfter(v, conns, p, k) /\ s.hash = Told(v, conns, p + k, second)

\* A name more makes the speech one message longer.
LEMMA Speaks ==
  ASSUME NEW w, NEW v \in Versions, w.ver = v, NEW p \in 0 .. 5, NEW k \in Nat, p + k <= 5,
         NEW second \in BOOLEAN, v = "tls13" => ~second, v = "tls12" => (second <=> p + k >= 4),
         p + k = 5 => w.localKey = IF v = "tls13" THEN HsKey("server", conns)
                                   ELSE Key12("server", conns),
         NEW x, Speech(x, v, p, k, second), NEW name, name = Names(v)[p + (k + 1)]
  PROVE  Speech(Speak(w, x, name), v, p, k + 1, second)
<1>q. PICK q : q = p + k
  OBVIOUS
<1> DEFINE t == Told(v, conns, q, second)
           m == Said(v, conns, q + 1)
<1>1. q \in 0 .. 5 /\ p + (k + 1) = q + 1 /\ k + 1 \in Nat
  BY <1>q
<1>2. PICK y : y = Speak(w, x, name)
  OBVIOUS
<1>3. /\ x.hash = t /\ x.msgs = SaidAfter(v, conns, p, k)
  BY <1>q DEF Speech
<1> HIDE DEF t, m
<1>a. v = "tls12" => (second <=> q >= 4)
  BY <1>q
<1>b. name = Names(v)[q + 1]
  BY <1>1
<1>c. v = "tls13" => ~second
  OBVIOUS
<1>d. SaidNext(v, conns, q, second, name)
  BY <1>1, <1>a, <1>b, <1>c, NextSaid
<1>4. /\ name \in {"SH", "CCS", "EE", "Cert", "CV", "Fin", "SKE", "SHD"}
      /\ name = "Fin" <=> q = 5
      /\ name = "SH" => m = Msg(name, [rand |-> conns, ver |-> v])
      /\ name = "Fin" => /\ v = "tls13" => m = Msg(name, Verify(HsKey("server", conns), t))
                         /\ v = "tls12" => m = Msg(name, Verify(Key12("server", conns), t))
      /\ name \notin {"SH", "Fin"} => m = Msg(name, None)
      /\ name = "CCS" => Told(v, conns, q + 1, second) = t
      /\ name # "CCS" => Told(v, conns, q + 1, second) = Append(t, Hashed(m))
  BY <1>d DEF SaidNext, t, m
<1>5. y.msgs = Append(x.msgs, m) /\ y.hash = Told(v, conns, q + 1, second)
  <2>1. CASE name = "SH"
    BY <1>2, <1>3, <1>4, <2>1 DEF Speak
  <2>2. CASE name = "Fin"
    <3>1. m = Msg(name, Verify(w.localKey, x.hash))
      BY <1>q, <1>1, <1>3, <1>4, <2>2 DEF Versions
    <3> QED
      BY <1>2, <1>3, <1>4, <2>2, <3>1 DEF Speak
  <2>3. CASE name \notin {"SH", "Fin"}
    <3>1. m = Msg(name, None)
      BY <1>4, <2>3
    <3>2. CASE name = "CCS"
      BY <1>2, <1>3, <1>4, <2>3, <3>1, <3>2 DEF Speak
    <3>3. CASE name # "CCS"
      BY <1>2, <1>3, <1>4, <2>3, <3>1, <3>3 DEF Speak
    <3> QED
      BY <3>2, <3>3
  <2> QED
    BY <2>1, <2>2, <2>3
<1>6. Append(SaidAfter(v, conns, p, k), m) = SaidAfter(v, conns, p, k + 1)
  <2> DEFINE f == [j \in Nat |-> Said(v, conns, j)]
  <2>1. \A l \in Nat : SaidAfter(v, conns, p, l) = Slice(f, p, l)
    <3>1. ASSUME NEW l \in Nat, NEW i \in 1 .. l PROVE f[p + i] = Said(v, conns, p + i)
      OBVIOUS
    <3> HIDE DEF f
    <3> QED
      BY <3>1 DEF SaidAfter, Slice
  <2>2. f[p + k + 1] = m
    BY <1>q DEF m
  <2> HIDE DEF f
  <2>3. Append(Slice(f, p, k), f[p + k + 1]) = Slice(f, p, k + 1)
    <3>1. p \in Nat
      OBVIOUS
    <3> QED
      BY <3>1, SliceAppend
  <2> QED
    BY <1>1, <2>1, <2>2, <2>3
<1> QED
  BY <1>1, <1>2, <1>3, <1>5, <1>6 DEF Speech

Second(v, a) == IF v = "tls12" /\ a >= 4 THEN TRUE ELSE FALSE
ServerHash(v, n, p, a) ==
  IF v = "tls12" /\ p = 4 /\ a \in {2, 3} THEN To12CKE(n) ELSE Told(v, n, p, Second(v, a))

\* The keys, numbers and flags of the server that has sent its messages up to z
\* and has received a of the client's.
ServerKeys(s, v, n, z, a) ==
  /\ SealedAt(v, z.at) \/ v = "tls12" => s.localKey = SealKey(v, n, z.at)
  /\ v = "tls12" => s.remoteKey = Key12("client", n)
  /\ v = "tls13" /\ z.at > 0 => s.remoteKey = IF a < 3 THEN HsKey("client", n) ELSE ApKey("client", n)
  /\ s.hash = ServerHash(v, n, z.at, a)
  /\ s.appHash = IF v = "tls13" /\ z.at = 6 THEN To13Fin(n) ELSE << >>
ServerCounts(s, v, z, a) ==
  /\ s.sealed = (IF SealedAt(v, z.at) THEN TRUE ELSE FALSE)
  /\ s.opening = (IF (v = "tls13" /\ z.at > 0) \/ (v = "tls12" /\ a >= 3) THEN TRUE ELSE FALSE)
  /\ s.notified = FALSE => s.serverSeq = z.seq
  /\ s.clientSeq = IF a >= 4 THEN a - 3 ELSE 0
ServerAt(s, v, n, z, a) ==
  /\ DOMAIN s = SrvFields /\ s.rejected = FALSE /\ s.notified \in BOOLEAN /\ s.complete \in BOOLEAN
  /\ s.ver = v /\ s.flight = Rest(v, z.at, a) /\ Turns(v, z.at, a)
  /\ ServerKeys(s, v, n, z, a) /\ ServerCounts(s, v, z, a)
  /\ s.notified = TRUE => z.at = 6
  /\ v = "tls12" /\ s.complete = TRUE => z.at = 6

\* A flight is said in turn.
LEMMA FlightSaid ==
  ASSUME NEW w, NEW v \in Versions, NEW z, z \in Position, NEW a \in Nat,
         ServerAt(w, v, conns, z, a), NEW k, k \in 1 .. Len(w.flight),
         NEW names, names = SubSeq(w.flight, 1, k), k > 1 /\ v = "tls13" => z.at > 0
  PROVE  /\ Speech(ServerSays(w, names), v, z.at, k, Second(v, a))
         /\ InFlight(v, z.at, a, k, w.flight, names)
<1> DEFINE p == z.at
           second == Second(v, a)
<1>0. p \in 0 .. 6 /\ v \in {"tls12", "tls13"}
  BY PositionFacts DEF Versions
<1>1. /\ w.ver = v /\ w.flight = Rest(v, p, a) /\ Turns(v, p, a)
      /\ ServerKeys(w, v, conns, z, a)
  BY DEF ServerAt
<1>2. InFlight(v, p, a, k, w.flight, names)
  <2> HIDE DEF p
  <2>1. PICK f : f = w.flight
    OBVIOUS
  <2>2. f = Rest(v, p, a) /\ k \in 1 .. Len(f) /\ names = SubSeq(f, 1, k)
    BY <1>1, <2>1
  <2>3. InFlight(v, p, a, k, f, names)
    BY <1>0, <1>1, <2>2, FlightNames
  <2> QED
    BY <2>1, <2>3
<1>3. /\ p < 6 /\ k \in 1 .. 6 - p /\ p + k <= FlightEnd(v, a)
      /\ v = "tls12" /\ a >= 4 => p >= 4
      /\ DOMAIN names = 1 .. k /\ \A i \in 1 .. k : names[i] = Names(v)[p + i]
  BY <1>2 DEF InFlight
<1>4. /\ k \in Nat /\ second \in BOOLEAN /\ p + k <= 6
      /\ v = "tls13" => ~second
      /\ v = "tls12" => (second <=> a >= 4)
      /\ v = "tls12" /\ a < 4 => p + k <= 4
  BY <1>0, <1>3 DEF Second, FlightEnd
<1>5. PICK h : /\ h[0] = Silent(w) /\ h[k] = ServerSays(w, names)
               /\ \A i \in 1 .. k : h[i] = Speak(w, h[i - 1], names[i])
  <2>1. SaidInTurn(w, names, k)
    BY <1>3, <1>4, SaidByTurns
  <2> QED
    BY <2>1 DEF SaidInTurn
<1>6. w.hash = Told(v, conns, p, second)
  <2>1. ~(v = "tls12" /\ p = 4 /\ a \in {2, 3})
    BY <1>0, <1>3, <1>4
  <2> QED
    BY <1>1, <2>1 DEF ServerKeys, ServerHash
<1>7. ASSUME v = "tls12" \/ p > 0
      PROVE  w.localKey = IF v = "tls13" THEN HsKey("server", conns) ELSE Key12("server", conns)
  BY <1>0, <1>1, <1>3, <1>7 DEF ServerKeys, SealedAt, SealKey
<1> DEFINE T == {i \in 0 .. k : Speech(h[i], v, p, i, second)}
<1> HIDE DEF second, p
<1>8. 0 \in T
  <2>1. SaidAfter(v, conns, p, 0) = << >> /\ p + 0 = p /\ 0 \in 0 .. k
    BY <1>0, <1>4 DEF SaidAfter
  <2>2. Speech(h[0], v, p, 0, second)
    BY <1>5, <1>6, <2>1 DEF Speech, Silent
  <2> QED
    BY <2>1, <2>2
<1>9. ASSUME NEW i \in 0 .. k, i \in T, i < k PROVE i + 1 \in T
  <2>1. /\ i \in Nat /\ p \in 0 .. 5 /\ p + i <= 5 /\ i + 1 \in 1 .. k /\ (i + 1) - 1 = i
    BY <1>0, <1>3, <1>4, <1>9
  <2>2. names[i + 1] = Names(v)[p + (i + 1)]
    BY <1>3, <2>1
  <2>3. v = "tls12" => (second <=> p + i >= 4)
    BY <1>0, <1>3, <1>4, <1>9, <2>1
  <2>4. p + i = 5 => w.localKey = IF v = "tls13" THEN HsKey("server", conns)
                                   ELSE Key12("server", conns)
    <3>1. CASE p > 0
      BY <1>7, <3>1
    <3>2. CASE p = 0 /\ v = "tls13"
      <4>1. ~(k > 1)
        BY <3>2 DEF p
      <4> QED
        BY <1>4, <1>9, <2>1, <3>2, <4>1
    <3>3. CASE v = "tls12"
      BY <1>7, <3>3
    <3> QED
      BY <1>0, <3>1, <3>2, <3>3
  <2>5. Speech(h[i], v, p, i, second)
    BY <1>9
  <2>6. PICK x, name : x = h[i] /\ name = names[i + 1]
    OBVIOUS
  <2>7. Speech(x, v, p, i, second) /\ name = Names(v)[p + (i + 1)]
    BY <2>2, <2>5, <2>6
  <2>8. Speech(Speak(w, x, name), v, p, i + 1, second)
    BY <1>1, <1>4, <2>1, <2>3, <2>4, <2>7, Speaks
  <2>9. h[i + 1] = Speak(w, x, name)
    BY <1>5, <2>1, <2>6
  <2> QED
    BY <2>1, <2>8, <2>9
<1>10. Speech(h[k], v, p, k, second)
  <2>1. k \in 0 .. k
    BY <1>4
  <2>2. \A i \in 0 .. k : i \in T
    <3> HIDE DEF T
    <3> QED
      BY <1>4, <1>8, <1>9, UpTo
  <2> QED
    BY <2>1, <2>2
<1> QED
  BY <1>2, <1>5, <1>10 DEF p, second

\* What the server sends is a record of its position.
MakesRecord(w, v, n, z, type, msgs) ==
  ServerRecord(w, type, msgs) = Record(v, n, z.at, z.seq, type, msgs)

\* The record the server makes is the one its position calls for.
LEMMA RecordMade ==
  ASSUME NEW w, NEW v \in Versions, NEW n, NEW z, z \in Position, NEW a,
         ServerAt(w, v, n, z, a), w.notified = FALSE, NEW type, NEW msgs
  PROVE  MakesRecord(w, v, n, z, type, msgs)
<1>1. /\ w.ver = v /\ w.sealed = (IF SealedAt(v, z.at) THEN TRUE ELSE FALSE)
      /\ w.serverSeq = z.seq
      /\ SealedAt(v, z.at) => w.localKey = SealKey(v, n, z.at)
  BY DEF ServerAt, ServerKeys, ServerCounts
<1>2. CASE SealedAt(v, z.at) /\ type # "ccs"
  <2>1. w.sealed /\ type # "ccs" /\ w.localKey = SealKey(v, n, z.at)
    BY <1>1, <1>2
  <2> HIDE DEF SealedAt
  <2> QED
    BY <1>1, <1>2, <2>1 DEF ServerRecord, Record, MakesRecord
<1>3. CASE ~(SealedAt(v, z.at) /\ type # "ccs")
  <2>1. ~(w.sealed /\ type # "ccs")
    BY <1>1, <1>3
  <2> QED
    BY <1>1, <1>3, <2>1 DEF ServerRecord, Record, MakesRecord
<1> QED
  BY <1>2, <1>3

SrvSame(w, u, S) == DOMAIN u = SrvFields /\ \A f \in SrvFields \ S : u[f] = w[f]

\* The server after the last message of a record of its flight.
Switched(w, u, w1, w2, v, name, hash, s, f, c) ==
  /\ w1 = [w EXCEPT !.serverSeq = s, !.flight = f]
  /\ w2 = ServerSwitch(w1, name, hash)
  /\ u = [w2 EXCEPT !.complete = c]

\* What a switch leaves, and what it changes.
SwitchLeaves(w, u, v, name, hash, s, f, c) ==
  /\ DOMAIN u = SrvFields /\ u.flight = f /\ u.complete = c
  /\ \A g \in {"ver", "sent", "notified", "rejected", "clientSeq", "extra"} : u[g] = w[g]
  /\ u.serverSeq = IF v = "tls13" /\ name = "Fin" THEN 0 ELSE s
  /\ u.appHash = IF v = "tls13" /\ name = "Fin" THEN hash ELSE w.appHash
  /\ u.hash = IF v = "tls12" /\ name = "CCS" THEN w.hash ELSE hash
  /\ u.sealed = IF (v = "tls13" /\ name = "SH") \/ (v = "tls12" /\ name = "CCS") THEN TRUE ELSE w.sealed
  /\ u.opening = IF v = "tls13" /\ name = "SH" THEN TRUE ELSE w.opening
  /\ u.localKey = IF v = "tls13" /\ name = "SH" THEN Key("server", "hs", hash)
                  ELSE IF v = "tls13" /\ name = "Fin" THEN Key("server", "ap", hash) ELSE w.localKey
  /\ u.remoteKey = IF v = "tls13" /\ name = "SH" THEN Key("client", "hs", hash) ELSE w.remoteKey

\* What ServerSwitch changes after the last message of a record.
LEMMA Switching ==
  ASSUME NEW w, DOMAIN w = SrvFields, NEW v \in Versions, w.ver = v, NEW u, NEW w1, NEW w2,
         NEW name, NEW hash, NEW s, NEW f, NEW c, Switched(w, u, w1, w2, v, name, hash, s, f, c)
  PROVE  SwitchLeaves(w, u, v, name, hash, s, f, c)
<1>1. w1.serverSeq = s /\ w1.flight = f /\ SrvSame(w, w1, {"serverSeq", "flight"})
  BY DEF Switched, SrvSame, SrvFields
<1>2. DOMAIN w1 = SrvFields /\ w1.ver = v /\ v \in {"tls12", "tls13"}
  BY <1>1 DEF SrvSame, SrvFields, Versions
<1>3. DOMAIN w2 = SrvFields => u.complete = c /\ SrvSame(w2, u, {"complete"})
  BY DEF Switched, SrvSame, SrvFields
<1>4. w2 = ServerSwitch(w1, name, hash)
  BY DEF Switched
<1>5. CASE v = "tls13" /\ name = "SH"
  <2> DEFINE l == Key("server", "hs", hash)
             m == Key("client", "hs", hash)
  <2>1. w2 = [w1 EXCEPT !.sealed = TRUE, !.opening = TRUE, !.hash = hash, !.localKey = l, !.remoteKey = m]
    BY <1>2, <1>4, <1>5 DEF ServerSwitch
  <2> HIDE DEF l, m
  <2>2. /\ w2.sealed = TRUE /\ w2.opening = TRUE /\ w2.hash = hash /\ w2.localKey = l /\ w2.remoteKey = m
        /\ SrvSame(w1, w2, {"sealed", "opening", "hash", "localKey", "remoteKey"})
    BY <1>2, <2>1 DEF SrvSame, SrvFields
  <2>3. DOMAIN w2 = SrvFields
    BY <2>2 DEF SrvSame
  <2>4. u.complete = c /\ SrvSame(w2, u, {"complete"})
    BY <1>3, <2>3
  <2> QED
    BY <1>1, <1>5, <2>2, <2>4 DEF SrvSame, SrvFields, SwitchLeaves, l, m
<1>6. CASE v = "tls13" /\ name = "Fin"
  <2> DEFINE l == Key("server", "ap", hash)
  <2>1. w2 = [w1 EXCEPT !.localKey = l, !.serverSeq = 0, !.hash = hash, !.appHash = hash]
    BY <1>2, <1>4, <1>6 DEF ServerSwitch
  <2> HIDE DEF l
  <2>2. /\ w2.localKey = l /\ w2.serverSeq = 0 /\ w2.hash = hash /\ w2.appHash = hash
        /\ SrvSame(w1, w2, {"localKey", "serverSeq", "hash", "appHash"})
    BY <1>2, <2>1 DEF SrvSame, SrvFields
  <2>3. DOMAIN w2 = SrvFields
    BY <2>2 DEF SrvSame
  <2>4. u.complete = c /\ SrvSame(w2, u, {"complete"})
    BY <1>3, <2>3
  <2> QED
    BY <1>1, <1>6, <2>2, <2>4 DEF SrvSame, SrvFields, SwitchLeaves, l
<1>7. CASE v = "tls12" /\ name = "CCS"
  <2>1. w2 = [w1 EXCEPT !.sealed = TRUE]
    BY <1>2, <1>4, <1>7 DEF ServerSwitch
  <2>2. w2.sealed = TRUE /\ SrvSame(w1, w2, {"sealed"})
    BY <1>2, <2>1 DEF SrvSame, SrvFields
  <2>3. DOMAIN w2 = SrvFields
    BY <2>2 DEF SrvSame
  <2>4. u.complete = c /\ SrvSame(w2, u, {"complete"})
    BY <1>3, <2>3
  <2> QED
    BY <1>1, <1>7, <2>2, <2>4 DEF SrvSame, SrvFields, SwitchLeaves
<1>8. CASE /\ ~(v = "tls13" /\ name = "SH") /\ ~(v = "tls13" /\ name = "Fin")
           /\ ~(v = "tls12" /\ name = "CCS")
  <2>1. w2 = [w1 EXCEPT !.hash = hash]
    BY <1>2, <1>4, <1>8 DEF ServerSwitch
  <2>2. w2.hash = hash /\ SrvSame(w1, w2, {"hash"})
    BY <1>2, <2>1 DEF SrvSame, SrvFields
  <2>3. DOMAIN w2 = SrvFields
    BY <2>2 DEF SrvSame
  <2>4. u.complete = c /\ SrvSame(w2, u, {"complete"})
    BY <1>3, <2>3
  <2> QED
    BY <1>1, <1>8, <2>2, <2>4 DEF SrvSame, SrvFields, SwitchLeaves
<1> QED
  BY <1>5, <1>6, <1>7, <1>8

\* The server has sent the next messages of its flight.
LEMMA FlightSwitches ==
  ASSUME NEW w, NEW v \in Versions, NEW n, NEW z, z \in Position, NEW a \in Nat,
         ServerAt(w, v, n, z, a), w.notified = FALSE, NEW k, NEW names,
         InFlight(v, z.at, a, k, w.flight, names), k > 1 /\ v = "tls13" => z.at > 0,
         k > 1 => \A i \in 1 .. k : names[i] # "CCS",
         NEW hash, hash = Told(v, n, z.at + k, Second(v, a)),
         NEW y, y \in Position, y.at = z.at + k,
         NEW s, y.seq = IF v = "tls13" /\ y.at = 6 THEN 0 ELSE s,
         NEW f, f = Rest(v, y.at, a), NEW c \in BOOLEAN, c = TRUE => y.at = 6,
         NEW u, SwitchLeaves(w, u, v, names[k], hash, s, f, c)
  PROVE  ServerAt(u, v, n, y, a)
<1> DEFINE p == z.at
           q == y.at
           second == Second(v, a)
<1>0. p \in 0 .. 6 /\ q \in 1 .. 6 /\ v \in {"tls12", "tls13"} /\ p < q
  BY PositionFacts DEF Versions, InFlight
<1>1. /\ k \in 1 .. 6 - p /\ q <= FlightEnd(v, a) /\ (v = "tls12" /\ a >= 4 => p >= 4)
      /\ names[k] = Names(v)[q]
  BY <1>0 DEF InFlight
<1>2. /\ second \in BOOLEAN /\ (v = "tls13" => ~second) /\ (v = "tls12" => (second <=> q - 1 >= 4))
      /\ (v = "tls12" /\ a < 4 => q <= 4)
  BY <1>0, <1>1 DEF Second, FlightEnd
<1>3. /\ names[k] = "SH" <=> q = 1
      /\ names[k] = "Fin" <=> q = 6
      /\ names[k] = "CCS" <=> q = IF v = "tls13" THEN 2 ELSE 5
  BY <1>0, <1>1 DEF Names, StateSeq
<1>4. /\ DOMAIN u = SrvFields /\ u.flight = f /\ u.complete = c
      /\ u.ver = w.ver /\ u.notified = w.notified /\ u.rejected = w.rejected
      /\ u.clientSeq = w.clientSeq
      /\ u.serverSeq = IF v = "tls13" /\ names[k] = "Fin" THEN 0 ELSE s
      /\ u.appHash = IF v = "tls13" /\ names[k] = "Fin" THEN hash ELSE w.appHash
      /\ u.hash = IF v = "tls12" /\ names[k] = "CCS" THEN w.hash ELSE hash
      /\ u.sealed = IF (v = "tls13" /\ names[k] = "SH") \/ (v = "tls12" /\ names[k] = "CCS") THEN TRUE ELSE w.sealed
      /\ u.opening = IF v = "tls13" /\ names[k] = "SH" THEN TRUE ELSE w.opening
      /\ u.localKey = IF v = "tls13" /\ names[k] = "SH" THEN Key("server", "hs", hash)
                      ELSE IF v = "tls13" /\ names[k] = "Fin" THEN Key("server", "ap", hash) ELSE w.localKey
      /\ u.remoteKey = IF v = "tls13" /\ names[k] = "SH" THEN Key("client", "hs", hash) ELSE w.remoteKey
  BY DEF SwitchLeaves
<1>5. /\ DOMAIN w = SrvFields /\ w.rejected = FALSE
      /\ w.ver = v /\ w.flight = Rest(v, p, a) /\ Turns(v, p, a)
      /\ ServerKeys(w, v, n, z, a) /\ ServerCounts(w, v, z, a)
  BY DEF ServerAt
<1>6. v = "tls13" => (p > 0 <=> q > 1)
  BY <1>0, <1>1
<1>7. Turns(v, q, a)
  BY <1>0, <1>1, <1>2, <1>5 DEF Turns
<1>8. hash = Told(v, n, q, second)
  OBVIOUS
<1>9. u.hash = ServerHash(v, n, q, a)
  <2>1. CASE v = "tls12" /\ q = 5
    <3>1. p = 4 /\ a >= 4
      BY <1>0, <1>1, <1>2, <2>1
    <3>2. w.hash = ServerHash(v, n, p, a)
      BY <1>5 DEF ServerKeys
    <3>3. ServerHash(v, n, p, a) = To12Fin(n) /\ ServerHash(v, n, q, a) = To12Fin(n)
      BY <2>1, <3>1 DEF ServerHash, Told, Second
    <3> QED
      BY <1>3, <1>4, <2>1, <3>2, <3>3
  <2>2. CASE ~(v = "tls12" /\ q = 5)
    <3>1. u.hash = hash
      BY <1>0, <1>3, <1>4, <2>2
    <3>2. ~(v = "tls12" /\ q = 4 /\ a \in {2, 3})
      BY <1>0, <1>5 DEF Turns
    <3> QED
      BY <1>8, <3>1, <3>2 DEF ServerHash
  <2> QED
    BY <2>1, <2>2
<1>10. ServerKeys(u, v, n, y, a)
  <2>1. CASE v = "tls13"
    <3>1. q = 1 => hash = Greeted(n)
      BY <1>8, <2>1 DEF Told, Seen
    <3>2. q = 6 => hash = To13Fin(n)
      BY <1>8, <2>1 DEF Told
    <3>3. u.localKey = SealKey(v, n, q)
      <4>1. CASE q = 1
        BY <1>3, <1>4, <2>1, <3>1, <4>1 DEF SealKey, HsKey
      <4>2. CASE q = 6
        BY <1>3, <1>4, <2>1, <3>2, <4>2 DEF SealKey, ApKey
      <4>3. CASE q \in 2 .. 5
        <5>1. w.localKey = SealKey(v, n, p) /\ p \in 1 .. 5
          BY <1>0, <1>5, <1>6, <2>1, <4>3 DEF ServerKeys, SealedAt
        <5> QED
          BY <1>0, <1>3, <1>4, <2>1, <4>3, <5>1 DEF SealKey
      <4> QED
        BY <1>0, <4>1, <4>2, <4>3
    <3>4. u.remoteKey = IF a < 3 THEN HsKey("client", n) ELSE ApKey("client", n)
      <4>1. CASE q = 1
        <5>1. a = 1 /\ hash = Greeted(n)
          BY <1>0, <1>5, <2>1, <3>1, <4>1 DEF Turns
        <5> QED
          BY <1>3, <1>4, <2>1, <4>1, <5>1 DEF HsKey
      <4>2. CASE q # 1
        BY <1>0, <1>3, <1>4, <1>5, <1>6, <2>1, <4>2 DEF ServerKeys
      <4> QED
        BY <4>1, <4>2
    <3>5. u.appHash = IF v = "tls13" /\ q = 6 THEN To13Fin(n) ELSE << >>
      BY <1>0, <1>3, <1>4, <1>5, <2>1, <3>2 DEF ServerKeys
    <3> QED
      BY <1>9, <2>1, <3>3, <3>4, <3>5 DEF ServerKeys
  <2>2. CASE v = "tls12"
    <3>1. u.localKey = w.localKey /\ u.remoteKey = w.remoteKey /\ u.appHash = w.appHash
      BY <1>4, <2>2
    <3> QED
      BY <1>5, <1>9, <2>2, <3>1 DEF ServerKeys, SealKey
  <2> QED
    BY <1>0, <2>1, <2>2
<1>11. ServerCounts(u, v, y, a)
  <2>1. u.serverSeq = y.seq
    BY <1>3, <1>4
  <2>2. u.sealed = (IF SealedAt(v, q) THEN TRUE ELSE FALSE)
    <3>1. w.sealed = (IF SealedAt(v, p) THEN TRUE ELSE FALSE)
      BY <1>5 DEF ServerCounts
    <3>2. v = "tls12" /\ q = 6 => p = 5
      <4>1. SUFFICES ASSUME v = "tls12", q = 6, p # 5 PROVE FALSE
        OBVIOUS
      <4>2. p = 4 /\ k = 2
        BY <1>0, <1>1, <1>2, <4>1
      <4>3. names[1] = Names(v)[5]
        BY <1>0, <4>2 DEF InFlight
      <4>4. names[1] = "CCS"
        BY <4>1, <4>3 DEF Names, StateSeq
      <4> QED
        BY <4>2, <4>4
    <3>3. CASE v = "tls13"
      BY <1>0, <1>3, <1>4, <1>6, <3>1, <3>3 DEF SealedAt
    <3>4. CASE v = "tls12"
      BY <1>0, <1>3, <1>4, <3>1, <3>2, <3>4 DEF SealedAt
    <3> QED
      BY <1>0, <3>3, <3>4
  <2>3. u.opening = (IF (v = "tls13" /\ q > 0) \/ (v = "tls12" /\ a >= 3) THEN TRUE ELSE FALSE)
    BY <1>0, <1>3, <1>4, <1>5, <1>6 DEF ServerCounts
  <2>4. u.clientSeq = IF a >= 4 THEN a - 3 ELSE 0
    BY <1>4, <1>5 DEF ServerCounts
  <2> QED
    BY <2>1, <2>2, <2>3, <2>4 DEF ServerCounts
<1> QED
  BY <1>4, <1>5, <1>7, <1>10, <1>11 DEF ServerAt

(* ------------------------------ the invariant ------------------------------- *)

Hello(n, o) == [outer |-> "hs", type |-> "hs", key |-> Plain, seq |-> 0,
                msgs |-> << Msg("CH", [rand |-> n, offer |-> o]) >>]

\* The server's end of a connection: it has yet to answer the client's hello,
\* or it has sent its messages up to z and the rest of the client's are under way.
Waiting(rb, nt, ts, s, n, x, z) ==
  /\ s = NoServer /\ rb = << >> /\ nt = << >>
  /\ z = x /\ x.at = 0 /\ x.seq = 0 /\ x.units = 0
  /\ \E o \in Offers : ts = << Hello(n, o) >>
Serving(ts, s, n, v, x, k, z) ==
  \E a \in 1 .. Answered(v, x.at, k) :
    /\ ServerAt(s, v, n, z, a)
    /\ ts = Slice(Answers(v, n), a, Answered(v, x.at, k) - a)

\* What is under way to the client leads from its position to the server's.
OnWire(rb, nt, ts, s, ln, n, v, x, k, l, q, z, e) ==
  /\ Wire(rb, nt, v, n, x, z, e) /\ z.units = l
  /\ ln = "up" => /\ (e \/ q) => s.notified = TRUE
                  /\ Waiting(rb, nt, ts, s, n, x, z) \/ Serving(ts, s, n, v, x, k, z)
LinkPart(rb, nt, ts, s, ln, sn, n, v, x, k, l, q) ==
  /\ ln \in {"up", "fin", "broken"}
  /\ ln = "broken" => nt = << >>
  /\ ln # "broken" => k = sn /\ \E z \in Position, e \in BOOLEAN : OnWire(rb, nt, ts, s, ln, n, v, x, k, l, q, z, e)

\* The client and its caller.
ClientPart(c, gt, sent, n, v, x, k, l, g, q) ==
  /\ Client(c, v, n, x, Answered(v, x.at, k), k, g, q)
  /\ sent = Slice(Units(n), 0, l) /\ gt = Slice(Units(n), 0, g)
  /\ x.units <= l /\ (q => x.units = l)
CallPart(ca, st, v, x) ==
  /\ ca \in {Idle, Opening} \cup {<< "recv", size >> : size \in ReadSizes}
  /\ \/ st = "down" /\ ca = Opening
     \/ st = "up" /\ ca # Opening /\ x.at >= Turn(v)

Errors == {None, "connect", "disconnected", "fatal alert", "send"}
Base == conns \in Nat /\ sends \in Nat /\ error \in Errors
        /\ DOMAIN srv = SrvFields /\ srv.rejected = FALSE
Closed ==
  /\ cl = ClosedClient(None) /\ call = Idle /\ status \in {"down", "end", "error"}
  /\ link = "down" /\ net = << >> /\ toServer = << >>
Connected ==
  \E v \in Versions, x \in Position, k, l, g \in Nat, q \in BOOLEAN :
    /\ ClientPart(cl, got, srv.sent, conns, v, x, k, l, g, q)
    /\ CallPart(call, status, v, x)
    /\ LinkPart(cl.recvBuf, net, toServer, srv, link, sends, conns, v, x, k, l, q)
TlsInv == Base /\ (Closed \/ Connected)

\* A connection that is up.
UpWith(v, x, k, l, g, q, z, e) ==
  /\ ClientPart(cl, got, srv.sent, conns, v, x, k, l, g, q)
  /\ CallPart(call, status, v, x)
  /\ k = sends
  /\ OnWire(cl.recvBuf, net, toServer, srv, "up", conns, v, x, k, l, q, z, e)
IsUp ==
  \E v \in Versions, x \in Position, k, l, g \in Nat, q \in BOOLEAN, z \in Position, e \in BOOLEAN :
    UpWith(v, x, k, l, g, q, z, e)

\* A link that is up belongs to a client and a server that agree.
LEMMA Upward ==
  ASSUME TlsInv, link = "up"
  PROVE  IsUp
<1>1. PICK v \in Versions, x \in Position, k \in Nat, l \in Nat, g \in Nat, q \in BOOLEAN :
           /\ ClientPart(cl, got, srv.sent, conns, v, x, k, l, g, q)
           /\ CallPart(call, status, v, x)
           /\ LinkPart(cl.recvBuf, net, toServer, srv, link, sends, conns, v, x, k, l, q)
  BY DEF TlsInv, Closed, Connected
<1>2. PICK z \in Position, e \in BOOLEAN : OnWire(cl.recvBuf, net, toServer, srv, link, conns, v, x, k, l, q, z, e)
  BY <1>1 DEF LinkPart
<1>3. k = sends
  BY <1>1 DEF LinkPart
<1>5. UpWith(v, x, k, l, g, q, z, e)
  BY <1>1, <1>2, <1>3 DEF UpWith
<1> QED
  BY <1>5 DEF IsUp

\* A step of the server or the network: the client and its caller do nothing.
Theirs == UNCHANGED << cl, call, conns, sends, got, status, error >>

\* A step of the server keeps the invariant when it keeps its parts.
LEMMA StaysConnected ==
  ASSUME TlsInv, Theirs, DOMAIN srv' = SrvFields, srv'.rejected = FALSE,
         NEW v \in Versions, NEW x \in Position, NEW k \in Nat, NEW l \in Nat, NEW g \in Nat,
         NEW q \in BOOLEAN, ClientPart(cl, got, srv'.sent, conns, v, x, k, l, g, q),
         CallPart(call, status, v, x),
         LinkPart(cl.recvBuf, net', toServer', srv', link', sends, conns, v, x, k, l, q)
  PROVE  TlsInv'
<1>1. Base'
  BY DEF TlsInv, Base, Theirs
<1>2. Connected'
  BY DEF Theirs, Connected
<1> QED
  BY <1>1, <1>2 DEF TlsInv

\* The server sends a record and goes on.
Sends(v, x, k, l, g, q, z, r, y, e, a) ==
  /\ Theirs /\ link = "up" /\ link' = "up" /\ toServer' = toServer /\ net' = net \o << r, r >>
  /\ UpWith(v, x, k, l, g, q, z, FALSE) /\ Fits(v, conns, r, z, y, e)
  /\ a \in 1 .. Answered(v, x.at, k)
  /\ toServer = Slice(Answers(v, conns), a, Answered(v, x.at, k) - a)
  /\ ServerAt(srv', v, conns, y, a) /\ srv'.sent = Slice(Units(conns), 0, y.units)
  /\ e = TRUE => srv'.notified = TRUE
  /\ q = FALSE /\ l <= y.units

\* The server sends a record that fits and goes on from its new position.
LEMMA ServerGoesOn ==
  ASSUME TlsInv, NEW v \in Versions, NEW x \in Position, NEW k \in Nat, NEW l \in Nat, NEW g \in Nat,
         NEW q \in BOOLEAN, NEW z \in Position, NEW r, NEW y \in Position, NEW e \in BOOLEAN,
         NEW a, Sends(v, x, k, l, g, q, z, r, y, e, a)
  PROVE  TlsInv'
<1> USE DEF Sends
<1>1. PICK m : m = y.units
  OBVIOUS
<1>2. m \in Nat
  BY <1>1, PositionFacts
<1>3. ClientPart(cl, got, srv.sent, conns, v, x, k, l, g, q) /\ k = sends /\ CallPart(call, status, v, x)
  BY DEF UpWith
<1>4. ClientPart(cl, got, srv'.sent, conns, v, x, k, m, g, q)
  <2>1. x.units \in Nat
    BY PositionFacts
  <2> QED
    BY <1>1, <1>2, <1>3, <2>1 DEF ClientPart
<1>5. Wire(cl.recvBuf, net', v, conns, x, y, e)
  <2>1. Wire(cl.recvBuf, net, v, conns, x, z, FALSE)
    BY DEF UpWith, OnWire
  <2>2. Wire(cl.recvBuf, net \o << r, r >>, v, conns, x, y, e)
    BY <2>1, WireGrows
  <2> QED
    BY <2>2
<1>6. Serving(toServer', srv', conns, v, x, k, y)
  BY DEF Serving
<1>7. OnWire(cl.recvBuf, net', toServer', srv', link', conns, v, x, k, m, q, y, e)
  BY <1>1, <1>5, <1>6 DEF OnWire
<1>8. LinkPart(cl.recvBuf, net', toServer', srv', link', sends, conns, v, x, k, m, q)
  BY <1>3, <1>7 DEF LinkPart
<1>9. DOMAIN srv' = SrvFields /\ srv'.rejected = FALSE
  BY DEF ServerAt
<1> QED
  BY <1>2, <1>3, <1>4, <1>8, <1>9, StaysConnected

(* ------------------- steps of the server and the network -------------------- *)

\* The server that says the next k messages of its flight in one record.
Flies(w, v, z, a, k, names, r, u) ==
  /\ names = SubSeq(w.flight, 1, k)
  /\ r = ServerRecord(w, IF names = << "CCS" >> THEN "ccs" ELSE "hs", ServerSays(w, names).msgs)
  /\ k > 1 => /\ \A i \in 1 .. k : names[i] # "CCS"
              /\ w.ver = "tls13" => names[1] # "SH"
  /\ \E w1, w2 :
       Switched(w, u, w1, w2, v, names[k], ServerSays(w, names).hash,
                IF r.key = Plain THEN w.serverSeq ELSE w.serverSeq + 1,
                SubSeq(w.flight, k + 1, Len(w.flight)),
                w.ver = "tls12" /\ names[k] = "Fin")

\* What the record is, and where the server is after it.
FlewOn(w, v, z, a, k, r, u, y) ==
  /\ Spoken(v, conns, r, z, y) /\ y \in Position /\ y.units = z.units
  /\ ServerAt(u, v, conns, y, a) /\ u.sent = w.sent /\ z.at < 6 /\ w.notified = FALSE

\* A record of the flight fits, and takes the server where the flight goes on.
LEMMA FlightGoesOn ==
  ASSUME NEW w, NEW v \in Versions, NEW z, z \in Position, NEW a \in Nat,
         ServerAt(w, v, conns, z, a), NEW k, k \in 1 .. Len(w.flight),
         NEW names, NEW r, NEW u, Flies(w, v, z, a, k, names, r, u),
         NEW y, y = After(v, z, TypeAt(v, z.at), k)
  PROVE  FlewOn(w, v, z, a, k, r, u, y)
<1>0. z.at \in 0 .. 6 /\ z.seq \in Nat /\ z.units \in Nat /\ v \in {"tls12", "tls13"}
  BY PositionFacts DEF Versions
<1>1. /\ w.ver = v /\ w.flight = Rest(v, z.at, a) /\ Turns(v, z.at, a)
      /\ DOMAIN w = SrvFields /\ w.notified \in BOOLEAN /\ (w.notified = TRUE => z.at = 6)
  BY DEF ServerAt
<1>2. names = SubSeq(w.flight, 1, k)
  BY DEF Flies
<1>3. InFlight(v, z.at, a, k, w.flight, names)
  <2>1. PICK f : f = w.flight
    OBVIOUS
  <2>2. f = Rest(v, z.at, a) /\ k \in 1 .. Len(f) /\ names = SubSeq(f, 1, k)
    BY <1>1, <1>2, <2>1
  <2>3. InFlight(v, z.at, a, k, f, names)
    BY <1>0, <1>1, <2>2, FlightNames
  <2> QED
    BY <2>1, <2>3
<1>4. /\ z.at < 6 /\ k \in 1 .. 6 - z.at
      /\ DOMAIN names = 1 .. k /\ \A i \in 1 .. k : names[i] = Names(v)[z.at + i]
      /\ SubSeq(w.flight, k + 1, Len(w.flight)) = Rest(v, z.at + k, a)
  BY <1>3 DEF InFlight
<1>5. w.notified = FALSE /\ k \in Nat /\ k >= 1 /\ z.at + k <= 6 /\ 1 \in 1 .. k
  BY <1>0, <1>1, <1>4
<1>6. k > 1 => /\ \A i \in 1 .. k : names[i] # "CCS"
               /\ v = "tls13" => names[1] # "SH"
  BY <1>1 DEF Flies
<1>7. k > 1 /\ v = "tls13" => z.at > 0
  <2>1. z.at = 0 /\ v = "tls13" => names[1] = "SH"
    BY <1>4, <1>5 DEF Names, StateSeq
  <2> QED
    BY <1>0, <1>6, <2>1
<1>8. PICK said : said = ServerSays(w, names)
  OBVIOUS
<1>9. said.msgs = SaidAfter(v, conns, z.at, k) /\ said.hash = Told(v, conns, z.at + k, Second(v, a))
  <2>1. Speech(ServerSays(w, names), v, z.at, k, Second(v, a))
    BY <1>2, <1>7, FlightSaid
  <2> QED
    BY <1>8, <2>1 DEF Speech
<1>10. PICK type : type = TypeAt(v, z.at)
  OBVIOUS
<1>11. type = IF names = << "CCS" >> THEN "ccs" ELSE "hs"
  <2>1. names[1] = Names(v)[z.at + 1]
    BY <1>4, <1>5
  <2>2. names[1] = "CCS" => k = 1
    BY <1>5, <1>6
  <2>3. names = << "CCS" >> <=> names[1] = "CCS"
    <3>1. ASSUME names[1] = "CCS" PROVE names = << "CCS" >>
      <4>1. DOMAIN names = 1 .. 1
        BY <1>4, <2>2, <3>1
      <4>2. names = [i \in 1 .. 1 |-> names[i]]
        <5>1. names = [i \in DOMAIN names |-> names[i]]
          BY <1>2, SMTT(30)
        <5> QED
          BY <4>1, <5>1
      <4>3. \A i \in 1 .. 1 : names[i] = "CCS"
        BY <3>1
      <4> QED
        BY <4>2, <4>3
    <3> QED
      BY <3>1
  <2> QED
    BY <1>10, <2>1, <2>3 DEF TypeAt
<1>12. type \in {"ccs", "hs"}
  BY <1>11
<1>13. r = Record(v, conns, z.at, z.seq, type, SaidAfter(v, conns, z.at, k))
  <2>1. r = ServerRecord(w, type, SaidAfter(v, conns, z.at, k))
    BY <1>8, <1>9, <1>11 DEF Flies
  <2>2. PICK msgs : msgs = SaidAfter(v, conns, z.at, k)
    OBVIOUS
  <2>3. w.notified = FALSE
    BY <1>5
  <2>4. MakesRecord(w, v, conns, z, type, msgs)
    BY <2>3, RecordMade
  <2> QED
    BY <2>1, <2>2, <2>4 DEF MakesRecord
<1>14. k > 1 => IF v = "tls13" THEN z.at >= 2 ELSE z.at + k <= 4
  <2>1. SUFFICES ASSUME k > 1 PROVE IF v = "tls13" THEN z.at >= 2 ELSE z.at + k <= 4
    OBVIOUS
  <2>2. CASE v = "tls13"
    <3>1. names[1] = Names(v)[z.at + 1]
      BY <1>4, <1>5
    <3>2. z.at = 1 => names[1] = "CCS"
      BY <2>2, <3>1 DEF Names, StateSeq
    <3> QED
      BY <1>0, <1>5, <1>6, <1>7, <2>1, <2>2, <3>2
  <2>3. CASE v = "tls12"
    <3>1. SUFFICES ASSUME z.at + k >= 5 PROVE FALSE
      BY <1>0, <1>5, <2>3
    <3>2. CASE z.at <= 4
      <4>1. 5 - z.at \in 1 .. k /\ z.at + (5 - z.at) = 5
        BY <1>0, <1>5, <3>1, <3>2
      <4>2. names[5 - z.at] = Names(v)[5]
        BY <1>4, <4>1
      <4>3. names[5 - z.at] = "CCS"
        BY <2>3, <4>2 DEF Names, StateSeq
      <4> QED
        BY <1>6, <2>1, <4>1, <4>3
    <3>3. CASE z.at > 4
      BY <1>0, <1>5, <2>1, <3>3
    <3> QED
      BY <1>0, <3>2, <3>3
  <2> QED
    BY <1>0, <2>2, <2>3
<1>15. Spoken(v, conns, r, z, y)
  BY <1>4, <1>10, <1>13, <1>14 DEF Spoken
<1>16. y \in Position /\ y.at = z.at + k /\ y.units = z.units
       /\ y.seq = IF v = "tls13" /\ z.at < 6 /\ z.at + k = 6 THEN 0 ELSE Opened(v, z, type).seq
  <2>1. z.at + k \in 0 .. 6
    BY <1>0, <1>5
  <2>2. Opened(v, z, type).seq \in Nat
    BY OpenedFacts, PositionFacts
  <2> QED
    BY <1>0, <1>10, <2>1, <2>2 DEF After, Position
<1>17. PICK s : s = IF r.key = Plain THEN w.serverSeq ELSE w.serverSeq + 1
  OBVIOUS
<1>18. y.seq = IF v = "tls13" /\ y.at = 6 THEN 0 ELSE s
  <2>1. w.serverSeq = z.seq
    BY <1>5 DEF ServerAt, ServerCounts
  <2>2. r.key = IF SealedAt(v, z.at) /\ type # "ccs" THEN SealKey(v, conns, z.at) ELSE Plain
    BY <1>13, RecordFacts
  <2>3. r.key = Plain <=> ~(SealedAt(v, z.at) /\ type # "ccs")
    BY <2>2, SealKeyNotPlain
  <2>4. Opened(v, z, type).seq = IF SealedAt(v, z.at) /\ type # "ccs" /\ (v = "tls13" \/ type # "alert")
                                 THEN z.seq + 1 ELSE z.seq
    BY OpenedFacts
  <2> QED
    BY <1>4, <1>12, <1>16, <1>17, <2>1, <2>3, <2>4
<1>19. PICK c : c = (w.ver = "tls12" /\ names[k] = "Fin")
  OBVIOUS
<1>20. c \in BOOLEAN
  BY <1>19
<1>21. c = TRUE => y.at = 6
  <2>1. k \in 1 .. k
    BY <1>5
  <2>a. z.at + k \in 1 .. 6
    BY <1>0, <1>5
  <2>2. names[k] = Names(v)[z.at + k] /\ z.at + k \in 1 .. 6
    BY <1>4, <2>1, <2>a
  <2>3. names[k] = "Fin" => z.at + k = 6
    BY <1>0, <2>2 DEF Names, StateSeq
  <2> QED
    BY <1>16, <1>19, <2>3
<1>22. PICK f : f = SubSeq(w.flight, k + 1, Len(w.flight))
  OBVIOUS
<1>23. f = Rest(v, y.at, a)
  BY <1>4, <1>16, <1>22
<1>24. SwitchLeaves(w, u, v, names[k], said.hash, s, f, c)
  <2>1. PICK w1, w2 : Switched(w, u, w1, w2, v, names[k], said.hash, s, f, c)
    BY <1>8, <1>17, <1>19, <1>22 DEF Flies
  <2> QED
    BY <1>1, <2>1, Switching
<1>25. PICK hash : hash = said.hash
  OBVIOUS
<1>26. hash = Told(v, conns, z.at + k, Second(v, a)) /\ SwitchLeaves(w, u, v, names[k], hash, s, f, c)
  BY <1>9, <1>24, <1>25
<1>27. k > 1 => \A i \in 1 .. k : names[i] # "CCS"
  BY <1>6
<1>28. ServerAt(u, v, conns, y, a)
  BY <1>3, <1>5, <1>7, <1>16, <1>18, <1>20, <1>21, <1>23, <1>26, <1>27, FlightSwitches
<1>29. u.sent = w.sent
  BY <1>24 DEF SwitchLeaves
<1> QED
  BY <1>4, <1>5, <1>15, <1>16, <1>28, <1>29 DEF FlewOn

\* A connection on which the server has answered the client's hello.
ServedWith(v, x, k, l, g, q, z, e, a) ==
  /\ UpWith(v, x, k, l, g, q, z, e) /\ z.units = l
  /\ a \in 1 .. Answered(v, x.at, k) /\ ServerAt(srv, v, conns, z, a)
  /\ toServer = Slice(Answers(v, conns), a, Answered(v, x.at, k) - a)
  /\ (e \/ q) => srv.notified = TRUE
IsServed ==
  \E v \in Versions, x \in Position, k, l, g \in Nat, q \in BOOLEAN, z \in Position, e \in BOOLEAN :
    \E a \in Nat : ServedWith(v, x, k, l, g, q, z, e, a)

\* A server that has answered the hello is serving.
LEMMA Serves ==
  ASSUME TlsInv, link = "up", srv # NoServer
  PROVE  IsServed
<1>1. PICK v \in Versions, x \in Position, k \in Nat, l \in Nat, g \in Nat, q \in BOOLEAN,
           z \in Position, e \in BOOLEAN : UpWith(v, x, k, l, g, q, z, e)
  BY Upward DEF IsUp
<1>2. /\ (e \/ q) => srv.notified = TRUE
      /\ Serving(toServer, srv, conns, v, x, k, z) /\ z.units = l
  BY <1>1 DEF UpWith, OnWire, Waiting
<1>3. PICK a \in 1 .. Answered(v, x.at, k) :
          /\ ServerAt(srv, v, conns, z, a)
          /\ toServer = Slice(Answers(v, conns), a, Answered(v, x.at, k) - a)
  BY <1>2 DEF Serving
<1>4. Answered(v, x.at, k) \in Nat
  BY PositionFacts DEF Answered
<1>5. a \in Nat
  BY <1>4
<1>6. ServedWith(v, x, k, l, g, q, z, e, a)
  BY <1>1, <1>2, <1>3 DEF ServedWith
<1> QED
  BY <1>5, <1>6 DEF IsServed

\* The next messages of the flight.
LEMMA ServerFlightStep ==
  ASSUME TlsInv, ServerFlight
  PROVE  TlsInv'
<1>1. PICK j, names, r :
         /\ j \in 1 .. Len(srv.flight)
         /\ names = SubSeq(srv.flight, 1, j)
         /\ r = ServerRecord(srv, IF names = << "CCS" >> THEN "ccs" ELSE "hs", ServerSays(srv, names).msgs)
         /\ j > 1 => /\ \A i \in 1 .. j : names[i] # "CCS"
                     /\ srv.ver = "tls13" => names[1] # "SH"
         /\ net' = net \o << r, r >>
         /\ srv' = [ServerSwitch([srv EXCEPT !.serverSeq = IF r.key = Plain THEN @ ELSE @ + 1,
                                             !.flight = SubSeq(@, j + 1, Len(@))],
                                 names[j], ServerSays(srv, names).hash) EXCEPT
                      !.complete = srv.ver = "tls12" /\ names[j] = "Fin"]
  BY ZenonT(60) DEF ServerFlight
<1>2. link = "up" /\ link' = "up" /\ toServer' = toServer /\ Theirs
  BY DEF ServerFlight, Theirs
<1>3. srv # NoServer
  <2>0. j \in 1 .. Len(srv.flight)
    BY <1>1
  <2>1. NoServer.flight = << >> /\ Len(<< >>) = 0
    BY DEF NoServer
  <2>2. Len(srv.flight) # 0
    BY <2>0
  <2> QED
    BY <2>1, <2>2
<1>4. PICK v \in Versions, x \in Position, k \in Nat, l \in Nat, g \in Nat, q \in BOOLEAN,
           z \in Position, e \in BOOLEAN, a \in Nat : ServedWith(v, x, k, l, g, q, z, e, a)
  BY <1>2, <1>3, Serves DEF IsServed
<1>5. ServerAt(srv, v, conns, z, a)
  BY <1>4 DEF ServedWith
<1>6. Flies(srv, v, z, a, j, names, r, srv')
  <2>1. PICK w1 : w1 = [srv EXCEPT !.serverSeq = IF r.key = Plain THEN srv.serverSeq ELSE srv.serverSeq + 1,
                                   !.flight = SubSeq(srv.flight, j + 1, Len(srv.flight))]
    OBVIOUS
  <2>2. PICK w2 : w2 = ServerSwitch(w1, names[j], ServerSays(srv, names).hash)
    OBVIOUS
  <2>3. srv' = [w2 EXCEPT !.complete = srv.ver = "tls12" /\ names[j] = "Fin"]
    BY <1>1, <2>1, <2>2
  <2>4. Switched(srv, srv', w1, w2, v, names[j], ServerSays(srv, names).hash,
                IF r.key = Plain THEN srv.serverSeq ELSE srv.serverSeq + 1,
                SubSeq(srv.flight, j + 1, Len(srv.flight)),
                srv.ver = "tls12" /\ names[j] = "Fin")
    BY <2>1, <2>2, <2>3 DEF Switched
  <2> QED
    BY <1>1, <2>4 DEF Flies
<1>7. PICK y : y = After(v, z, TypeAt(v, z.at), j)
  OBVIOUS
<1>8. FlewOn(srv, v, z, a, j, r, srv', y)
  <2>1. j \in 1 .. Len(srv.flight)
    BY <1>1
  <2> QED
    BY <1>5, <1>6, <1>7, <2>1, FlightGoesOn
<1>9. /\ Spoken(v, conns, r, z, y) /\ y \in Position /\ y.units = z.units
      /\ ServerAt(srv', v, conns, y, a) /\ srv'.sent = srv.sent /\ srv.notified = FALSE
  BY <1>8 DEF FlewOn
<1>10. e = FALSE /\ q = FALSE /\ z.units = l
  BY <1>4, <1>9 DEF ServedWith
<1>11. UpWith(v, x, k, l, g, q, z, FALSE)
  BY <1>4, <1>10 DEF ServedWith
<1>12. Fits(v, conns, r, z, y, FALSE)
  BY <1>9 DEF Fits
<1>13. srv'.sent = Slice(Units(conns), 0, y.units)
  BY <1>9, <1>10, <1>11 DEF UpWith, ClientPart
<1>14. a \in 1 .. Answered(v, x.at, k) /\ toServer = Slice(Answers(v, conns), a, Answered(v, x.at, k) - a)
  BY <1>4 DEF ServedWith
<1>15. PICK f \in BOOLEAN : f = FALSE
  OBVIOUS
<1>16. Sends(v, x, k, l, g, q, z, r, y, f, a)
  <2>1. l <= y.units
    BY <1>9, <1>10
  <2> QED
    BY <1>1, <1>2, <1>9, <1>10, <1>11, <1>12, <1>13, <1>14, <1>15, <2>1 DEF Sends
<1>17. y \in Position
  BY <1>9
<1> QED
  BY <1>16, <1>17, ServerGoesOn

\* A server that may write has finished its handshake.
LEMMA Writing ==
  ASSUME NEW v \in Versions, NEW z \in Position, NEW a, ServerAt(srv, v, conns, z, a), MayWrite
  PROVE  z.at = 6 /\ srv.notified = FALSE /\ link = "up" /\ srv # NoServer
<1>1. /\ srv.ver = v /\ srv.notified \in BOOLEAN /\ srv.complete \in BOOLEAN
      /\ v = "tls12" /\ srv.complete = TRUE => z.at = 6
      /\ srv.appHash = IF v = "tls13" /\ z.at = 6 THEN To13Fin(conns) ELSE << >>
  BY DEF ServerAt, ServerKeys
<1>2. link = "up" /\ ~srv.notified /\ (srv.appHash # << >> \/ (srv.ver = "tls12" /\ srv.complete))
  BY DEF MayWrite
<1>3. srv.notified = FALSE
  BY <1>1, <1>2
<1>4. srv.ver = "tls12" /\ srv.complete => z.at = 6
  BY <1>1
<1>5. srv # NoServer
  BY <1>1 DEF NoServer, None, Versions
<1> QED
  BY <1>1, <1>2, <1>3, <1>4, <1>5

Delivered(w, u, v, n, z, y, a, s, r, type, msgs) ==
  /\ r = Record(v, n, 6, z.seq, type, msgs) /\ ServerAt(u, v, n, y, a)
  /\ u.sent = s.sent /\ u.notified = s.notified

\* A record of a server that may write.
LEMMA Delivers ==
  ASSUME NEW w, NEW v \in Versions, NEW n, NEW z \in Position, NEW a, ServerAt(w, v, n, z, a),
         z.at = 6, w.notified = FALSE, NEW s, SrvSame(w, s, {"sent", "extra", "notified"}),
         s.notified \in BOOLEAN, NEW type, type \in {"data", "hs", "alert"}, NEW msgs,
         NEW r, r = ServerRecord(s, type, msgs),
         NEW u, u = [s EXCEPT !.serverSeq = IF r.key = Plain THEN @ ELSE @ + 1],
         NEW y \in Position, y.at = 6, s.notified = FALSE => y.seq = z.seq + 1
  PROVE  Delivered(w, u, v, n, z, y, a, s, r, type, msgs)
<1>1. /\ DOMAIN s = SrvFields
      /\ \A f \in {"ver", "flight", "sealed", "opening", "localKey", "remoteKey", "serverSeq",
                   "clientSeq", "hash", "appHash", "complete", "rejected"} : s[f] = w[f]
  BY DEF SrvSame, SrvFields
<1>2. r = ServerRecord(w, type, msgs)
  BY <1>1 DEF ServerRecord
<1>3. MakesRecord(w, v, n, z, type, msgs)
  BY RecordMade
<1>4. r = Record(v, n, 6, z.seq, type, msgs)
  BY <1>2, <1>3 DEF MakesRecord
<1>5. r.key # Plain
  <2>1. SealedAt(v, 6) /\ type # "ccs"
    BY DEF SealedAt
  <2>2. r.key = IF SealedAt(v, 6) /\ type # "ccs" THEN SealKey(v, n, 6) ELSE Plain
    BY <1>4, RecordFacts
  <2> QED
    BY <2>1, <2>2, SealKeyNotPlain
<1>6. u = [s EXCEPT !.serverSeq = s.serverSeq + 1]
  BY <1>5
<1>7. u.serverSeq = s.serverSeq + 1 /\ SrvSame(s, u, {"serverSeq"})
  BY <1>1, <1>6 DEF SrvSame, SrvFields
<1>8. /\ DOMAIN u = SrvFields /\ u.notified = s.notified /\ u.sent = s.sent
      /\ \A f \in {"ver", "flight", "sealed", "opening", "localKey", "remoteKey",
                   "clientSeq", "hash", "appHash", "complete", "rejected"} : u[f] = w[f]
      /\ u.serverSeq = w.serverSeq + 1
  BY <1>1, <1>7 DEF SrvSame, SrvFields
<1>9. /\ w.rejected = FALSE /\ w.complete \in BOOLEAN
      /\ w.ver = v /\ w.flight = Rest(v, z.at, a) /\ Turns(v, z.at, a)
      /\ ServerKeys(w, v, n, z, a) /\ ServerCounts(w, v, z, a)
  BY DEF ServerAt
<1>10. ServerKeys(u, v, n, y, a)
  BY <1>8, <1>9 DEF ServerKeys
<1>11. ServerCounts(u, v, y, a)
  <2>1. u.notified = FALSE => u.serverSeq = y.seq
    BY <1>8, <1>9 DEF ServerCounts
  <2>2. u.sealed = w.sealed /\ u.opening = w.opening /\ u.clientSeq = w.clientSeq
    BY <1>8
  <2> QED
    BY <1>9, <2>1, <2>2 DEF ServerCounts
<1>12. ServerAt(u, v, n, y, a)
  BY <1>8, <1>9, <1>10, <1>11 DEF ServerAt
<1> QED
  BY <1>4, <1>8, <1>12 DEF Delivered

\* ServerWrites: the server may write, sends a record and goes on.
WritesWith(s, type, msgs) ==
  /\ MayWrite /\ SrvSame(srv, s, {"sent", "extra", "notified"}) /\ s.notified \in BOOLEAN
  /\ type \in {"data", "hs", "alert"} /\ Deliver(s, type, msgs)
  /\ UNCHANGED << cl, call, conns, sends, got, status, error, toServer, link >>

Writes(s, type, msgs, v, x, k, l, g, q, z, e, a, y, f, r) ==
  /\ WritesWith(s, type, msgs) /\ ServedWith(v, x, k, l, g, q, z, e, a)
  /\ y.at = 6 /\ (s.notified = FALSE => y.seq = z.seq + 1)
  /\ f = TRUE => s.notified = TRUE
  /\ s.sent = Slice(Units(conns), 0, y.units) /\ l <= y.units
  /\ r = Record(v, conns, 6, z.seq, type, msgs) /\ Fits(v, conns, r, z, y, f)

Write ==
  \E s, type, msgs, r :
    \E v \in Versions, x \in Position, k, l, g \in Nat, q \in BOOLEAN, z \in Position, e \in BOOLEAN :
      \E a \in Nat, y \in Position, f \in BOOLEAN :
        Writes(s, type, msgs, v, x, k, l, g, q, z, e, a, y, f, r)

\* A record written after the handshake keeps the invariant.
LEMMA WriteStep ==
  ASSUME TlsInv, Write
  PROVE  TlsInv'
<1>0. PICK s, type, msgs, r :
        \E v \in Versions, x \in Position, k, l, g \in Nat, q \in BOOLEAN, z \in Position, e \in BOOLEAN :
          \E a \in Nat, y \in Position, f \in BOOLEAN :
            Writes(s, type, msgs, v, x, k, l, g, q, z, e, a, y, f, r)
  BY DEF Write
<1>p. PICK v \in Versions, x \in Position, k \in Nat, l \in Nat, g \in Nat, q \in BOOLEAN,
           z \in Position, e \in BOOLEAN, a \in Nat, y \in Position, f \in BOOLEAN :
        Writes(s, type, msgs, v, x, k, l, g, q, z, e, a, y, f, r)
  BY <1>0
<1> USE <1>p DEF Writes
<1>1. /\ ServerAt(srv, v, conns, z, a) /\ UpWith(v, x, k, l, g, q, z, e) /\ z.units = l
      /\ a \in 1 .. Answered(v, x.at, k)
      /\ toServer = Slice(Answers(v, conns), a, Answered(v, x.at, k) - a)
      /\ (e \/ q) => srv.notified = TRUE
  BY DEF ServedWith
<1>2. /\ MayWrite /\ SrvSame(srv, s, {"sent", "extra", "notified"}) /\ s.notified \in BOOLEAN
      /\ type \in {"data", "hs", "alert"} /\ Deliver(s, type, msgs)
      /\ UNCHANGED << cl, call, conns, sends, got, status, error, toServer, link >>
  BY DEF WritesWith
<1>3. z.at = 6 /\ srv.notified = FALSE /\ link = "up"
  BY <1>1, <1>2, Writing
<1>4. e = FALSE /\ q = FALSE
  BY <1>1, <1>3
<1>5. PICK t : t = ServerRecord(s, type, msgs)
  OBVIOUS
<1>6. net' = net \o << t, t >> /\ srv' = [s EXCEPT !.serverSeq = IF t.key = Plain THEN @ ELSE @ + 1]
  BY <1>2, <1>5 DEF Deliver
<1>7. Delivered(srv, srv', v, conns, z, y, a, s, t, type, msgs)
  BY <1>1, <1>2, <1>3, <1>5, <1>6, Delivers, ZenonT(60)
<1>8. t = r /\ ServerAt(srv', v, conns, y, a) /\ srv'.sent = s.sent /\ srv'.notified = s.notified
  BY <1>7 DEF Delivered
<1>9. Theirs /\ link' = "up" /\ toServer' = toServer
  BY <1>2, <1>3 DEF Theirs
<1>10. UpWith(v, x, k, l, g, q, z, FALSE)
  BY <1>1, <1>4
<1>11. Sends(v, x, k, l, g, q, z, r, y, f, a)
  BY <1>1, <1>3, <1>4, <1>6, <1>8, <1>9, <1>10 DEF Sends
<1> QED
  BY <1>11, ServerGoesOn

\* A server that may write is serving.
LEMMA WriterServes ==
  ASSUME TlsInv, MayWrite
  PROVE  IsServed
<1>1. link = "up" /\ (srv.appHash # << >> \/ srv.ver = "tls12")
  BY DEF MayWrite
<1>2. NoServer.appHash = << >> /\ NoServer.ver # "tls12"
  BY DEF NoServer, None
<1>3. srv # NoServer
  BY <1>1, <1>2
<1> QED
  BY <1>1, <1>3, Serves

\* A session ticket.
LEMMA ServerTicketStep ==
  ASSUME TlsInv, ServerTicket
  PROVE  TlsInv'
<1>1. PICK s, msgs : s = [srv EXCEPT !.extra = TRUE] /\ msgs = << Msg("NST", None) >>
  OBVIOUS
<1>2. MayWrite
  BY DEF ServerTicket
<1>3. PICK v \in Versions, x \in Position, k \in Nat, l \in Nat, g \in Nat, q \in BOOLEAN,
           z \in Position, e \in BOOLEAN, a \in Nat : ServedWith(v, x, k, l, g, q, z, e, a)
  BY <1>2, WriterServes DEF IsServed
<1>4. /\ ServerAt(srv, v, conns, z, a) /\ UpWith(v, x, k, l, g, q, z, e) /\ z.units = l
  BY <1>3 DEF ServedWith
<1>5. z.at = 6 /\ srv.notified = FALSE
  BY <1>2, <1>4, Writing
<1>6. DOMAIN srv = SrvFields /\ srv.ver = v /\ srv.sent = Slice(Units(conns), 0, l)
  BY <1>4 DEF ServerAt, UpWith, ClientPart
<1>7. SrvSame(srv, s, {"sent", "extra", "notified"}) /\ s.notified = FALSE /\ s.sent = srv.sent
  BY <1>1, <1>5, <1>6 DEF SrvSame, SrvFields
<1>8. WritesWith(s, "hs", msgs)
  BY <1>1, <1>2, <1>7 DEF ServerTicket, WritesWith
<1>9. PICK y : y = [at |-> 6, units |-> z.units, seq |-> z.seq + 1]
  OBVIOUS
<1>10. y \in Position /\ y.at = 6 /\ y.seq = z.seq + 1 /\ y.units = l
  BY <1>4, <1>9 DEF Position
<1>11. PICK r : r = Record(v, conns, 6, z.seq, "hs", msgs)
  OBVIOUS
<1>12. PICK f \in BOOLEAN : f = FALSE
  OBVIOUS
<1>13. Extra(v, conns, r, z, y)
  BY <1>1, <1>5, <1>6, <1>9, <1>11 DEF Extra, ServerTicket
<1>14. Fits(v, conns, r, z, y, f)
  BY <1>13 DEF Fits
<1>15. l <= y.units /\ s.sent = Slice(Units(conns), 0, y.units)
  BY <1>6, <1>7, <1>10
<1>t. PICK type : type = "hs"
  OBVIOUS
<1>16. Writes(s, type, msgs, v, x, k, l, g, q, z, e, a, y, f, r)
  BY <1>3, <1>7, <1>8, <1>10, <1>11, <1>12, <1>14, <1>15, <1>t DEF Writes
<1>17. y \in Position
  BY <1>10
<1>18. Write
  BY <1>16, <1>17 DEF Write
<1> QED
  BY <1>18, WriteStep

\* A warning.
LEMMA ServerWarningStep ==
  ASSUME TlsInv, ServerWarning
  PROVE  TlsInv'
<1>1. PICK s, msgs : s = [srv EXCEPT !.extra = TRUE] /\ msgs = << "warning" >>
  OBVIOUS
<1>2. MayWrite
  BY DEF ServerWarning, ServerWarns
<1>3. PICK v \in Versions, x \in Position, k \in Nat, l \in Nat, g \in Nat, q \in BOOLEAN,
           z \in Position, e \in BOOLEAN, a \in Nat : ServedWith(v, x, k, l, g, q, z, e, a)
  BY <1>2, WriterServes DEF IsServed
<1>4. /\ ServerAt(srv, v, conns, z, a) /\ UpWith(v, x, k, l, g, q, z, e) /\ z.units = l
  BY <1>3 DEF ServedWith
<1>5. z.at = 6 /\ srv.notified = FALSE
  BY <1>2, <1>4, Writing
<1>6. DOMAIN srv = SrvFields /\ srv.ver = v /\ srv.sent = Slice(Units(conns), 0, l)
  BY <1>4 DEF ServerAt, UpWith, ClientPart
<1>7. SrvSame(srv, s, {"sent", "extra", "notified"}) /\ s.notified = FALSE /\ s.sent = srv.sent
  BY <1>1, <1>5, <1>6 DEF SrvSame, SrvFields
<1>8. WritesWith(s, "alert", msgs)
  BY <1>1, <1>2, <1>7 DEF ServerWarning, ServerWarns, WritesWith
<1>9. PICK y : y = [at |-> 6, units |-> z.units, seq |-> z.seq + 1]
  OBVIOUS
<1>10. y \in Position /\ y.at = 6 /\ y.seq = z.seq + 1 /\ y.units = l
  BY <1>4, <1>9 DEF Position
<1>11. PICK r : r = Record(v, conns, 6, z.seq, "alert", msgs)
  OBVIOUS
<1>12. PICK f \in BOOLEAN : f = FALSE
  OBVIOUS
<1>13. Extra(v, conns, r, z, y)
  BY <1>1, <1>5, <1>6, <1>9, <1>11 DEF Extra, ServerWarning, ServerWarns
<1>14. Fits(v, conns, r, z, y, f)
  BY <1>13 DEF Fits
<1>15. l <= y.units /\ s.sent = Slice(Units(conns), 0, y.units)
  BY <1>6, <1>7, <1>10
<1>t. PICK type : type = "alert"
  OBVIOUS
<1>16. Writes(s, type, msgs, v, x, k, l, g, q, z, e, a, y, f, r)
  BY <1>3, <1>7, <1>8, <1>10, <1>11, <1>12, <1>14, <1>15, <1>t DEF Writes
<1>17. y \in Position
  BY <1>10
<1>18. Write
  BY <1>16, <1>17 DEF Write
<1> QED
  BY <1>18, WriteStep

\* close_notify.
LEMMA ServerNotifyStep ==
  ASSUME TlsInv, ServerNotify
  PROVE  TlsInv'
<1>1. PICK s, msgs : s = [srv EXCEPT !.notified = TRUE] /\ msgs = << "close_notify" >>
  OBVIOUS
<1>2. MayWrite
  BY DEF ServerNotify
<1>3. PICK v \in Versions, x \in Position, k \in Nat, l \in Nat, g \in Nat, q \in BOOLEAN,
           z \in Position, e \in BOOLEAN, a \in Nat : ServedWith(v, x, k, l, g, q, z, e, a)
  BY <1>2, WriterServes DEF IsServed
<1>4. /\ ServerAt(srv, v, conns, z, a) /\ UpWith(v, x, k, l, g, q, z, e) /\ z.units = l
  BY <1>3 DEF ServedWith
<1>5. z.at = 6 /\ srv.notified = FALSE
  BY <1>2, <1>4, Writing
<1>6. DOMAIN srv = SrvFields /\ srv.ver = v /\ srv.sent = Slice(Units(conns), 0, l)
  BY <1>4 DEF ServerAt, UpWith, ClientPart
<1>7. SrvSame(srv, s, {"sent", "extra", "notified"}) /\ s.notified = TRUE /\ s.sent = srv.sent
  BY <1>1, <1>5, <1>6 DEF SrvSame, SrvFields
<1>8. WritesWith(s, "alert", msgs)
  BY <1>1, <1>2, <1>7 DEF ServerNotify, WritesWith
<1>9. PICK y : y = Opened(v, z, "alert")
  OBVIOUS
<1>10. y \in Position /\ y.at = 6 /\ y.units = l
  BY <1>4, <1>5, <1>9, OpenedFacts
<1>11. PICK r : r = Record(v, conns, 6, z.seq, "alert", msgs)
  OBVIOUS
<1>12. PICK f \in BOOLEAN : f = TRUE
  OBVIOUS
<1>13. Ending(v, conns, r, z, y)
  BY <1>1, <1>5, <1>9, <1>11 DEF Ending
<1>14. Fits(v, conns, r, z, y, f)
  BY <1>12, <1>13 DEF Fits
<1>15. l <= y.units /\ s.sent = Slice(Units(conns), 0, y.units)
  BY <1>6, <1>7, <1>10
<1>t. PICK type : type = "alert"
  OBVIOUS
<1>16. Writes(s, type, msgs, v, x, k, l, g, q, z, e, a, y, f, r)
  BY <1>3, <1>7, <1>8, <1>10, <1>11, <1>12, <1>14, <1>15, <1>t DEF Writes
<1>17. y \in Position
  BY <1>10
<1>18. Write
  BY <1>16, <1>17 DEF Write
<1> QED
  BY <1>18, WriteStep

\* Application data.
LEMMA ServerDataStep ==
  ASSUME TlsInv, ServerData
  PROVE  TlsInv'
<1>0. PICK n, data :
         /\ n \in 1 .. 2 /\ data = [i \in 1 .. n |-> Unit(Len(srv.sent) + i)]
         /\ Deliver([srv EXCEPT !.sent = @ \o data], "data", data)
  BY DEF ServerData
<1>n. n \in 1 .. 2 /\ n \in Nat
  BY <1>0
<1>1. PICK s : s = [srv EXCEPT !.sent = srv.sent \o data]
  OBVIOUS
<1>2. MayWrite
  BY DEF ServerData
<1>3. PICK v \in Versions, x \in Position, k \in Nat, l \in Nat, g \in Nat, q \in BOOLEAN,
           z \in Position, e \in BOOLEAN, a \in Nat : ServedWith(v, x, k, l, g, q, z, e, a)
  BY <1>2, WriterServes DEF IsServed
<1>4. /\ ServerAt(srv, v, conns, z, a) /\ UpWith(v, x, k, l, g, q, z, e) /\ z.units = l
  BY <1>3 DEF ServedWith
<1>5. z.at = 6 /\ srv.notified = FALSE
  BY <1>2, <1>4, Writing
<1>6. DOMAIN srv = SrvFields /\ srv.ver = v /\ srv.sent = Slice(Units(conns), 0, l)
  BY <1>4 DEF ServerAt, UpWith, ClientPart
<1>7. SrvSame(srv, s, {"sent", "extra", "notified"}) /\ s.notified = FALSE /\ s.sent = srv.sent \o data
  BY <1>1, <1>5, <1>6 DEF SrvSame, SrvFields
<1>8. WritesWith(s, "data", data)
  BY <1>0, <1>1, <1>2, <1>7 DEF ServerData, WritesWith
<1>9. PICK y : y = [at |-> 6, units |-> z.units + n, seq |-> z.seq + 1]
  OBVIOUS
<1>10. y \in Position /\ y.at = 6 /\ y.seq = z.seq + 1 /\ y.units = l + n
  BY <1>n, <1>4, <1>9 DEF Position
<1>a. data = Slice(Units(conns), l, n)
  <2>1. 0 \in Nat
    OBVIOUS
  <2>2. Len(srv.sent) = l
    <3>1. Len(Slice(Units(conns), 0, l)) = l
      BY <2>1, SliceProperties
    <3> QED
      BY <1>6, <3>1
  <2>3. \A i \in 1 .. n : Unit(l + i) = Units(conns)[l + i]
    <3>1. \A i \in 1 .. n : l + i \in Nat
      OBVIOUS
    <3> QED
      BY <3>1 DEF Unit, Units
  <2> QED
    BY <1>0, <2>2, <2>3 DEF Slice
<1>11. PICK r : r = Record(v, conns, 6, z.seq, "data", data)
  OBVIOUS
<1>12. PICK f \in BOOLEAN : f = FALSE
  OBVIOUS
<1>13. Written(v, conns, r, z, y)
  BY <1>n, <1>4, <1>5, <1>9, <1>11, <1>a DEF Written
<1>14. Fits(v, conns, r, z, y, f)
  BY <1>13 DEF Fits
<1>15. l <= y.units /\ s.sent = Slice(Units(conns), 0, y.units)
  <2>1. 0 \in Nat /\ n \in Nat /\ l = 0 + l /\ l + n \in Nat
    BY <1>n
  <2>2. Follows(Units(conns), 0, l, l, n)
    BY <2>1, SliceFollows
  <2>3. Slice(Units(conns), 0, l) \o Slice(Units(conns), l, n) = Slice(Units(conns), 0, l + n)
    BY <2>2 DEF Follows
  <2> QED
    BY <1>6, <1>7, <1>10, <1>a, <2>1, <2>3
<1>t. PICK type : type = "data"
  OBVIOUS
<1>16. Writes(s, type, data, v, x, k, l, g, q, z, e, a, y, f, r)
  BY <1>3, <1>7, <1>8, <1>10, <1>11, <1>12, <1>14, <1>15, <1>t DEF Writes
<1>17. y \in Position
  BY <1>10
<1>18. Write
  BY <1>16, <1>17 DEF Write
<1> QED
  BY <1>18, WriteStep

\* A server that is gone keeps what it sent, and that it rejected nothing.
LEMMA GoneFacts ==
  ASSUME NEW s
  PROVE  /\ DOMAIN Gone(s) = SrvFields /\ Gone(s).sent = s.sent
         /\ Gone(s).rejected = s.rejected /\ Gone(s).notified = s.notified
<1>1. PICK t : t = NoServer
  OBVIOUS
<1>2. DOMAIN t = SrvFields
  BY <1>1 DEF NoServer, SrvFields
<1>3. Gone(s) = [t EXCEPT !.sent = s.sent, !.notified = s.notified, !.rejected = s.rejected]
  BY <1>1 DEF Gone
<1> QED
  BY <1>2, <1>3 DEF SrvFields

\* A link that is not down belongs to a connected client.
LEMMA ConnectedPicks ==
  ASSUME TlsInv, link # "down"
  PROVE  Connected /\ DOMAIN srv = SrvFields /\ srv.rejected = FALSE
BY DEF TlsInv, Base, Closed

\* The server closes the connection.
LEMMA ServerFinStep ==
  ASSUME TlsInv, ServerFin
  PROVE  TlsInv'
<1>1. link = "up" /\ link' = "fin" /\ srv' = Gone(srv) /\ net' = net /\ Theirs
  BY DEF ServerFin, Theirs
<1>2. PICK v \in Versions, x \in Position, k \in Nat, l \in Nat, g \in Nat, q \in BOOLEAN :
           /\ ClientPart(cl, got, srv.sent, conns, v, x, k, l, g, q)
           /\ CallPart(call, status, v, x)
           /\ LinkPart(cl.recvBuf, net, toServer, srv, link, sends, conns, v, x, k, l, q)
  BY <1>1, ConnectedPicks DEF Connected
<1>3. PICK z \in Position, e \in BOOLEAN : OnWire(cl.recvBuf, net, toServer, srv, link, conns, v, x, k, l, q, z, e)
  BY <1>1, <1>2 DEF LinkPart
<1>4. OnWire(cl.recvBuf, net', toServer', srv', link', conns, v, x, k, l, q, z, e)
  BY <1>1, <1>3 DEF OnWire
<1>5. LinkPart(cl.recvBuf, net', toServer', srv', link', sends, conns, v, x, k, l, q)
  BY <1>1, <1>2, <1>4 DEF LinkPart
<1>6. DOMAIN srv' = SrvFields /\ srv'.rejected = FALSE /\ srv'.sent = srv.sent
  BY <1>1, ConnectedPicks, GoneFacts
<1>7. ClientPart(cl, got, srv'.sent, conns, v, x, k, l, g, q)
  BY <1>2, <1>6
<1> QED
  BY <1>1, <1>2, <1>5, <1>6, <1>7, StaysConnected

\* The connection is reset.
LEMMA BreakStep ==
  ASSUME TlsInv, Break
  PROVE  TlsInv'
<1>1. link # "down" /\ link' = "broken" /\ srv' = Gone(srv) /\ net' = << >> /\ Theirs
  BY DEF Break, Theirs
<1>2. PICK v \in Versions, x \in Position, k \in Nat, l \in Nat, g \in Nat, q \in BOOLEAN :
           /\ ClientPart(cl, got, srv.sent, conns, v, x, k, l, g, q)
           /\ CallPart(call, status, v, x)
           /\ LinkPart(cl.recvBuf, net, toServer, srv, link, sends, conns, v, x, k, l, q)
  BY <1>1, ConnectedPicks DEF Connected
<1>5. LinkPart(cl.recvBuf, net', toServer', srv', link', sends, conns, v, x, k, l, q)
  BY <1>1 DEF LinkPart
<1>6. DOMAIN srv' = SrvFields /\ srv'.rejected = FALSE /\ srv'.sent = srv.sent
  BY <1>1, ConnectedPicks, GoneFacts
<1>7. ClientPart(cl, got, srv'.sent, conns, v, x, k, l, g, q)
  BY <1>2, <1>6
<1> QED
  BY <1>1, <1>2, <1>5, <1>6, <1>7, StaysConnected

\* A fatal alert, at any point.
LEMMA ServerFatalStep ==
  ASSUME TlsInv, ServerFatal
  PROVE  TlsInv'
<1>1. link = "up" /\ link' = "fin" /\ srv' = Gone(srv) /\ ~srv.notified /\ Theirs
  BY DEF ServerFatal, Theirs
<1>2. PICK r, m : m = << "fatal" >> /\ r = ServerRecord(srv, "alert", m)
  OBVIOUS
<1>3. net' = net \o << r, r >>
  BY <1>2 DEF ServerFatal
<1>4. PICK v \in Versions, x \in Position, k \in Nat, l \in Nat, g \in Nat, q \in BOOLEAN,
           z \in Position, e \in BOOLEAN : UpWith(v, x, k, l, g, q, z, e)
  BY <1>1, Upward DEF IsUp
<1>5. /\ ClientPart(cl, got, srv.sent, conns, v, x, k, l, g, q)
      /\ CallPart(call, status, v, x) /\ k = sends
      /\ Wire(cl.recvBuf, net, v, conns, x, z, e) /\ z.units = l
      /\ (e \/ q) => srv.notified = TRUE
      /\ Waiting(cl.recvBuf, net, toServer, srv, conns, x, z) \/ Serving(toServer, srv, conns, v, x, k, z)
  BY <1>4 DEF UpWith, OnWire
<1>6. srv.notified # TRUE
  BY <1>1
<1>7. e = FALSE /\ q = FALSE
  BY <1>5, <1>6
<1>8. r = Record(v, conns, z.at, z.seq, "alert", m)
  <2>1. CASE Waiting(cl.recvBuf, net, toServer, srv, conns, x, z)
    <3>1. srv = NoServer /\ z.at = 0
      BY <2>1 DEF Waiting
    <3>2. NoServer.sealed = FALSE
      BY DEF NoServer
    <3>3. r = [outer |-> "alert", type |-> "alert", msgs |-> m, key |-> Plain, seq |-> 0]
      BY <1>2, <3>1, <3>2 DEF ServerRecord
    <3>4. ~SealedAt(v, z.at)
      BY <3>1 DEF SealedAt
    <3> QED
      BY <3>3, <3>4 DEF Record
  <2>2. CASE Serving(toServer, srv, conns, v, x, k, z)
    <3>1. PICK a \in 1 .. Answered(v, x.at, k) : ServerAt(srv, v, conns, z, a)
      BY <2>2 DEF Serving
    <3>2. srv.notified \in BOOLEAN
      BY <3>1 DEF ServerAt
    <3>3. srv.notified = FALSE
      BY <1>6, <3>2
    <3>4. PICK type : type = "alert"
      OBVIOUS
    <3>5. MakesRecord(srv, v, conns, z, type, m)
      BY <3>1, <3>3, RecordMade
    <3> QED
      BY <1>2, <3>4, <3>5 DEF MakesRecord
  <2> QED
    BY <1>5, <2>1, <2>2
<1>y. PICK y : y = Opened(v, z, "alert")
  OBVIOUS
<1>f. PICK f \in BOOLEAN : f = TRUE
  OBVIOUS
<1>9. y = Opened(v, z, "alert") /\ f = TRUE
  BY <1>y, <1>f
<1>10. y \in Position /\ y.units = l
  BY <1>5, <1>9, OpenedFacts
<1>11. Fits(v, conns, r, z, y, f)
  BY <1>2, <1>8, <1>9 DEF Fits, Ending
<1>12. Wire(cl.recvBuf, net', v, conns, x, y, f)
  <2>1. Wire(cl.recvBuf, net, v, conns, x, z, FALSE)
    BY <1>5, <1>7
  <2>2. Wire(cl.recvBuf, net \o << r, r >>, v, conns, x, y, f)
    BY <1>11, <2>1, WireGrows
  <2> QED
    BY <1>3, <2>2
<1>13. OnWire(cl.recvBuf, net', toServer', srv', link', conns, v, x, k, l, q, y, f)
  BY <1>1, <1>10, <1>12 DEF OnWire
<1>14. LinkPart(cl.recvBuf, net', toServer', srv', link', sends, conns, v, x, k, l, q)
  BY <1>1, <1>5, <1>10, <1>13 DEF LinkPart
<1>15. DOMAIN srv' = SrvFields /\ srv'.rejected = FALSE /\ srv'.sent = srv.sent
  BY <1>1, ConnectedPicks, GoneFacts
<1>16. ClientPart(cl, got, srv'.sent, conns, v, x, k, l, g, q)
  BY <1>5, <1>15
<1> QED
  BY <1>1, <1>5, <1>14, <1>15, <1>16, StaysConnected

\* Before the server has answered, the client fits either version.
LEMMA AnyVersion ==
  ASSUME NEW c, NEW gt, NEW sent, NEW n, NEW v \in Versions, NEW w \in Versions, NEW x, x \in Position,
         x.at = 0, NEW k, NEW l, NEW g, NEW q,
         ClientPart(c, gt, sent, n, v, x, k, l, g, q)
  PROVE  ClientPart(c, gt, sent, n, w, x, k, l, g, q)
<1>1. Client(c, v, n, x, Answered(v, x.at, k), k, g, q)
  BY DEF ClientPart
<1>2. \A t \in Versions : Answered(t, x.at, k) = 1 /\ Seen(t, n, 0) = Start(n) /\ Turn(t) > 0
  BY DEF Answered, Turn, Seen
<1>3. Answered(v, x.at, k) = 1 /\ Answered(w, x.at, k) = 1
  BY <1>2
<1>4. ClientAt(c, v, n, x) /\ ClientKeys(c, v, n, x) /\ Sending(c, v, n, x, 1, k)
  BY <1>1, <1>3 DEF Client
<1>5. ClientAt(c, w, n, x)
  <2>1. c.idx = 0 /\ c.cipher = None /\ c.encoding = FALSE
    BY <1>4 DEF ClientAt, Versions
  <2>2. c.serverSeq = x.seq /\ c.clientRand = n /\ c.hash = Start(n)
    BY <1>2, <1>4 DEF ClientAt
  <2>3. c.idx = (IF w = "tls12" /\ x.at > 4 THEN 4 ELSE x.at)
    BY <2>1
  <2>4. c.cipher = (IF x.at = 0 THEN None ELSE w)
    BY <2>1
  <2>5. c.encoding = (IF x.at >= (IF w = "tls12" THEN 4 ELSE 1) THEN TRUE ELSE FALSE)
    <3>1. CASE w = "tls12"
      <4>1. ~(x.at >= 4)
        OBVIOUS
      <4> QED
        BY <2>1, <3>1, <4>1
    <3>2. CASE w # "tls12"
      <4>1. ~(x.at >= 1)
        OBVIOUS
      <4> QED
        BY <2>1, <3>2, <4>1
    <3> QED
      BY <3>1, <3>2
  <2>6. x.at < 6 => c.hash = Seen(w, n, x.at)
    BY <1>2, <2>2
  <2> QED
    BY <2>2, <2>3, <2>4, <2>5, <2>6 DEF ClientAt
<1>6. ClientKeys(c, w, n, x)
  BY DEF ClientKeys
<1>7. Sending(c, w, n, x, 1, k)
  <2>1. c.out = Slice(Answers(v, n), 1, 0) /\ c.clientSeq = 0 /\ k = 0
    <3>1. x.at < Turn(v)
      BY <1>2
    <3>2. c.out = Slice(Answers(v, n), 1, Answered(v, x.at, k) - 1)
      BY <1>4 DEF Sending
    <3>3. c.clientSeq = 0 /\ k = 0
      BY <1>4, <3>1 DEF Sending
    <3>4. Answered(v, x.at, k) - 1 = 0
      BY <1>3
    <3> QED
      BY <3>2, <3>3, <3>4
  <2>2. Slice(Answers(v, n), 1, 0) = Slice(Answers(w, n), 1, 0)
    <3>1. 1 \in Nat /\ 0 \in Nat
      OBVIOUS
    <3>2. Slice(Answers(v, n), 1, 0) = << >> /\ Slice(Answers(w, n), 1, 0) = << >>
      BY <3>1, SliceProperties
    <3> QED
      BY <3>2
  <2>3. x.at < Turn(w) /\ ~(x.at >= Turn(w))
    BY <1>2 DEF Turn
  <2>4. Answered(w, x.at, k) - 1 = 0 /\ 1 <= Answered(w, x.at, k)
    BY <1>3
  <2>5. c.out = Slice(Answers(w, n), 1, Answered(w, x.at, k) - 1)
    BY <2>1, <2>2, <2>4
  <2> QED
    BY <2>1, <2>3, <2>4, <2>5 DEF Sending
<1>8. Client(c, w, n, x, Answered(w, x.at, k), k, g, q)
  BY <1>1, <1>3, <1>5, <1>6, <1>7 DEF Client
<1> QED
  BY <1>8 DEF ClientPart

\* The server that has answered a hello of connection n with version v.
Answering(u, v, n, hash) ==
  u = [NoServer EXCEPT
         !.ver = v, !.hash = hash,
         !.localKey = Key("server", "12", << n, n >>),
         !.remoteKey = Key("client", "12", << n, n >>),
         !.flight = IF v = "tls13" THEN << "SH", "CCS", "EE", "Cert", "CV", "Fin" >>
                    ELSE << "SH", "Cert", "SKE", "SHD" >>]

\* The flight that answers the hello is the whole flight.
LEMMA FirstFlight ==
  ASSUME NEW v \in Versions, NEW f,
         f = IF v = "tls13" THEN << "SH", "CCS", "EE", "Cert", "CV", "Fin" >>
             ELSE << "SH", "Cert", "SKE", "SHD" >>
  PROVE  f = Rest(v, 0, 1)
<1>1. CASE v = "tls13"
  <2>1. FlightEnd(v, 1) - 0 = 6
    BY <1>1 DEF FlightEnd
  <2>2. PICK names : names = Names(v)
    OBVIOUS
  <2>3. \A i \in 1 .. 6 : 0 + i = i
    OBVIOUS
  <2>4. f = << "SH", "CCS", "EE", "Cert", "CV", "Fin" >> /\ names = << "SH", "CCS", "EE", "Cert", "CV", "Fin" >>
    BY <1>1, <2>2 DEF Names, StateSeq
  <2>5. f = [i \in 1 .. 6 |-> names[i]]
    BY <2>4
  <2>6. f = Slice(names, 0, 6)
    BY <2>3, <2>5 DEF Slice
  <2> QED
    BY <2>1, <2>2, <2>6 DEF Rest
<1>2. CASE v = "tls12"
  <2>1. FlightEnd(v, 1) - 0 = 4
    BY <1>2 DEF FlightEnd
  <2>2. PICK names : names = Names(v)
    OBVIOUS
  <2>3. \A i \in 1 .. 4 : 0 + i = i
    OBVIOUS
  <2>4. f = << "SH", "Cert", "SKE", "SHD" >> /\ names = << "SH", "Cert", "SKE", "SHD", "CCS", "Fin" >>
    BY <1>2, <2>2 DEF Names, StateSeq
  <2>5. f = [i \in 1 .. 4 |-> names[i]]
    BY <2>4
  <2>6. f = Slice(names, 0, 4)
    BY <2>3, <2>5 DEF Slice
  <2> QED
    BY <2>1, <2>2, <2>6 DEF Rest
<1> QED
  BY <1>1, <1>2 DEF Versions

AnsweredAt(u, v, n, z) == ServerAt(u, v, n, z, 1) /\ u.sent = << >> /\ u.notified = FALSE

\* The server that has chosen a version serves from the start.
LEMMA FirstAnswer ==
  ASSUME NEW v \in Versions, NEW n, NEW u, NEW hash, hash = Start(n), Answering(u, v, n, hash),
         NEW z, z \in Position, z.at = 0, z.seq = 0
  PROVE  AnsweredAt(u, v, n, z)
<1>1. PICK t : t = NoServer
  OBVIOUS
<1>2. /\ DOMAIN t = SrvFields
      /\ t.sealed = FALSE /\ t.opening = FALSE /\ t.serverSeq = 0 /\ t.clientSeq = 0
      /\ t.appHash = << >> /\ t.sent = << >> /\ t.notified = FALSE /\ t.complete = FALSE
      /\ t.rejected = FALSE
  BY <1>1 DEF NoServer, SrvFields
<1>3. PICK f : f = IF v = "tls13" THEN << "SH", "CCS", "EE", "Cert", "CV", "Fin" >>
                   ELSE << "SH", "Cert", "SKE", "SHD" >>
  OBVIOUS
<1>4. u = [t EXCEPT !.ver = v, !.hash = hash,
                    !.localKey = Key("server", "12", << n, n >>),
                    !.remoteKey = Key("client", "12", << n, n >>),
                    !.flight = f]
  BY <1>1, <1>3 DEF Answering
<1>5. /\ DOMAIN u = SrvFields
      /\ u.ver = v /\ u.hash = hash /\ u.flight = f
      /\ u.localKey = Key("server", "12", << n, n >>) /\ u.remoteKey = Key("client", "12", << n, n >>)
  BY <1>2, <1>4 DEF SrvFields
<1>6. /\ u.sealed = FALSE /\ u.opening = FALSE /\ u.serverSeq = 0 /\ u.clientSeq = 0
      /\ u.appHash = << >> /\ u.sent = << >> /\ u.notified = FALSE /\ u.complete = FALSE
      /\ u.rejected = FALSE
  BY <1>2, <1>4 DEF SrvFields
<1>7. f = Rest(v, 0, 1)
  BY <1>3, FirstFlight
<1>8. ServerKeys(u, v, n, z, 1)
  <2>1. ~SealedAt(v, z.at)
    BY DEF SealedAt
  <2>2. v = "tls12" => u.localKey = SealKey(v, n, z.at)
    BY <1>5 DEF SealKey, Key12
  <2>3. ServerHash(v, n, z.at, 1) = hash
    <3>1. Second(v, 1) = FALSE
      BY DEF Second
    <3>2. Told(v, n, 0, FALSE) = Seen(v, n, 0)
      BY DEF Told
    <3>3. Seen(v, n, 0) = Start(n)
      BY DEF Seen
    <3>4. ServerHash(v, n, z.at, 1) = Told(v, n, 0, Second(v, 1))
      BY DEF ServerHash
    <3> QED
      BY <3>1, <3>2, <3>3, <3>4
  <2>4. v = "tls12" => u.remoteKey = Key12("client", n)
    BY <1>5 DEF Key12
  <2>5. ~(z.at > 0) /\ z.at # 6
    OBVIOUS
  <2> QED
    BY <1>5, <1>6, <2>1, <2>2, <2>3, <2>4, <2>5 DEF ServerKeys
<1>9. ServerCounts(u, v, z, 1)
  <2>1. ~SealedAt(v, z.at)
    BY DEF SealedAt
  <2>2. ~((v = "tls13" /\ z.at > 0) \/ (v = "tls12" /\ 1 >= 3)) /\ ~(1 >= 4)
    OBVIOUS
  <2>3. u.sealed = (IF SealedAt(v, z.at) THEN TRUE ELSE FALSE)
    BY <1>6, <2>1
  <2>4. u.opening = (IF (v = "tls13" /\ z.at > 0) \/ (v = "tls12" /\ 1 >= 3) THEN TRUE ELSE FALSE)
    BY <1>6, <2>2
  <2> QED
    BY <1>6, <2>2, <2>3, <2>4 DEF ServerCounts
<1>10. Turns(v, z.at, 1)
  BY DEF Turns
<1>11. u.flight = Rest(v, z.at, 1)
  BY <1>5, <1>7
<1>12. ServerAt(u, v, n, z, 1)
  BY <1>5, <1>6, <1>8, <1>9, <1>10, <1>11 DEF ServerAt
<1> QED
  BY <1>6, <1>12 DEF AnsweredAt

\* The server answers the hello.
LEMMA ServerHelloStep ==
  ASSUME TlsInv, ServerHello
  PROVE  TlsInv'
<1>1. link = "up" /\ toServer # << >> /\ srv.ver = None /\ Theirs /\ net' = net /\ link' = link
      /\ toServer' = Tail(toServer)
  BY DEF ServerHello, ServerAnswers, Theirs
<1>2. PICK v \in Versions, x \in Position, k \in Nat, l \in Nat, g \in Nat, q \in BOOLEAN,
           z \in Position, e \in BOOLEAN : UpWith(v, x, k, l, g, q, z, e)
  BY <1>1, Upward DEF IsUp
<1>3. /\ ClientPart(cl, got, srv.sent, conns, v, x, k, l, g, q)
      /\ CallPart(call, status, v, x) /\ k = sends /\ z.units = l
      /\ (e \/ q) => srv.notified = TRUE
      /\ Waiting(cl.recvBuf, net, toServer, srv, conns, x, z) \/ Serving(toServer, srv, conns, v, x, k, z)
  BY <1>2 DEF UpWith, OnWire
<1>4. Waiting(cl.recvBuf, net, toServer, srv, conns, x, z)
  <2>1. SUFFICES ASSUME Serving(toServer, srv, conns, v, x, k, z) PROVE FALSE
    BY <1>3
  <2>2. srv.ver = v
    BY <2>1 DEF Serving, ServerAt
  <2> QED
    BY <1>1, <2>2 DEF Versions, None
<1>5. /\ srv = NoServer /\ cl.recvBuf = << >> /\ net = << >>
      /\ z = x /\ x.at = 0 /\ x.seq = 0 /\ x.units = 0
  BY <1>4 DEF Waiting
<1>6. PICK o \in Offers : toServer = << Hello(conns, o) >>
  BY <1>4 DEF Waiting
<1>7. PICK m : m = Msg("CH", [rand |-> conns, offer |-> o])
  OBVIOUS
<1>8. Head(toServer).msgs[1] = m /\ Tail(toServer) = << >>
  BY <1>6, <1>7 DEF Hello
<1>9. m.body.rand = conns /\ m.body.offer = o /\ Hashed(m) = << "CH", conns >>
  BY <1>7 DEF Msg, Hashed
<1>a. PICK w \in {"tls12", Head(toServer).msgs[1].body.offer} :
         srv' = [srv EXCEPT
             !.ver = w, !.hash = << Hashed(Head(toServer).msgs[1]) >>,
             !.localKey = Key("server", "12", << Head(toServer).msgs[1].body.rand, conns >>),
             !.remoteKey = Key("client", "12", << Head(toServer).msgs[1].body.rand, conns >>),
             !.flight = IF w = "tls13"
                        THEN << "SH", "CCS", "EE", "Cert", "CV", "Fin" >>
                        ELSE << "SH", "Cert", "SKE", "SHD" >>]
  BY DEF ServerHello, ServerAnswers, Flight
<1>10. /\ w \in {"tls12", o}
        /\ srv' = [srv EXCEPT
             !.ver = w, !.hash = << Hashed(m) >>,
             !.localKey = Key("server", "12", << m.body.rand, conns >>),
             !.remoteKey = Key("client", "12", << m.body.rand, conns >>),
             !.flight = IF w = "tls13"
                        THEN << "SH", "CCS", "EE", "Cert", "CV", "Fin" >>
                        ELSE << "SH", "Cert", "SKE", "SHD" >>]
  BY <1>8, <1>9, <1>a
<1>11. w \in Versions
  BY <1>6, <1>10, TlsAssumption DEF Versions
<1>12. PICK hash : hash = << << "CH", conns >> >>
  OBVIOUS
<1>13. hash = Start(conns)
  BY <1>12 DEF Start
<1>14. Answering(srv', w, conns, hash)
  BY <1>5, <1>9, <1>10, <1>12 DEF Answering
<1>15. AnsweredAt(srv', w, conns, x)
  BY <1>5, <1>11, <1>13, <1>14, FirstAnswer
<1>16. ServerAt(srv', w, conns, x, 1) /\ srv'.sent = << >> /\ srv'.notified = FALSE
  BY <1>15 DEF AnsweredAt
<1>17. q = FALSE
  <2>1. NoServer.notified = FALSE
    BY DEF NoServer
  <2> QED
    BY <1>3, <1>5, <2>1
<1>18. ClientPart(cl, got, srv'.sent, conns, w, x, k, l, g, q)
  <2>1. ClientPart(cl, got, srv.sent, conns, w, x, k, l, g, q)
    BY <1>3, <1>5, <1>11, AnyVersion
  <2>2. NoServer.sent = << >>
    BY DEF NoServer
  <2>3. srv'.sent = srv.sent
    BY <1>5, <1>16, <2>2
  <2> QED
    BY <2>1, <2>3
<1>19. CallPart(call, status, w, x)
  <2>1. ~(x.at >= Turn(v))
    BY <1>5 DEF Turn
  <2> QED
    BY <1>3, <2>1 DEF CallPart
<1>20. Answered(w, x.at, k) = 1
  BY <1>5, <1>11 DEF Answered, Turn
<1>21. Serving(toServer', srv', conns, w, x, k, x)
  <2>1. 1 \in Nat /\ 0 \in Nat
    OBVIOUS
  <2>2. Slice(Answers(w, conns), 1, 0) = << >>
    BY <2>1, SliceProperties
  <2>3. toServer' = Slice(Answers(w, conns), 1, Answered(w, x.at, k) - 1)
    <3>1. Answered(w, x.at, k) - 1 = 0
      BY <1>20
    <3> QED
      BY <1>1, <1>8, <2>2, <3>1
  <2>4. 1 \in 1 .. Answered(w, x.at, k)
    BY <1>20
  <2> QED
    BY <1>16, <2>3, <2>4 DEF Serving
<1>22. PICK f \in BOOLEAN : f = FALSE
  OBVIOUS
<1>23. Wire(cl.recvBuf, net', w, conns, x, x, f)
  <2>1. PICK a, b : a = cl.recvBuf /\ b = net
    OBVIOUS
  <2>2. Wire(a, b, w, conns, x, x, FALSE)
    BY <1>5, <2>1, EmptyWire
  <2> QED
    BY <1>1, <1>22, <2>1, <2>2
<1>24. OnWire(cl.recvBuf, net', toServer', srv', link', conns, w, x, k, l, q, x, f)
  BY <1>1, <1>3, <1>5, <1>17, <1>21, <1>22, <1>23 DEF OnWire
<1>25. LinkPart(cl.recvBuf, net', toServer', srv', link', sends, conns, w, x, k, l, q)
  BY <1>1, <1>3, <1>24 DEF LinkPart
<1>26. DOMAIN srv' = SrvFields /\ srv'.rejected = FALSE
  BY <1>16 DEF ServerAt
<1> QED
  BY <1>1, <1>11, <1>18, <1>19, <1>25, <1>26, StaysConnected

\* ServerReceive: whether the server s opens the record r and accepts it, and
\* what becomes of it then.
ClearFor(s, r) == IsClear(r.type) \/ ~s.opening
OpensFor(s, r) == IF ClearFor(s, r) THEN r.key = Plain
                  ELSE r.key = s.remoteKey /\ r.seq = s.clientSeq
VerifiedFor(s, r) == r.msgs[1].name = "Fin" => r.msgs[1].body = Verify(s.remoteKey, s.hash)
CountedFor(s, r) == [s EXCEPT !.clientSeq = IF ClearFor(s, r) THEN @ ELSE @ + 1]
HashedFor(s, r) == [CountedFor(s, r) EXCEPT !.hash = Append(@, Hashed(r.msgs[1]))]
Taken(s, r) ==
  CASE r.msgs[1].name = "CKE" -> HashedFor(s, r)
    [] r.msgs[1].name = "CCS" -> [CountedFor(s, r) EXCEPT !.opening = TRUE]
    [] r.msgs[1].name = "Fin" ->
         IF s.ver = "tls12" THEN [HashedFor(s, r) EXCEPT !.flight = << "CCS", "Fin" >>]
         ELSE [CountedFor(s, r) EXCEPT !.complete = TRUE, !.clientSeq = 0,
                                       !.remoteKey = Key("client", "ap", s.appHash)]
    [] OTHER -> CountedFor(s, r)
Accepts(s, r) == OpensFor(s, r) /\ VerifiedFor(s, r)

\* A record that opens and verifies is taken.
LEMMA ReceiveAccepted ==
  ASSUME ServerReceive, NEW r, r = Head(toServer), Accepts(srv, r)
  PROVE  srv' = Taken(srv, r) /\ link' = link
<1>1. /\ srv' = CASE ~OpensFor(srv, r) \/ ~VerifiedFor(srv, r) -> Gone([srv EXCEPT !.rejected = TRUE])
                  [] OpensFor(srv, r) /\ r.msgs[1].name = "CKE" -> HashedFor(srv, r)
                  [] OpensFor(srv, r) /\ r.msgs[1].name = "CCS" -> [CountedFor(srv, r) EXCEPT !.opening = TRUE]
                  [] OpensFor(srv, r) /\ VerifiedFor(srv, r) /\ r.msgs[1].name = "Fin" ->
                       IF srv.ver = "tls12"
                       THEN [HashedFor(srv, r) EXCEPT !.flight = << "CCS", "Fin" >>]
                       ELSE [CountedFor(srv, r) EXCEPT !.complete = TRUE, !.clientSeq = 0,
                               !.remoteKey = Key("client", "ap", srv.appHash)]
                  [] OTHER -> CountedFor(srv, r)
      /\ link' = IF OpensFor(srv, r) /\ VerifiedFor(srv, r) THEN link ELSE "fin"
  BY DEF ServerReceive, OpensFor, VerifiedFor, CountedFor, HashedFor, ClearFor
<1>2. OpensFor(srv, r) /\ VerifiedFor(srv, r)
  BY DEF Accepts
<1>3. PICK name : name = r.msgs[1].name
  OBVIOUS
<1>4. link' = link
  BY <1>1, <1>2
<1>5. CASE name = "CKE"
  BY <1>1, <1>2, <1>3, <1>4, <1>5 DEF Taken
<1>6. CASE name = "CCS"
  BY <1>1, <1>2, <1>3, <1>4, <1>6 DEF Taken
<1>7. CASE name = "Fin"
  BY <1>1, <1>2, <1>3, <1>4, <1>7 DEF Taken
<1>8. CASE name \notin {"CKE", "CCS", "Fin"}
  BY <1>1, <1>2, <1>3, <1>4, <1>8 DEF Taken
<1> QED
  BY <1>5, <1>6, <1>7, <1>8

\* The server u with one record of the client more than s: b of them.
OneMoreAt(s, u, v, n, z, b) ==
  /\ SrvSame(s, u, {"clientSeq", "opening", "hash", "flight", "complete", "remoteKey"})
  /\ u.clientSeq = IF b >= 4 THEN b - 3 ELSE 0
  /\ u.opening = (IF (v = "tls13" /\ z.at > 0) \/ (v = "tls12" /\ b >= 3) THEN TRUE ELSE FALSE)
  /\ u.hash = ServerHash(v, n, z.at, b) /\ u.flight = Rest(v, z.at, b)
  /\ u.complete \in BOOLEAN /\ (v = "tls12" => u.complete = s.complete)
  /\ v = "tls12" => u.remoteKey = Key12("client", n)
  /\ v = "tls13" => u.remoteKey = IF b < 3 THEN HsKey("client", n) ELSE ApKey("client", n)
  /\ Turns(v, z.at, b)
ReceivedAt(s, u, v, n, z, b) ==
  ServerAt(u, v, n, z, b) /\ u.sent = s.sent /\ u.notified = s.notified

\* A server that has taken one record more is where it should be.
LEMMA OneMoreReceived ==
  ASSUME NEW v \in Versions, NEW n, NEW z, NEW a, NEW s, ServerAt(s, v, n, z, a),
         NEW u, NEW b, OneMoreAt(s, u, v, n, z, b)
  PROVE  ReceivedAt(s, u, v, n, z, b)
<1>1. /\ DOMAIN u = SrvFields
      /\ u.ver = s.ver /\ u.sealed = s.sealed /\ u.localKey = s.localKey
      /\ u.serverSeq = s.serverSeq /\ u.appHash = s.appHash /\ u.sent = s.sent
      /\ u.notified = s.notified /\ u.rejected = s.rejected
  BY DEF OneMoreAt, SrvSame, SrvFields
<1>2. ServerKeys(s, v, n, z, a) /\ ServerCounts(s, v, z, a)
  BY DEF ServerAt
<1>3. ServerKeys(u, v, n, z, b)
  BY <1>1, <1>2 DEF ServerKeys, OneMoreAt
<1>4. ServerCounts(u, v, z, b)
  BY <1>1, <1>2 DEF ServerCounts, OneMoreAt
<1>5. u.complete \in BOOLEAN /\ (v = "tls12" /\ u.complete = TRUE => z.at = 6)
  BY DEF OneMoreAt, ServerAt
<1>6. u.flight = Rest(v, z.at, b) /\ Turns(v, z.at, b)
  BY DEF OneMoreAt
<1>7. ServerAt(u, v, n, z, b)
  BY <1>1, <1>3, <1>4, <1>5, <1>6 DEF ServerAt
<1> QED
  BY <1>1, <1>7 DEF ReceivedAt

TakenOn(s, r, v, n, z, b) == Accepts(s, r) /\ ReceivedAt(s, Taken(s, r), v, n, z, b)

\* TLS 1.3: the change of cipher spec, the client's Finished, its requests.
LEMMA TakesChange13 ==
  ASSUME NEW v, v = "tls13", NEW n, NEW z, z \in Position, z.at = 6, NEW a, a = 1, NEW s,
         ServerAt(s, v, n, z, a), NEW b, b = 2, NEW r, r = Answer(v, n, b)
  PROVE  TakenOn(s, r, v, n, z, b)
<1>1. r.type = "ccs" /\ r.key = Plain /\ r.msgs = << Msg("CCS", None) >>
  BY DEF Answer
<1>2. r.msgs[1].name = "CCS"
  BY <1>1 DEF Msg
<1>3. ClearFor(s, r)
  BY <1>1 DEF ClearFor, IsClear
<1>4. Accepts(s, r)
  BY <1>1, <1>2, <1>3 DEF Accepts, OpensFor, VerifiedFor
<1>5. /\ DOMAIN s = SrvFields /\ s.flight = Rest(v, z.at, a) /\ s.complete \in BOOLEAN
      /\ s.remoteKey = HsKey("client", n) /\ s.hash = ServerHash(v, n, z.at, a)
      /\ s.clientSeq = 0 /\ s.opening = TRUE
  BY DEF ServerAt, ServerKeys, ServerCounts
<1>6. PICK u : u = Taken(s, r)
  OBVIOUS
<1>7. u = [CountedFor(s, r) EXCEPT !.opening = TRUE]
  BY <1>2, <1>6 DEF Taken
<1>8. CountedFor(s, r) = [s EXCEPT !.clientSeq = s.clientSeq]
  BY <1>3 DEF CountedFor
<1>9. /\ SrvSame(s, u, {"clientSeq", "opening"}) /\ u.clientSeq = 0 /\ u.opening = TRUE
  BY <1>5, <1>7, <1>8 DEF SrvSame, SrvFields
<1>10. /\ SrvSame(s, u, {"clientSeq", "opening", "hash", "flight", "complete", "remoteKey"})
       /\ u.hash = s.hash /\ u.flight = s.flight /\ u.complete = s.complete
       /\ u.remoteKey = s.remoteKey
  BY <1>9 DEF SrvSame, SrvFields
<1>11. ServerHash(v, n, z.at, a) = ServerHash(v, n, z.at, b) /\ Rest(v, z.at, a) = Rest(v, z.at, b)
  BY DEF ServerHash, Second, Rest, FlightEnd
<1>12. Turns(v, z.at, b)
  BY DEF Turns
<1>o. u.opening = (IF (v = "tls13" /\ z.at > 0) \/ (v = "tls12" /\ b >= 3) THEN TRUE ELSE FALSE)
  <2>1. u.opening = TRUE
    BY <1>5, <1>9, <1>10
  <2>2. v = "tls13" /\ z.at > 0
    OBVIOUS
  <2> QED
    BY <2>1, <2>2
<1>k. u.remoteKey = IF b < 3 THEN HsKey("client", n) ELSE ApKey("client", n)
  BY <1>5, <1>9, <1>10
<1>v. v # "tls12"
  OBVIOUS
<1>e. u.clientSeq = IF b >= 4 THEN b - 3 ELSE 0
  BY <1>9
<1>13. OneMoreAt(s, u, v, n, z, b)
  BY <1>5, <1>9, <1>10, <1>11, <1>12, <1>o, <1>k, <1>v, <1>e DEF OneMoreAt
<1>14. v \in Versions
  BY DEF Versions
<1>15. ReceivedAt(s, u, v, n, z, b)
  BY <1>13, <1>14, OneMoreReceived
<1> QED
  BY <1>4, <1>6, <1>15 DEF TakenOn

\* TLS 1.3: the client's Finished, after which the server expects the application key.
LEMMA TakesFinished13 ==
  ASSUME NEW v, v = "tls13", NEW n, NEW z, z \in Position, z.at = 6, NEW a, a = 2, NEW s,
         ServerAt(s, v, n, z, a), NEW b, b = 3, NEW r, r = Answer(v, n, b)
  PROVE  TakenOn(s, r, v, n, z, b)
<1>1. /\ r.type = "hs" /\ r.key = HsKey("client", n) /\ r.seq = 0
      /\ r.msgs = << Msg("Fin", Verify(HsKey("client", n), To13Fin(n))) >>
  BY DEF Answer
<1>2. r.msgs[1].name = "Fin" /\ r.msgs[1].body = Verify(HsKey("client", n), To13Fin(n))
  BY <1>1 DEF Msg
<1>5. /\ DOMAIN s = SrvFields /\ s.flight = Rest(v, z.at, a) /\ s.complete \in BOOLEAN
      /\ s.remoteKey = HsKey("client", n) /\ s.hash = ServerHash(v, n, z.at, a)
      /\ s.clientSeq = 0 /\ s.opening = TRUE /\ s.appHash = To13Fin(n) /\ s.ver = v
  BY DEF ServerAt, ServerKeys, ServerCounts
<1>3. ~ClearFor(s, r)
  BY <1>1, <1>5 DEF ClearFor, IsClear
<1>a. ServerHash(v, n, z.at, a) = To13Fin(n) /\ ServerHash(v, n, z.at, b) = To13Fin(n)
      /\ Rest(v, z.at, a) = Rest(v, z.at, b)
  BY DEF ServerHash, Second, Rest, FlightEnd, Told
<1>4. Accepts(s, r)
  BY <1>1, <1>2, <1>3, <1>5, <1>a DEF Accepts, OpensFor, VerifiedFor
<1>6. PICK u : u = Taken(s, r)
  OBVIOUS
<1>7. u = [CountedFor(s, r) EXCEPT !.complete = TRUE, !.clientSeq = 0,
                                   !.remoteKey = Key("client", "ap", s.appHash)]
  BY <1>2, <1>5, <1>6 DEF Taken
<1>8. CountedFor(s, r) = [s EXCEPT !.clientSeq = s.clientSeq + 1]
  BY <1>3 DEF CountedFor
<1>9. /\ SrvSame(s, u, {"clientSeq", "complete", "remoteKey"}) /\ u.clientSeq = 0 /\ u.complete = TRUE
      /\ u.remoteKey = Key("client", "ap", s.appHash)
  BY <1>5, <1>7, <1>8, ZenonT(60) DEF SrvSame, SrvFields
<1>10. /\ SrvSame(s, u, {"clientSeq", "opening", "hash", "flight", "complete", "remoteKey"})
       /\ u.hash = s.hash /\ u.flight = s.flight /\ u.opening = s.opening
       /\ u.remoteKey = ApKey("client", n)
  BY <1>5, <1>9 DEF SrvSame, SrvFields, ApKey
<1>12. Turns(v, z.at, b)
  BY DEF Turns
<1>o. u.opening = (IF (v = "tls13" /\ z.at > 0) \/ (v = "tls12" /\ b >= 3) THEN TRUE ELSE FALSE)
  <2>1. u.opening = TRUE
    BY <1>5, <1>9, <1>10
  <2>2. v = "tls13" /\ z.at > 0
    OBVIOUS
  <2> QED
    BY <2>1, <2>2
<1>k. u.remoteKey = IF b < 3 THEN HsKey("client", n) ELSE ApKey("client", n)
  BY <1>5, <1>9, <1>10
<1>v. v # "tls12"
  OBVIOUS
<1>e. u.clientSeq = IF b >= 4 THEN b - 3 ELSE 0
  BY <1>9
<1>13. OneMoreAt(s, u, v, n, z, b)
  BY <1>5, <1>9, <1>10, <1>a, <1>12, <1>o, <1>k, <1>v, <1>e DEF OneMoreAt
<1>14. v \in Versions
  BY DEF Versions
<1>15. ReceivedAt(s, u, v, n, z, b)
  BY <1>13, <1>14, OneMoreReceived
<1> QED
  BY <1>4, <1>6, <1>15 DEF TakenOn

\* TLS 1.3: a request.
LEMMA TakesRequest13 ==
  ASSUME NEW v, v = "tls13", NEW n, NEW z, z \in Position, z.at = 6, NEW a, a \in Nat, a >= 3, NEW s,
         ServerAt(s, v, n, z, a), NEW b, b = a + 1, NEW r, r = Answer(v, n, b)
  PROVE  TakenOn(s, r, v, n, z, b)
<1>0. b # 2 /\ b # 3 /\ b - 4 = a - 3 /\ b >= 4 /\ (a - 3) + 1 = b - 3
  OBVIOUS
<1>1. /\ r.type = "data" /\ r.key = ApKey("client", n) /\ r.seq = a - 3
      /\ r.msgs = << Msg("request", b - 3) >>
  BY <1>0 DEF Answer
<1>2. r.msgs[1].name = "request"
  BY <1>1 DEF Msg
<1>5. /\ DOMAIN s = SrvFields /\ s.flight = Rest(v, z.at, a) /\ s.complete \in BOOLEAN
      /\ s.remoteKey = ApKey("client", n) /\ s.hash = ServerHash(v, n, z.at, a)
      /\ s.opening = TRUE
  BY DEF ServerAt, ServerKeys, ServerCounts
<1>c. s.clientSeq = a - 3
  <2>1. s.clientSeq = IF a >= 4 THEN a - 3 ELSE 0
    BY DEF ServerAt, ServerCounts
  <2> QED
    BY <2>1
<1>3. ~ClearFor(s, r)
  BY <1>1, <1>5 DEF ClearFor, IsClear
<1>4. Accepts(s, r)
  BY <1>1, <1>2, <1>3, <1>5, <1>c DEF Accepts, OpensFor, VerifiedFor
<1>6. PICK u : u = Taken(s, r)
  OBVIOUS
<1>7. u = CountedFor(s, r)
  BY <1>2, <1>6 DEF Taken
<1>8. CountedFor(s, r) = [s EXCEPT !.clientSeq = s.clientSeq + 1]
  BY <1>3 DEF CountedFor
<1>9. SrvSame(s, u, {"clientSeq"}) /\ u.clientSeq = s.clientSeq + 1
  BY <1>5, <1>7, <1>8 DEF SrvSame, SrvFields
<1>10. /\ SrvSame(s, u, {"clientSeq", "opening", "hash", "flight", "complete", "remoteKey"})
       /\ u.hash = s.hash /\ u.flight = s.flight /\ u.opening = s.opening
       /\ u.remoteKey = s.remoteKey /\ u.complete = s.complete
  BY <1>9 DEF SrvSame, SrvFields
<1>11. ServerHash(v, n, z.at, a) = ServerHash(v, n, z.at, b) /\ Rest(v, z.at, a) = Rest(v, z.at, b)
  BY DEF ServerHash, Second, Rest, FlightEnd
<1>12. Turns(v, z.at, b)
  BY DEF Turns
<1>d. u.clientSeq = IF b >= 4 THEN b - 3 ELSE 0
  BY <1>0, <1>9, <1>c
<1>o. u.opening = (IF (v = "tls13" /\ z.at > 0) \/ (v = "tls12" /\ b >= 3) THEN TRUE ELSE FALSE)
  <2>1. u.opening = TRUE
    BY <1>5, <1>9, <1>10
  <2>2. v = "tls13" /\ z.at > 0
    OBVIOUS
  <2> QED
    BY <2>1, <2>2
<1>k. u.remoteKey = IF b < 3 THEN HsKey("client", n) ELSE ApKey("client", n)
  BY <1>5, <1>9, <1>10, <1>0
<1>v. v # "tls12"
  OBVIOUS
<1>e. u.clientSeq = IF b >= 4 THEN b - 3 ELSE 0
  BY <1>9, <1>0, <1>d
<1>13. OneMoreAt(s, u, v, n, z, b)
  BY <1>0, <1>5, <1>10, <1>11, <1>12, <1>d, <1>o, <1>k, <1>v, <1>e DEF OneMoreAt
<1>14. v \in Versions
  BY DEF Versions
<1>15. ReceivedAt(s, u, v, n, z, b)
  BY <1>13, <1>14, OneMoreReceived
<1> QED
  BY <1>4, <1>6, <1>15 DEF TakenOn

\* TLS 1.2: the key exchange, the change of cipher spec, Finished, requests.

\* TLS 1.2: client_key_exchange joins the server's transcript.
LEMMA TakesExchange12 ==
  ASSUME NEW v, v = "tls12", NEW n, NEW z, z \in Position, z.at = 4, NEW a, a = 1, NEW s,
         ServerAt(s, v, n, z, a), NEW b, b = 2, NEW r, r = Answer(v, n, b)
  PROVE  TakenOn(s, r, v, n, z, b)
<1>0. b = 2 /\ a = 1 /\ ~(a >= 4) /\ ~(b >= 4)
  OBVIOUS
<1>1. /\ r.type = "hs" /\ r.key = Plain /\ r.msgs = << Msg("CKE", None) >>
  BY <1>0 DEF Answer
<1>2. r.msgs[1] = Msg("CKE", None)
  BY <1>1
<1>5. /\ DOMAIN s = SrvFields /\ s.flight = Rest(v, z.at, a) /\ s.complete \in BOOLEAN
      /\ s.remoteKey = Key12("client", n) /\ s.hash = ServerHash(v, n, z.at, a) /\ s.ver = v
  BY DEF ServerAt, ServerKeys
<1>c. s.clientSeq = 0
  <2>1. s.clientSeq = IF a >= 4 THEN a - 3 ELSE 0
    BY DEF ServerAt, ServerCounts
  <2> QED
    BY <2>1, <1>0
<1>q. s.opening = FALSE
  <2>1. s.opening = (IF (v = "tls13" /\ z.at > 0) \/ (v = "tls12" /\ a >= 3) THEN TRUE ELSE FALSE)
    BY DEF ServerAt, ServerCounts
  <2>2. IF FALSE THEN v = "tls12" /\ a >= 3 ELSE v # "tls13" /\ ~(a >= 3)
    BY <1>0
  <2> QED
    BY <2>1, <2>2
<1>3. ClearFor(s, r)
  BY <1>1, <1>q DEF ClearFor, IsClear
<1>h. Append(s.hash, << "CKE" >>) = ServerHash(v, n, z.at, b)
  <2>1. ServerHash(v, n, z.at, a) = To12SHD(n) /\ ServerHash(v, n, z.at, b) = To12CKE(n)
    BY <1>0 DEF ServerHash, Second, Told
  <2> QED
    BY <1>5, <2>1 DEF To12CKE
<1>4. Accepts(s, r)
  BY <1>1, <1>2, <1>3, <1>5, <1>c, <1>h DEF Accepts, OpensFor, VerifiedFor, Msg
<1>6. PICK u : u = Taken(s, r)
  OBVIOUS
<1>7. u = HashedFor(s, r)
  BY <1>2, <1>5, <1>6 DEF Taken, Msg
<1>8. CountedFor(s, r) = [s EXCEPT !.clientSeq = s.clientSeq]
  BY <1>3 DEF CountedFor
<1>9. /\ SrvSame(s, u, {"clientSeq", "hash"}) /\ u.clientSeq = s.clientSeq
      /\ u.hash = Append(s.hash, << "CKE" >>)
  <2>1. Hashed(r.msgs[1]) = << "CKE" >>
    <3>1. r.msgs[1].name = "CKE"
      BY <1>2 DEF Msg
    <3> QED
      BY <3>1 DEF Hashed
  <2>2. HashedFor(s, r) = [CountedFor(s, r) EXCEPT !.hash = Append(CountedFor(s, r).hash, << "CKE" >>)]
    BY <2>1 DEF HashedFor
  <2> QED
    BY <1>5, <1>7, <1>8, <2>2 DEF SrvSame, SrvFields
<1>10. /\ SrvSame(s, u, {"clientSeq", "opening", "hash", "flight", "complete", "remoteKey"})
       /\ u.flight = s.flight /\ u.opening = s.opening /\ u.complete = s.complete /\ u.remoteKey = s.remoteKey
  BY <1>9 DEF SrvSame, SrvFields
<1>11. u.hash = ServerHash(v, n, z.at, b)
  BY <1>5, <1>9, <1>10, <1>h
<1>12. u.flight = Rest(v, z.at, b)
  <2>1. Rest(v, z.at, a) = Rest(v, z.at, b)
    <3>1. FlightEnd(v, a) = FlightEnd(v, b)
      BY <1>0 DEF FlightEnd
    <3> QED
      BY <3>1 DEF Rest
  <2> QED
    BY <1>5, <1>10, <2>1
<1>13. Turns(v, z.at, b)
  BY <1>0, PositionFacts DEF Turns
<1>14. u.clientSeq = IF b >= 4 THEN b - 3 ELSE 0
  BY <1>0, <1>9, <1>c
<1>15. u.opening = (IF (v = "tls13" /\ z.at > 0) \/ (v = "tls12" /\ b >= 3) THEN TRUE ELSE FALSE)
  <2>1. u.opening = FALSE
    BY <1>q, <1>9, <1>10
  <2>2. IF FALSE THEN v = "tls12" /\ b >= 3 ELSE v # "tls13" /\ ~(b >= 3)
    BY <1>0
  <2> QED
    BY <2>1, <2>2
<1>16. u.remoteKey = Key12("client", n) /\ v # "tls13" /\ u.complete = s.complete /\ u.complete \in BOOLEAN
  BY <1>5, <1>10
<1>17. OneMoreAt(s, u, v, n, z, b)
  BY <1>10, <1>11, <1>12, <1>13, <1>14, <1>15, <1>16 DEF OneMoreAt
<1>18. v \in Versions
  BY DEF Versions
<1>19. ReceivedAt(s, u, v, n, z, b)
  BY <1>17, <1>18, OneMoreReceived
<1> QED
  BY <1>4, <1>6, <1>19 DEF TakenOn

\* TLS 1.2: the client's change_cipher_spec, after which its records are sealed.
LEMMA TakesChange12 ==
  ASSUME NEW v, v = "tls12", NEW n, NEW z, z \in Position, z.at = 4, NEW a, a = 2, NEW s,
         ServerAt(s, v, n, z, a), NEW b, b = 3, NEW r, r = Answer(v, n, b)
  PROVE  TakenOn(s, r, v, n, z, b)
<1>0. b = 3 /\ a = 2 /\ ~(a >= 4) /\ ~(b >= 4)
  OBVIOUS
<1>1. /\ r.type = "ccs" /\ r.key = Plain /\ r.msgs = << Msg("CCS", None) >>
  BY <1>0 DEF Answer
<1>2. r.msgs[1] = Msg("CCS", None)
  BY <1>1
<1>5. /\ DOMAIN s = SrvFields /\ s.flight = Rest(v, z.at, a) /\ s.complete \in BOOLEAN
      /\ s.remoteKey = Key12("client", n) /\ s.hash = ServerHash(v, n, z.at, a) /\ s.ver = v
  BY DEF ServerAt, ServerKeys
<1>c. s.clientSeq = 0
  <2>1. s.clientSeq = IF a >= 4 THEN a - 3 ELSE 0
    BY DEF ServerAt, ServerCounts
  <2> QED
    BY <2>1, <1>0
<1>q. s.opening = FALSE
  <2>1. s.opening = (IF (v = "tls13" /\ z.at > 0) \/ (v = "tls12" /\ a >= 3) THEN TRUE ELSE FALSE)
    BY DEF ServerAt, ServerCounts
  <2>2. IF FALSE THEN v = "tls12" /\ a >= 3 ELSE v # "tls13" /\ ~(a >= 3)
    BY <1>0
  <2> QED
    BY <2>1, <2>2
<1>3. ClearFor(s, r)
  BY <1>1, <1>q DEF ClearFor, IsClear
<1>h. s.hash = ServerHash(v, n, z.at, b)
  <2>1. ServerHash(v, n, z.at, a) = To12CKE(n) /\ ServerHash(v, n, z.at, b) = To12CKE(n)
    BY <1>0 DEF ServerHash
  <2> QED
    BY <1>5, <2>1
<1>4. Accepts(s, r)
  BY <1>1, <1>2, <1>3, <1>5, <1>c, <1>h DEF Accepts, OpensFor, VerifiedFor, Msg
<1>6. PICK u : u = Taken(s, r)
  OBVIOUS
<1>7. u = [CountedFor(s, r) EXCEPT !.opening = TRUE]
  BY <1>2, <1>5, <1>6 DEF Taken, Msg
<1>8. CountedFor(s, r) = [s EXCEPT !.clientSeq = s.clientSeq]
  BY <1>3 DEF CountedFor
<1>9. /\ SrvSame(s, u, {"clientSeq", "opening"}) /\ u.clientSeq = s.clientSeq
      /\ u.opening = TRUE
  BY <1>5, <1>7, <1>8 DEF SrvSame, SrvFields
<1>10. /\ SrvSame(s, u, {"clientSeq", "opening", "hash", "flight", "complete", "remoteKey"})
       /\ u.hash = s.hash /\ u.flight = s.flight /\ u.complete = s.complete /\ u.remoteKey = s.remoteKey
  BY <1>9 DEF SrvSame, SrvFields
<1>11. u.hash = ServerHash(v, n, z.at, b)
  BY <1>5, <1>9, <1>10, <1>h
<1>12. u.flight = Rest(v, z.at, b)
  <2>1. Rest(v, z.at, a) = Rest(v, z.at, b)
    <3>1. FlightEnd(v, a) = FlightEnd(v, b)
      BY <1>0 DEF FlightEnd
    <3> QED
      BY <3>1 DEF Rest
  <2> QED
    BY <1>5, <1>10, <2>1
<1>13. Turns(v, z.at, b)
  BY <1>0, PositionFacts DEF Turns
<1>14. u.clientSeq = IF b >= 4 THEN b - 3 ELSE 0
  BY <1>0, <1>9, <1>c
<1>15. u.opening = (IF (v = "tls13" /\ z.at > 0) \/ (v = "tls12" /\ b >= 3) THEN TRUE ELSE FALSE)
  <2>1. u.opening = TRUE
    BY <1>q, <1>9, <1>10
  <2>2. IF TRUE THEN v = "tls12" /\ b >= 3 ELSE v # "tls13" /\ ~(b >= 3)
    BY <1>0
  <2> QED
    BY <2>1, <2>2
<1>16. u.remoteKey = Key12("client", n) /\ v # "tls13" /\ u.complete = s.complete /\ u.complete \in BOOLEAN
  BY <1>5, <1>10
<1>17. OneMoreAt(s, u, v, n, z, b)
  BY <1>10, <1>11, <1>12, <1>13, <1>14, <1>15, <1>16 DEF OneMoreAt
<1>18. v \in Versions
  BY DEF Versions
<1>19. ReceivedAt(s, u, v, n, z, b)
  BY <1>17, <1>18, OneMoreReceived
<1> QED
  BY <1>4, <1>6, <1>19 DEF TakenOn

\* TLS 1.2: the client's Finished, which starts the server's second flight.
LEMMA TakesFinished12 ==
  ASSUME NEW v, v = "tls12", NEW n, NEW z, z \in Position, z.at = 4, NEW a, a = 3, NEW s,
         ServerAt(s, v, n, z, a), NEW b, b = 4, NEW r, r = Answer(v, n, b)
  PROVE  TakenOn(s, r, v, n, z, b)
<1>0. b = 4 /\ a = 3 /\ ~(a >= 4) /\ b >= 4
  OBVIOUS
<1>1. /\ r.type = "hs" /\ r.key = Key12("client", n) /\ r.seq = 0
      /\ r.msgs = << Msg("Fin", Verify(Key12("client", n), To12CKE(n))) >>
  BY <1>0 DEF Answer
<1>2. r.msgs[1] = Msg("Fin", Verify(Key12("client", n), To12CKE(n)))
  BY <1>1
<1>5. /\ DOMAIN s = SrvFields /\ s.flight = Rest(v, z.at, a) /\ s.complete \in BOOLEAN
      /\ s.remoteKey = Key12("client", n) /\ s.hash = ServerHash(v, n, z.at, a) /\ s.ver = v
  BY DEF ServerAt, ServerKeys
<1>c. s.clientSeq = 0
  <2>1. s.clientSeq = IF a >= 4 THEN a - 3 ELSE 0
    BY DEF ServerAt, ServerCounts
  <2> QED
    BY <2>1, <1>0
<1>q. s.opening = TRUE
  <2>1. s.opening = (IF (v = "tls13" /\ z.at > 0) \/ (v = "tls12" /\ a >= 3) THEN TRUE ELSE FALSE)
    BY DEF ServerAt, ServerCounts
  <2>2. IF TRUE THEN v = "tls12" /\ a >= 3 ELSE v # "tls13" /\ ~(a >= 3)
    BY <1>0
  <2> QED
    BY <2>1, <2>2
<1>3. ~ClearFor(s, r)
  BY <1>1, <1>q DEF ClearFor, IsClear
<1>h. s.hash = To12CKE(n) /\ Append(s.hash, << "Fin" >>) = ServerHash(v, n, z.at, b)
  <2>1. ServerHash(v, n, z.at, a) = To12CKE(n) /\ ServerHash(v, n, z.at, b) = To12Fin(n)
    BY <1>0 DEF ServerHash, Second, Told
  <2> QED
    BY <1>5, <2>1 DEF To12Fin
<1>4. Accepts(s, r)
  BY <1>1, <1>2, <1>3, <1>5, <1>c, <1>h DEF Accepts, OpensFor, VerifiedFor, Msg
<1>6. PICK u : u = Taken(s, r)
  OBVIOUS
<1>7. u = [HashedFor(s, r) EXCEPT !.flight = << "CCS", "Fin" >>]
  BY <1>2, <1>5, <1>6 DEF Taken, Msg
<1>8. CountedFor(s, r) = [s EXCEPT !.clientSeq = s.clientSeq + 1]
  BY <1>3 DEF CountedFor
<1>9. /\ SrvSame(s, u, {"clientSeq", "hash", "flight"}) /\ u.clientSeq = s.clientSeq + 1
      /\ u.hash = Append(s.hash, << "Fin" >>) /\ u.flight = << "CCS", "Fin" >>
  <2>1. Hashed(r.msgs[1]) = << "Fin" >>
    <3>1. r.msgs[1].name = "Fin"
      BY <1>2 DEF Msg
    <3> QED
      BY <3>1 DEF Hashed
  <2>2. HashedFor(s, r) = [CountedFor(s, r) EXCEPT !.hash = Append(CountedFor(s, r).hash, << "Fin" >>)]
    BY <2>1 DEF HashedFor
  <2> QED
    BY <1>5, <1>7, <1>8, <2>2 DEF SrvSame, SrvFields
<1>10. /\ SrvSame(s, u, {"clientSeq", "opening", "hash", "flight", "complete", "remoteKey"})
       /\ u.opening = s.opening /\ u.complete = s.complete /\ u.remoteKey = s.remoteKey
  BY <1>9 DEF SrvSame, SrvFields
<1>11. u.hash = ServerHash(v, n, z.at, b)
  BY <1>5, <1>9, <1>10, <1>h
<1>12. u.flight = Rest(v, z.at, b)
  <2>1. FlightEnd(v, b) - z.at = 2
    BY <1>0 DEF FlightEnd
  <2>2. PICK names : names = Names(v)
    OBVIOUS
  <2>3. names[4 + 1] = "CCS" /\ names[4 + 2] = "Fin"
    BY <2>2 DEF Names, StateSeq
  <2>4. << "CCS", "Fin" >> = [i \in 1 .. 2 |-> names[4 + i]]
    <3>1. \A i \in 1 .. 2 : i = 1 \/ i = 2
      OBVIOUS
    <3>2. PICK f : f = << "CCS", "Fin" >>
      OBVIOUS
    <3>3. f = [i \in 1 .. 2 |-> f[i]]
      BY <3>2
    <3>4. \A i \in 1 .. 2 : f[i] = names[4 + i]
      BY <2>3, <3>1, <3>2
    <3> QED
      BY <3>2, <3>3, <3>4
  <2>5. << "CCS", "Fin" >> = Slice(names, 4, 2)
    BY <2>4 DEF Slice
  <2> QED
    BY <1>9, <2>1, <2>2, <2>5 DEF Rest
<1>13. Turns(v, z.at, b)
  BY <1>0, PositionFacts DEF Turns
<1>14. u.clientSeq = IF b >= 4 THEN b - 3 ELSE 0
  BY <1>0, <1>9, <1>c
<1>15. u.opening = (IF (v = "tls13" /\ z.at > 0) \/ (v = "tls12" /\ b >= 3) THEN TRUE ELSE FALSE)
  <2>1. u.opening = TRUE
    BY <1>q, <1>9, <1>10
  <2>2. IF TRUE THEN v = "tls12" /\ b >= 3 ELSE v # "tls13" /\ ~(b >= 3)
    BY <1>0
  <2> QED
    BY <2>1, <2>2
<1>16. u.remoteKey = Key12("client", n) /\ v # "tls13" /\ u.complete = s.complete /\ u.complete \in BOOLEAN
  BY <1>5, <1>10
<1>17. OneMoreAt(s, u, v, n, z, b)
  BY <1>10, <1>11, <1>12, <1>13, <1>14, <1>15, <1>16 DEF OneMoreAt
<1>18. v \in Versions
  BY DEF Versions
<1>19. ReceivedAt(s, u, v, n, z, b)
  BY <1>17, <1>18, OneMoreReceived
<1> QED
  BY <1>4, <1>6, <1>19 DEF TakenOn

\* TLS 1.2: a request.
LEMMA TakesRequest12 ==
  ASSUME NEW v, v = "tls12", NEW n, NEW z, z \in Position, z.at >= 4, NEW a, a \in Nat, a >= 4, NEW s,
         ServerAt(s, v, n, z, a), NEW b, b = a + 1, NEW r, r = Answer(v, n, b)
  PROVE  TakenOn(s, r, v, n, z, b)
<1>0. /\ b # 2 /\ b # 3 /\ b # 4 /\ b >= 4 /\ a >= 4 /\ b - 4 = a - 3
      /\ (a - 3) + 1 = b - 3 /\ a \notin {2, 3} /\ b \notin {2, 3} /\ a >= 3 /\ b >= 3 /\ ~(a < 4) /\ ~(b < 4)
  OBVIOUS
<1>1. /\ r.type = "data" /\ r.key = Key12("client", n) /\ r.seq = a - 3
      /\ r.msgs = << Msg("request", b - 4) >>
  BY <1>0 DEF Answer
<1>2. r.msgs[1] = Msg("request", b - 4)
  BY <1>1
<1>5. /\ DOMAIN s = SrvFields /\ s.flight = Rest(v, z.at, a) /\ s.complete \in BOOLEAN
      /\ s.remoteKey = Key12("client", n) /\ s.hash = ServerHash(v, n, z.at, a) /\ s.ver = v
  BY DEF ServerAt, ServerKeys
<1>c. s.clientSeq = a - 3
  <2>1. s.clientSeq = IF a >= 4 THEN a - 3 ELSE 0
    BY DEF ServerAt, ServerCounts
  <2> QED
    BY <2>1, <1>0
<1>q. s.opening = TRUE
  <2>1. s.opening = (IF (v = "tls13" /\ z.at > 0) \/ (v = "tls12" /\ a >= 3) THEN TRUE ELSE FALSE)
    BY DEF ServerAt, ServerCounts
  <2>2. IF TRUE THEN v = "tls12" /\ a >= 3 ELSE v # "tls13" /\ ~(a >= 3)
    BY <1>0
  <2> QED
    BY <2>1, <2>2
<1>3. ~ClearFor(s, r)
  BY <1>1, <1>q DEF ClearFor, IsClear
<1>h. s.hash = ServerHash(v, n, z.at, b)
  <2>1. ServerHash(v, n, z.at, a) = ServerHash(v, n, z.at, b)
    <3>1. Second(v, a) = Second(v, b)
      BY <1>0 DEF Second
    <3> QED
      BY <1>0, <3>1 DEF ServerHash
  <2> QED
    BY <1>5, <2>1
<1>4. Accepts(s, r)
  BY <1>1, <1>2, <1>3, <1>5, <1>c, <1>h DEF Accepts, OpensFor, VerifiedFor, Msg
<1>6. PICK u : u = Taken(s, r)
  OBVIOUS
<1>7. u = CountedFor(s, r)
  BY <1>2, <1>5, <1>6 DEF Taken, Msg
<1>8. CountedFor(s, r) = [s EXCEPT !.clientSeq = s.clientSeq + 1]
  BY <1>3 DEF CountedFor
<1>9. /\ SrvSame(s, u, {"clientSeq"}) /\ u.clientSeq = s.clientSeq + 1
      
  BY <1>5, <1>7, <1>8 DEF SrvSame, SrvFields
<1>10. /\ SrvSame(s, u, {"clientSeq", "opening", "hash", "flight", "complete", "remoteKey"})
       /\ u.hash = s.hash /\ u.flight = s.flight /\ u.opening = s.opening /\ u.complete = s.complete /\ u.remoteKey = s.remoteKey
  BY <1>9 DEF SrvSame, SrvFields
<1>11. u.hash = ServerHash(v, n, z.at, b)
  BY <1>5, <1>9, <1>10, <1>h
<1>12. u.flight = Rest(v, z.at, b)
  <2>1. Rest(v, z.at, a) = Rest(v, z.at, b)
    <3>1. FlightEnd(v, a) = FlightEnd(v, b)
      BY <1>0 DEF FlightEnd
    <3> QED
      BY <3>1 DEF Rest
  <2> QED
    BY <1>5, <1>10, <2>1
<1>13. Turns(v, z.at, b)
  BY <1>0, PositionFacts DEF Turns
<1>14. u.clientSeq = IF b >= 4 THEN b - 3 ELSE 0
  BY <1>0, <1>9, <1>c
<1>15. u.opening = (IF (v = "tls13" /\ z.at > 0) \/ (v = "tls12" /\ b >= 3) THEN TRUE ELSE FALSE)
  <2>1. u.opening = TRUE
    BY <1>q, <1>9, <1>10
  <2>2. IF TRUE THEN v = "tls12" /\ b >= 3 ELSE v # "tls13" /\ ~(b >= 3)
    BY <1>0
  <2> QED
    BY <2>1, <2>2
<1>16. u.remoteKey = Key12("client", n) /\ v # "tls13" /\ u.complete = s.complete /\ u.complete \in BOOLEAN
  BY <1>5, <1>10
<1>17. OneMoreAt(s, u, v, n, z, b)
  BY <1>10, <1>11, <1>12, <1>13, <1>14, <1>15, <1>16 DEF OneMoreAt
<1>18. v \in Versions
  BY DEF Versions
<1>19. ReceivedAt(s, u, v, n, z, b)
  BY <1>17, <1>18, OneMoreReceived
<1> QED
  BY <1>4, <1>6, <1>19 DEF TakenOn

\* The next record of the client is what the server expects.
LEMMA TakesNext ==
  ASSUME NEW v \in Versions, NEW n, NEW z, z \in Position, z.at >= Turn(v), NEW a, a \in Nat, a >= 1,
         NEW s, ServerAt(s, v, n, z, a), NEW b, b = a + 1, NEW r, r = Answer(v, n, b)
  PROVE  TakenOn(s, r, v, n, z, b)
<1>1. z.at \in 0 .. 6
  BY PositionFacts
<1>2. CASE v = "tls13"
  <2>1. z.at = 6
    BY <1>1, <1>2 DEF Turn
  <2>2. CASE a = 1
    <3>1. b = 2
      BY <2>2
    <3> QED
      BY <1>2, <2>1, <2>2, <3>1, TakesChange13
  <2>3. CASE a = 2
    <3>1. b = 3
      BY <2>3
    <3> QED
      BY <1>2, <2>1, <2>3, <3>1, TakesFinished13
  <2>4. CASE a >= 3
    BY <1>2, <2>1, <2>4, TakesRequest13
  <2> QED
    BY <2>2, <2>3, <2>4
<1>3. CASE v = "tls12"
  <2>1. z.at >= 4
    BY <1>1, <1>3 DEF Turn
  <2>2. Turns(v, z.at, a)
    BY DEF ServerAt
  <2>3. a < 4 => z.at = 4
    BY <1>1, <1>3, <2>1, <2>2 DEF Turns
  <2>4. CASE a = 1
    <3>1. b = 2 /\ z.at = 4
      BY <2>3, <2>4
    <3> QED
      BY <1>3, <2>4, <3>1, TakesExchange12
  <2>5. CASE a = 2
    <3>1. b = 3 /\ z.at = 4
      BY <2>3, <2>5
    <3> QED
      BY <1>3, <2>5, <3>1, TakesChange12
  <2>6. CASE a = 3
    <3>1. b = 4 /\ z.at = 4
      BY <2>3, <2>6
    <3> QED
      BY <1>3, <2>6, <3>1, TakesFinished12
  <2>7. CASE a >= 4
    BY <1>3, <2>1, <2>7, TakesRequest12
  <2> QED
    BY <2>4, <2>5, <2>6, <2>7
<1> QED
  BY <1>2, <1>3 DEF Versions

Takes(f, b, n, c, m) ==
  Head(Slice(f, b, n)) = f[c] /\ Tail(Slice(f, b, n)) = Slice(f, c, m)

\* Taking the first record of a slice leaves the rest of it.
LEMMA SliceTakes ==
  ASSUME NEW f, NEW b, b \in Nat, NEW n, n \in Nat \ {0}, NEW c, c = b + 1, NEW m, m = n - 1
  PROVE  Takes(f, b, n, c, m)
BY SliceTail DEF Takes

\* The server takes the next record of the client.
LEMMA ServerReceiveStep ==
  ASSUME TlsInv, ServerReceive
  PROVE  TlsInv'
<1>1. /\ link = "up" /\ toServer # << >> /\ srv.ver # None /\ Theirs /\ net' = net
      /\ toServer' = Tail(toServer)
  BY DEF ServerReceive, Theirs
<1>2. srv # NoServer
  BY <1>1 DEF NoServer
<1>3. PICK v \in Versions, x \in Position, k \in Nat, l \in Nat, g \in Nat, q \in BOOLEAN,
           z \in Position, e \in BOOLEAN, a \in Nat : ServedWith(v, x, k, l, g, q, z, e, a)
  BY <1>1, <1>2, Serves DEF IsServed
<1>4. /\ UpWith(v, x, k, l, g, q, z, e) /\ z.units = l
      /\ a \in 1 .. Answered(v, x.at, k) /\ ServerAt(srv, v, conns, z, a)
      /\ toServer = Slice(Answers(v, conns), a, Answered(v, x.at, k) - a)
      /\ (e \/ q) => srv.notified = TRUE
  BY <1>3 DEF ServedWith
<1>5. /\ ClientPart(cl, got, srv.sent, conns, v, x, k, l, g, q)
      /\ CallPart(call, status, v, x) /\ k = sends
      /\ Wire(cl.recvBuf, net, v, conns, x, z, e)
  BY <1>4 DEF UpWith, OnWire
<1>6. PICK f, t : f = Answers(v, conns) /\ t = Answered(v, x.at, k)
  OBVIOUS
<1>7. t \in Nat /\ a \in 1 .. t
  BY <1>4, <1>6, PositionFacts DEF Answered
<1>8. PICK m : m = t - a
  OBVIOUS
<1>9. m \in Nat \ {0}
  <2>1. m \in Nat
    BY <1>7, <1>8
  <2>2. Slice(f, a, 0) = << >>
    <3>1. 0 \in Nat
      OBVIOUS
    <3> QED
      BY <3>1, SliceProperties
  <2>3. m # 0
    BY <1>1, <1>4, <1>6, <1>8, <2>2
  <2> QED
    BY <2>1, <2>3
<1>10. PICK b, j : b = a + 1 /\ j = m - 1
  OBVIOUS
<1>11. Takes(f, a, m, b, j)
  BY <1>9, <1>10, SliceTakes
<1>12. Head(toServer) = f[b] /\ Tail(toServer) = Slice(f, b, j)
  BY <1>4, <1>6, <1>8, <1>11 DEF Takes
<1>13. b \in 1 .. t /\ j = t - b /\ b \in Nat /\ t >= 2
  BY <1>7, <1>8, <1>9, <1>10
<1>14. PICK r : r = Head(toServer)
  OBVIOUS
<1>15. r = Answer(v, conns, b)
  BY <1>6, <1>12, <1>13, <1>14 DEF Answers
<1>16. x.at >= Turn(v)
  <2>1. x.at < Turn(v) => t = 1
    BY <1>6 DEF Answered
  <2>2. x.at \in Nat /\ Turn(v) \in Nat
    BY PositionFacts DEF Turn
  <2> QED
    BY <1>13, <2>1, <2>2
<1>17. z.at >= Turn(v)
  <2>1. x.at <= z.at
    BY <1>5, WireEnds
  <2>2. x.at \in Nat /\ z.at \in Nat /\ Turn(v) \in Nat
    BY PositionFacts DEF Turn
  <2> QED
    BY <1>16, <2>1, <2>2
<1>18. TakenOn(srv, r, v, conns, z, b)
  BY <1>4, <1>7, <1>10, <1>15, <1>17, TakesNext
<1>19. srv' = Taken(srv, r) /\ link' = link
  BY <1>14, <1>18, ReceiveAccepted DEF TakenOn
<1>20. ServerAt(srv', v, conns, z, b) /\ srv'.sent = srv.sent /\ srv'.notified = srv.notified
  BY <1>18, <1>19 DEF TakenOn, ReceivedAt
<1>21. Serving(toServer', srv', conns, v, x, k, z)
  BY <1>1, <1>6, <1>12, <1>13, <1>20 DEF Serving
<1>22. OnWire(cl.recvBuf, net', toServer', srv', link', conns, v, x, k, l, q, z, e)
  BY <1>1, <1>4, <1>5, <1>20, <1>21 DEF OnWire
<1>23. LinkPart(cl.recvBuf, net', toServer', srv', link', sends, conns, v, x, k, l, q)
  BY <1>1, <1>5, <1>19, <1>22 DEF LinkPart
<1>24. DOMAIN srv' = SrvFields /\ srv'.rejected = FALSE
  BY <1>20 DEF ServerAt
<1>25. ClientPart(cl, got, srv'.sent, conns, v, x, k, l, g, q)
  BY <1>5, <1>20
<1> QED
  BY <1>1, <1>5, <1>23, <1>24, <1>25, StaysConnected

(* --------------------------- calls of the client ---------------------------- *)

\* A client that has closed itself, with what its call leaves behind.
Shut(c, err) ==
  /\ \E o : c = [ClosedClient(err) EXCEPT !.out = o]
  /\ err \in Errors /\ Settle(c) /\ net' = << >> /\ call' = Idle
  /\ status' \in {"down", "end", "error"} /\ UNCHANGED << conns, sends >>

\* A call that closes the client.
LEMMA Shuts ==
  ASSUME TlsInv, NEW c, NEW err, Shut(c, err)
  PROVE  TlsInv'
<1>1. PICK o, t : c = [t EXCEPT !.out = o] /\ t = ClosedClient(err)
  BY DEF Shut
<1>2. /\ DOMAIN t = Fields /\ t.err = err /\ t.sock = FALSE
      /\ t = [sock |-> FALSE, idx |-> 0, cipher |-> None, encoding |-> FALSE,
              clientRand |-> 0, serverRand |-> 0, clientSeq |-> 0, serverSeq |-> 0,
              localKey |-> Plain, remoteKey |-> Plain, hash |-> << >>, recvBuf |-> << >>,
              channel |-> << >>, readed |-> 0, closeNotify |-> FALSE, out |-> << >>,
              err |-> err]
  BY <1>1 DEF ClosedClient, Fields
<1>3. c.sock = FALSE /\ c.err = err
  BY <1>1, <1>2 DEF Fields
<1>4. [c EXCEPT !.out = << >>, !.err = None] = ClosedClient(None)
  <2>1. PICK u, w : u = ClosedClient(None) /\ w = [c EXCEPT !.out = << >>, !.err = None]
    OBVIOUS
  <2>2. /\ DOMAIN u = Fields /\ u.err = None /\ u.out = << >>
        /\ u = [f \in Fields |-> u[f]]
    BY <2>1 DEF ClosedClient, Fields
  <2>3. \A f \in Fields \ {"err"} : t[f] = u[f]
    <3>1. /\ t.sock = FALSE /\ t.idx = 0 /\ t.cipher = None /\ t.encoding = FALSE
          /\ t.clientRand = 0 /\ t.serverRand = 0 /\ t.clientSeq = 0 /\ t.serverSeq = 0
          /\ t.localKey = Plain /\ t.remoteKey = Plain /\ t.hash = << >> /\ t.recvBuf = << >>
          /\ t.channel = << >> /\ t.readed = 0 /\ t.closeNotify = FALSE /\ t.out = << >>
      BY <1>2
    <3>2. /\ u.sock = FALSE /\ u.idx = 0 /\ u.cipher = None /\ u.encoding = FALSE
          /\ u.clientRand = 0 /\ u.serverRand = 0 /\ u.clientSeq = 0 /\ u.serverSeq = 0
          /\ u.localKey = Plain /\ u.remoteKey = Plain /\ u.hash = << >> /\ u.recvBuf = << >>
          /\ u.channel = << >> /\ u.readed = 0 /\ u.closeNotify = FALSE /\ u.out = << >>
      BY <2>1 DEF ClosedClient
    <3> QED
      BY <3>1, <3>2 DEF Fields
  <2>4. DOMAIN w = Fields /\ w.err = None /\ w.out = << >> /\ w = [f \in Fields |-> w[f]]
    BY <1>1, <1>2, <2>1 DEF Fields
  <2>5. \A f \in Fields \ {"err", "out"} : w[f] = t[f]
    BY <1>1, <1>2, <2>1 DEF Fields
  <2>6. \A f \in Fields : w[f] = u[f]
    BY <2>2, <2>3, <2>4, <2>5
  <2>7. w = u
    BY <2>2, <2>4, <2>6
  <2> QED
    BY <2>1, <2>7
<1>5. /\ cl' = [c EXCEPT !.out = << >>, !.err = None]
      /\ error' = IF c.err = None THEN error ELSE c.err
      /\ link' = (IF c.sock THEN link ELSE "down")
      /\ srv' = (IF c.sock THEN srv ELSE Gone(srv))
      /\ toServer' = (IF link = "up" /\ c.sock THEN toServer \o c.out ELSE << >>)
  BY DEF Shut, Settle
<1>6. cl' = ClosedClient(None) /\ link' = "down" /\ srv' = Gone(srv) /\ toServer' = << >>
  BY <1>3, <1>4, <1>5
<1>7. error' \in Errors
  BY <1>3, <1>5 DEF TlsInv, Base, Shut
<1>8. DOMAIN srv' = SrvFields /\ srv'.rejected = FALSE
  <2>1. srv.rejected = FALSE
    BY DEF TlsInv, Base
  <2> QED
    BY <1>6, <2>1, GoneFacts
<1>9. Base'
  BY <1>7, <1>8 DEF TlsInv, Base, Shut
<1>10. Closed'
  BY <1>6 DEF Closed, Shut
<1> QED
  BY <1>9, <1>10 DEF TlsInv

\* A closed client may be written with any records it sent.
LEMMA NothingSent ==
  ASSUME NEW err
  PROVE  \E o : ClosedClient(err) = [ClosedClient(err) EXCEPT !.out = o]
<1>1. PICK t : t = ClosedClient(err)
  OBVIOUS
<1>2. t.out = << >>
  BY <1>1 DEF ClosedClient
<1>3. t = [t EXCEPT !.out = t.out]
  BY <1>1 DEF ClosedClient
<1> QED
  BY <1>1, <1>3

\* A call that closes the client without an error.
LEMMA ClosesQuietly ==
  ASSUME TlsInv, Settle(ClosedClient(None)), net' = << >>, call' = Idle,
         status' \in {"down", "end", "error"}, UNCHANGED << conns, sends >>
  PROVE  TlsInv'
<1>1. PICK c, err : err = None /\ c = ClosedClient(err)
  OBVIOUS
<1>2. \E o : c = [ClosedClient(err) EXCEPT !.out = o]
  BY <1>1, NothingSent
<1>3. err \in Errors
  BY <1>1 DEF Errors
<1>4. Shut(c, err)
  BY <1>1, <1>2, <1>3 DEF Shut
<1> QED
  BY <1>4, Shuts

\* The step close.
LEMMA CloseStep ==
  ASSUME TlsInv, Close
  PROVE  TlsInv'
BY ClosesQuietly DEF Close

\* The step of an open that does not connect.
LEMMA OpenFailsStep ==
  ASSUME TlsInv, OpenFails
  PROVE  TlsInv'
<1>1. DOMAIN NoServer = SrvFields /\ NoServer.rejected = FALSE
  BY DEF NoServer, SrvFields
<1>2. conns' \in Nat /\ sends' \in Nat
  BY DEF TlsInv, Base, OpenFails
<1>3. Base'
  BY <1>1, <1>2 DEF OpenFails, Base, Errors
<1>4. Closed'
  BY DEF OpenFails, Closed
<1> QED
  BY <1>3, <1>4 DEF TlsInv

\* The client and its connection stay as they are.
LEMMA CallGoesOn ==
  ASSUME TlsInv, Connected,
         UNCHANGED << cl, conns, sends, got, error, net, toServer, link, srv >>,
         \A v \in Versions, x \in Position : CallPart(call, status, v, x) => CallPart(call', status', v, x)
  PROVE  TlsInv'
<1>1. Base'
  BY DEF TlsInv, Base
<1>2. PICK v \in Versions, x \in Position, k \in Nat, l \in Nat, g \in Nat, q \in BOOLEAN :
           /\ ClientPart(cl, got, srv.sent, conns, v, x, k, l, g, q)
           /\ CallPart(call, status, v, x)
           /\ LinkPart(cl.recvBuf, net, toServer, srv, link, sends, conns, v, x, k, l, q)
  BY DEF Connected
<1>3. CallPart(call', status', v, x)
  BY <1>2
<1>4. Connected'
  BY <1>2, <1>3 DEF Connected
<1> QED
  BY <1>1, <1>4 DEF TlsInv

\* A call that goes on, or a caller told "up", has a connection.
LEMMA UpConnected ==
  ASSUME TlsInv, status = "up" \/ call # Idle
  PROVE  Connected
BY DEF TlsInv, Closed

\* The step of a recv that times out.
LEMMA RecvTimeoutStep ==
  ASSUME TlsInv, RecvTimeout
  PROVE  TlsInv'
<1>1. Connected
  BY UpConnected DEF RecvTimeout, Receiving
<1>2. ASSUME NEW v \in Versions, NEW x \in Position, CallPart(call, status, v, x)
      PROVE  CallPart(call', status', v, x)
  BY <1>2 DEF RecvTimeout, Receiving, CallPart, Idle, Opening
<1> QED
  BY <1>1, <1>2, CallGoesOn DEF RecvTimeout

\* The step of a recv that ends the stream or begins to wait.
LEMMA RecvStep ==
  ASSUME TlsInv, NEW size \in ReadSizes, Recv(size)
  PROVE  TlsInv'
<1>1. CASE cl.closeNotify /\ ~Unread(cl)
  BY <1>1, ClosesQuietly DEF Recv
<1>2. CASE ~(cl.closeNotify /\ ~Unread(cl))
  <2>1. /\ call' = << "recv", size >> /\ status = "up" /\ call = Idle /\ status' = status
        /\ UNCHANGED << cl, conns, sends, got, error, net, toServer, link, srv >>
    BY <1>2 DEF Recv
  <2>2. Connected
    BY <2>1, UpConnected
  <2>3. ASSUME NEW v \in Versions, NEW x \in Position, CallPart(call, status, v, x)
        PROVE  CallPart(call', status', v, x)
    BY <2>1, <2>3 DEF CallPart, Idle, Opening
  <2> QED
    BY <2>1, <2>2, <2>3, CallGoesOn
<1> QED
  BY <1>1, <1>2

\* The client that has said hello.
Greets(d, n, o) ==
  /\ DOMAIN d = Fields /\ d.sock = TRUE /\ d.idx = 0 /\ d.cipher = None /\ d.encoding = FALSE
  /\ d.clientRand = n /\ d.clientSeq = 0 /\ d.serverSeq = 0 /\ d.hash = Start(n)
  /\ d.recvBuf = << >> /\ d.channel = << >> /\ d.readed = 0 /\ d.closeNotify = FALSE
  /\ d.out = << Hello(n, o) >> /\ d.err = None

\* What send_client_hello leaves of a fresh object.
LEMMA Greeting ==
  ASSUME NEW o, NEW n, NEW c, c = [[ClosedClient(None) EXCEPT !.sock = TRUE] EXCEPT !.clientRand = n],
         NEW d, NEW msg, msg = Msg("CH", [rand |-> n, offer |-> o]), d = SendPacket(c, "up", "hs", msg)
  PROVE  Greets(d, n, o)
<1>1. PICK t : t = ClosedClient(None)
  OBVIOUS
<1>2. /\ DOMAIN t = Fields /\ t.sock = FALSE /\ t.idx = 0 /\ t.cipher = None /\ t.encoding = FALSE
      /\ t.clientSeq = 0 /\ t.serverSeq = 0 /\ t.hash = << >>
      /\ t.recvBuf = << >> /\ t.channel = << >> /\ t.readed = 0 /\ t.closeNotify = FALSE
      /\ t.out = << >> /\ t.err = None
  BY <1>1 DEF ClosedClient, Fields
<1>3. /\ DOMAIN c = Fields /\ c.sock = TRUE /\ c.idx = 0 /\ c.cipher = None /\ c.encoding = FALSE
      /\ c.clientRand = n /\ c.clientSeq = 0 /\ c.serverSeq = 0 /\ c.hash = << >>
      /\ c.recvBuf = << >> /\ c.channel = << >> /\ c.readed = 0 /\ c.closeNotify = FALSE
      /\ c.out = << >> /\ c.err = None
  BY <1>1, <1>2 DEF Fields
<1>4. PICK on, type, r : /\ on = "up" /\ type = "hs"
                         /\ r = [outer |-> type, type |-> type, msgs |-> << msg >>, key |-> Plain, seq |-> 0]
  OBVIOUS
<1>5. Sent(c, SendPacket(c, on, type, msg), r, type, msg)
  <2>1. on # "broken"
    BY <1>4
  <2> QED
    BY <1>3, <1>4, <2>1, SendingClear
<1>6. Sent(c, d, r, type, msg)
  BY <1>4, <1>5
<1>7. Same(c, d, {"out", "hash", "clientSeq"}) /\ d.out = Append(c.out, r)
      /\ d.hash = Append(c.hash, Hashed(msg)) /\ d.clientSeq = c.clientSeq
  BY <1>4, <1>6 DEF Sent
<1>8. r = Hello(n, o)
  BY <1>4 DEF Hello
<1>9. Hashed(msg) = << "CH", n >>
  BY DEF Hashed, Msg
<1>10. d.out = << Hello(n, o) >> /\ d.hash = Start(n) /\ d.clientSeq = 0
  BY <1>3, <1>7, <1>8, <1>9 DEF Start
<1>11. /\ DOMAIN d = Fields /\ d.sock = c.sock /\ d.idx = c.idx /\ d.cipher = c.cipher
       /\ d.encoding = c.encoding /\ d.clientRand = c.clientRand /\ d.serverSeq = c.serverSeq
       /\ d.recvBuf = c.recvBuf /\ d.channel = c.channel /\ d.readed = c.readed
       /\ d.closeNotify = c.closeNotify /\ d.err = c.err
  BY <1>7 DEF Same, Fields
<1> QED
  BY <1>3, <1>10, <1>11, ZenonT(60) DEF Greets

Fresh(c, v, n, x) == Client(c, v, n, x, 1, 0, 0, FALSE)

\* A client that has sent its hello is at the first position.
LEMMA FreshClient ==
  ASSUME NEW d, NEW n, NEW o, Greets(d, n, o), NEW c, c = [d EXCEPT !.out = << >>],
         NEW v, v = "tls12", NEW x, x \in Position, x.at = 0, x.seq = 0, x.units = 0
  PROVE  Fresh(c, v, n, x)
<1>1. /\ DOMAIN c = Fields /\ c.sock = TRUE /\ c.idx = 0 /\ c.cipher = None /\ c.encoding = FALSE
      /\ c.clientRand = n /\ c.clientSeq = 0 /\ c.serverSeq = 0 /\ c.hash = Start(n)
      /\ c.channel = << >> /\ c.readed = 0 /\ c.closeNotify = FALSE
      /\ c.out = << >> /\ c.err = None
  BY DEF Greets, Fields
<1>2. ClientAt(c, v, n, x)
  <2>1. ~(v = "tls12" /\ x.at > 4) /\ ~(x.at >= 4)
    OBVIOUS
  <2>2. Seen(v, n, x.at) = Start(n)
    BY DEF Seen
  <2>3. c.encoding = (IF x.at >= (IF v = "tls12" THEN 4 ELSE 1) THEN TRUE ELSE FALSE)
    BY <1>1, <2>1
  <2> QED
    BY <1>1, <2>1, <2>2, <2>3 DEF ClientAt
<1>3. ClientKeys(c, v, n, x)
  BY DEF ClientKeys
<1>4. Sending(c, v, n, x, 1, 0)
  <2>1. Answered(v, x.at, 0) = 1 /\ x.at < Turn(v) /\ ~(x.at >= Turn(v))
    BY DEF Answered, Turn
  <2>2. 1 \in Nat /\ 0 \in Nat
    OBVIOUS
  <2>3. Slice(Answers(v, n), 1, 0) = << >>
    BY <2>2, SliceProperties
  <2>4. Answered(v, x.at, 0) - 1 = 0 /\ 1 <= Answered(v, x.at, 0)
    BY <2>1
  <2>5. c.out = Slice(Answers(v, n), 1, Answered(v, x.at, 0) - 1)
    BY <1>1, <2>3, <2>4
  <2> QED
    BY <1>1, <2>1, <2>4, <2>5 DEF Sending
<1>5. Holds(c, n, 0, x)
  <2>1. 0 \in Nat
    OBVIOUS
  <2>2. Slice(Units(n), 0, 0) = << >>
    BY <2>1, SliceProperties
  <2>3. 0 - c.readed = 0 /\ x.units - 0 = 0 /\ c.readed \in 0 .. 0 /\ 0 <= x.units
    BY <1>1
  <2>4. c.channel = Slice(Units(n), 0 - c.readed, x.units - (0 - c.readed))
    BY <1>1, <2>2, <2>3
  <2> QED
    BY <2>3, <2>4 DEF Holds
<1> QED
  BY <1>1, <1>2, <1>3, <1>4, <1>5 DEF Fresh, Client

\* The step open.
LEMMA OpenStep ==
  ASSUME TlsInv, NEW offer \in Offers, Open(offer)
  PROVE  TlsInv'
<1>1. PICK n, msg : n = conns + 1 /\ msg = Msg("CH", [rand |-> n, offer |-> offer])
  OBVIOUS
<1>2. PICK c : c = [[ClosedClient(None) EXCEPT !.sock = TRUE] EXCEPT !.clientRand = n]
  OBVIOUS
<1>3. PICK d : d = SendPacket(c, "up", "hs", msg)
  OBVIOUS
<1>4. cl' = [d EXCEPT !.out = << >>] /\ toServer' = d.out
  BY <1>1, <1>2, <1>3 DEF Open, SendClientHello
<1>5. /\ call' = Opening /\ status' = "down" /\ link' = "up" /\ conns' = n /\ sends' = 0
      /\ got' = << >> /\ net' = << >> /\ srv' = NoServer /\ error' = None /\ n \in Nat
  BY <1>1 DEF Open, TlsInv, Base
<1>6. Greets(d, n, offer)
  BY <1>1, <1>2, <1>3, Greeting
<1>7. PICK v, x : v = "tls12" /\ x = [at |-> 0, seq |-> 0, units |-> 0]
  OBVIOUS
<1>8. v \in Versions /\ x \in Position /\ x.at = 0 /\ x.seq = 0 /\ x.units = 0
  BY <1>7 DEF Versions, Position
<1>9. Fresh(cl', v, n, x)
  BY <1>4, <1>6, <1>7, <1>8, FreshClient
<1>10. PICK k, q : k = 0 /\ q = FALSE
  OBVIOUS
<1>11. k \in Nat /\ q \in BOOLEAN
  BY <1>10
<1>12. NoServer.sent = << >> /\ NoServer.rejected = FALSE /\ DOMAIN NoServer = SrvFields
  BY DEF NoServer, SrvFields
<1>13. ClientPart(cl', got', srv'.sent, conns', v, x, k, k, k, q)
  <2>1. Answered(v, x.at, k) = 1
    BY <1>7, <1>8 DEF Answered, Turn
  <2>2. Slice(Units(n), 0, k) = << >>
    <3>1. 0 \in Nat
      OBVIOUS
    <3> QED
      BY <1>10, <3>1, SliceProperties
  <2>3. Client(cl', v, n, x, Answered(v, x.at, k), k, k, q)
    BY <1>9, <1>10, <2>1 DEF Fresh
  <2>4. x.units <= k /\ (q => x.units = k)
    BY <1>8, <1>10
  <2> QED
    BY <1>5, <1>12, <2>2, <2>3, <2>4 DEF ClientPart
<1>14. CallPart(call', status', v, x)
  BY <1>5 DEF CallPart
<1>15. Waiting(cl'.recvBuf, net', toServer', srv', conns', x, x)
  <2>1. cl'.recvBuf = << >>
    BY <1>4, <1>6 DEF Greets, Fields
  <2>2. toServer' = << Hello(n, offer) >>
    BY <1>4, <1>6 DEF Greets
  <2> QED
    BY <1>5, <1>8, <2>1, <2>2 DEF Waiting
<1>16. Wire(cl'.recvBuf, net', v, conns', x, x, q)
  <2>1. PICK a, b : a = cl'.recvBuf /\ b = net'
    OBVIOUS
  <2>2. a = << >> /\ b = << >>
    BY <1>15, <2>1 DEF Waiting
  <2>3. Wire(a, b, v, n, x, x, FALSE)
    BY <1>8, <2>2, EmptyWire
  <2> QED
    BY <1>5, <1>10, <2>1, <2>3
<1>17. OnWire(cl'.recvBuf, net', toServer', srv', link', conns', v, x, k, k, q, x, q)
  <2>1. x.units = k /\ ~(q \/ q)
    BY <1>8, <1>10
  <2> QED
    BY <1>15, <1>16, <2>1 DEF OnWire
<1>18. LinkPart(cl'.recvBuf, net', toServer', srv', link', sends', conns', v, x, k, k, q)
  BY <1>5, <1>8, <1>10, <1>11, <1>17 DEF LinkPart
<1>19. Connected'
  BY <1>8, <1>11, <1>13, <1>14, <1>18 DEF Connected
<1>20. Base'
  BY <1>5, <1>12 DEF TlsInv, Base, Errors
<1> QED
  BY <1>19, <1>20 DEF TlsInv

\* One turn of process_recv: the client is closed, or it has come from x to y.
ShutDown(o) ==
  /\ \E err \in {"disconnected", "fatal alert"} : \E out : o.client = [ClosedClient(err) EXCEPT !.out = out]
  /\ o.rest = << >>
CameFrom(v, x, k, l, g, q, z, e) ==
  /\ ClientPart(cl, got, srv.sent, conns, v, x, k, l, g, q)
  /\ CallPart(call, status, v, x) /\ k = sends /\ link \in {"up", "fin"} /\ net # << >>
  /\ OnWire(cl.recvBuf, net, toServer, srv, link, conns, v, x, k, l, q, z, e)
CameTo(d, rest, v, x, k, g, q, y, p, z, e) ==
  /\ Client(d, v, conns, y, Answered(v, x.at, k), k, g, p)
  /\ Wire(d.recvBuf, rest, v, conns, y, z, e)
  /\ x.at <= y.at /\ y.units <= z.units
  /\ p => y.units = z.units /\ (q \/ e)
CameOn(o) ==
  \E v \in Versions, x \in Position, k, l, g \in Nat, q \in BOOLEAN, z \in Position, e \in BOOLEAN :
    \E y \in Position, p \in BOOLEAN :
      CameFrom(v, x, k, l, g, q, z, e) /\ CameTo(o.client, o.rest, v, x, k, g, q, y, p, z, e)

TurnOf(o) ==
  \/ \E n \in 1 .. Len(net) : \E misread :
       /\ o.client = ProcessRecv(cl, n, misread)
       /\ o.rest = IF o.client.sock THEN SubSeq(net, n + 1, Len(net)) ELSE << >>
  \/ o.client = ClosedClient("disconnected") /\ o.rest = << >>

\* What one turn of process_recv can be.
LEMMA Turned ==
  ASSUME NEW o \in Outcomes
  PROVE  TurnOf(o)
<1>1. CASE \E n \in { k \in 1 .. RecvMax : k <= Len(net) },
              misread \in IF \E i \in 1 .. Len(net) : net[i].outer = "alert" /\ net[i].key # Plain
                          THEN {"close_notify", "fatal", "warning"} ELSE {"warning"} :
             o = LET c == ProcessRecv(cl, n, misread)
                 IN  [client |-> c, rest |-> IF c.sock THEN SubSeq(net, n + 1, Len(net)) ELSE << >>]
  <2>1. PICK n \in { k \in 1 .. RecvMax : k <= Len(net) }, misread \in
                   IF \E i \in 1 .. Len(net) : net[i].outer = "alert" /\ net[i].key # Plain
                          THEN {"close_notify", "fatal", "warning"} ELSE {"warning"} :
             o = LET c == ProcessRecv(cl, n, misread)
                 IN  [client |-> c, rest |-> IF c.sock THEN SubSeq(net, n + 1, Len(net)) ELSE << >>]
    BY <1>1
  <2>2. /\ o.client = ProcessRecv(cl, n, misread)
        /\ o.rest = IF o.client.sock THEN SubSeq(net, n + 1, Len(net)) ELSE << >>
    BY <2>1
  <2>3. n \in 1 .. RecvMax /\ n <= Len(net)
    BY <2>1
  <2>4. n \in 1 .. Len(net)
    BY <2>3, TlsAssumption
  <2> QED
    BY <2>2, <2>4 DEF TurnOf
<1>2. CASE o \in { [client |-> ClosedClient("disconnected"), rest |-> << >>] :
                   x \in { y \in {"fin", "broken"} : net = << >> /\ link = y } }
  BY <1>2 DEF TurnOf
<1> QED
  BY <1>1, <1>2 DEF Outcomes

\* One turn closes the client, or brings it further along the wire.
LEMMA Heard ==
  ASSUME TlsInv, Connected, NEW o \in Outcomes
  PROVE  ShutDown(o) \/ CameOn(o)
<1>1. CASE o.client = ClosedClient("disconnected") /\ o.rest = << >>
  <2>1. PICK err : err = "disconnected"
    OBVIOUS
  <2>2. \E out : ClosedClient(err) = [ClosedClient(err) EXCEPT !.out = out]
    BY NothingSent
  <2> QED
    BY <1>1, <2>1, <2>2 DEF ShutDown
<1>2. CASE \E n \in 1 .. Len(net) : \E misread :
             /\ o.client = ProcessRecv(cl, n, misread)
             /\ o.rest = IF o.client.sock THEN SubSeq(net, n + 1, Len(net)) ELSE << >>
  <2>0. PICK n \in 1 .. Len(net) : \E misread :
             /\ o.client = ProcessRecv(cl, n, misread)
             /\ o.rest = IF o.client.sock THEN SubSeq(net, n + 1, Len(net)) ELSE << >>
    BY <1>2
  <2>1. PICK misread :
             /\ o.client = ProcessRecv(cl, n, misread)
             /\ o.rest = IF o.client.sock THEN SubSeq(net, n + 1, Len(net)) ELSE << >>
    BY <2>0
  <2>2. PICK v \in Versions, x \in Position, k \in Nat, l \in Nat, g \in Nat, q \in BOOLEAN :
           /\ ClientPart(cl, got, srv.sent, conns, v, x, k, l, g, q)
           /\ CallPart(call, status, v, x)
           /\ LinkPart(cl.recvBuf, net, toServer, srv, link, sends, conns, v, x, k, l, q)
    BY DEF Connected
  <2>3. net # << >>
    BY <2>1
  <2>4. link \in {"up", "fin"} /\ k = sends
    BY <2>2, <2>3 DEF LinkPart
  <2>5. PICK z \in Position, e \in BOOLEAN : OnWire(cl.recvBuf, net, toServer, srv, link, conns, v, x, k, l, q, z, e)
    BY <2>2, <2>4 DEF LinkPart
  <2>6. CameFrom(v, x, k, l, g, q, z, e)
    BY <2>2, <2>3, <2>4, <2>5 DEF CameFrom
  <2>7. Wire(cl.recvBuf, net, v, conns, x, z, e) /\ z.units = l
    BY <2>5 DEF OnWire
  <2>8. PICK b : b = Answered(v, x.at, k)
    OBVIOUS
  <2>9. b \in Nat
    BY <2>8, PositionFacts DEF Answered
  <2>10. Client(cl, v, conns, x, b, k, g, q) /\ (q => x.units = z.units)
    BY <2>2, <2>7, <2>8 DEF ClientPart
  <2>11. conns \in Nat /\ link # "broken"
    BY <2>4 DEF TlsInv, Base
  <2>n. PICK n1, d : n1 = conns /\ d = cl
    OBVIOUS
  <2>m. ReceivedTo(d, n, misread, v, n1, x, z, e, b, k, g, q)
    BY <2>1, <2>7, <2>9, <2>10, <2>11, <2>n, Received, ZenonT(60)
  <2>12. \/ Onward(ProcessRecv(cl, n, misread), SubSeq(net, n + 1, Len(net)), v, conns, x, z, e, b, k, g, q)
         \/ \E out : ProcessRecv(cl, n, misread) = [ClosedClient("fatal alert") EXCEPT !.out = out]
    BY <2>m, <2>n DEF ReceivedTo
  <2>13. CASE \E out : ProcessRecv(cl, n, misread) = [ClosedClient("fatal alert") EXCEPT !.out = out]
    <3>1. o.client.sock = FALSE
      <4>1. PICK out, err : err = "fatal alert" /\ o.client = [ClosedClient(err) EXCEPT !.out = out]
        BY <2>1, <2>13
      <4> QED
        BY <4>1 DEF ClosedClient
    <3> QED
      BY <2>1, <2>13, <3>1 DEF ShutDown
  <2>14. CASE Onward(ProcessRecv(cl, n, misread), SubSeq(net, n + 1, Len(net)), v, conns, x, z, e, b, k, g, q)
    <3>1. PICK y \in Position, p \in BOOLEAN :
            /\ Client(o.client, v, conns, y, b, k, g, p)
            /\ Wire(o.client.recvBuf, SubSeq(net, n + 1, Len(net)), v, conns, y, z, e)
            /\ x.at <= y.at /\ y.units <= z.units
            /\ p => y.units = z.units /\ (q \/ e)
      BY <2>1, <2>14 DEF Onward
    <3>2. o.client.sock = TRUE
      BY <3>1 DEF Client
    <3>3. o.rest = SubSeq(net, n + 1, Len(net))
      BY <2>1, <3>2
    <3>4. CameTo(o.client, o.rest, v, x, k, g, q, y, p, z, e)
      BY <2>8, <3>1, <3>3 DEF CameTo
    <3> QED
      BY <2>6, <3>4, SMTT(30) DEF CameOn
  <2> QED
    BY <2>12, <2>13, <2>14
<1> QED
  BY <1>1, <1>2, Turned DEF TurnOf

Settled(c, v, n, y, k, g, p) == Client(c, v, n, y, Answered(v, y.at, k), k, g, p)

\* Once its records are on their way the client is as before, with none.
LEMMA SettledClient ==
  ASSUME NEW d, NEW v \in Versions, NEW n, NEW y, y \in Position, NEW b, NEW k \in Nat, NEW g, NEW p,
         Client(d, v, n, y, b, k, g, p), NEW c, c = [d EXCEPT !.out = << >>, !.err = None]
  PROVE  Settled(c, v, n, y, k, g, p)
<1>1. DOMAIN d = Fields /\ d.err = None
  BY DEF Client
<1>2. Same(d, c, {"out"}) /\ c.out = << >>
  BY <1>1 DEF Same, Fields
<1>3. /\ DOMAIN c = Fields /\ c.sock = d.sock /\ c.err = d.err /\ c.closeNotify = d.closeNotify
      /\ c.serverSeq = d.serverSeq /\ c.clientRand = d.clientRand /\ c.idx = d.idx
      /\ c.cipher = d.cipher /\ c.encoding = d.encoding /\ c.hash = d.hash
      /\ c.serverRand = d.serverRand /\ c.localKey = d.localKey /\ c.remoteKey = d.remoteKey
      /\ c.clientSeq = d.clientSeq /\ c.readed = d.readed /\ c.channel = d.channel
  BY <1>2 DEF Same, Fields
<1>4. ClientAt(d, v, n, y) /\ ClientKeys(d, v, n, y) /\ Sending(d, v, n, y, b, k) /\ Holds(d, n, g, y)
  BY DEF Client
<1>5. ClientAt(c, v, n, y)
  BY <1>3, <1>4 DEF ClientAt
<1>6. ClientKeys(c, v, n, y)
  BY <1>3, <1>4 DEF ClientKeys
<1>7. Holds(c, n, g, y)
  BY <1>3, <1>4 DEF Holds
<1>8. PICK t : t = Answered(v, y.at, k)
  OBVIOUS
<1>9. t \in Nat
  BY <1>8, PositionFacts DEF Answered
<1>10. Sending(c, v, n, y, t, k)
  <2>1. 0 \in Nat
    OBVIOUS
  <2>2. Slice(Answers(v, n), t, 0) = << >>
    BY <1>9, <2>1, SliceProperties
  <2>3. Answered(v, y.at, k) - t = 0 /\ t <= Answered(v, y.at, k)
    BY <1>8, <1>9
  <2>4. c.out = Slice(Answers(v, n), t, Answered(v, y.at, k) - t)
    BY <1>2, <2>2, <2>3
  <2>5. /\ y.at < Turn(v) => c.clientSeq = 0 /\ k = 0
        /\ y.at >= Turn(v) => c.clientSeq = Answered(v, y.at, k) - 3
    BY <1>3, <1>4 DEF Sending
  <2> QED
    BY <2>3, <2>4, <2>5 DEF Sending
<1>11. Client(c, v, n, y, t, k, g, p)
  BY <1>3, <1>5, <1>6, <1>7, <1>10 DEF Client
<1> QED
  BY <1>8, <1>11 DEF Settled

\* The records of a client on their way to the server, once more have been sent.
LEMMA ServingMore ==
  ASSUME NEW ts, NEW s, NEW n, NEW v \in Versions, NEW x, x \in Position, NEW k \in Nat,
         NEW z, Serving(ts, s, n, v, x, k, z), NEW y, y \in Position, NEW h \in Nat,
         NEW out, NEW b, b = Answered(v, x.at, k), b <= Answered(v, y.at, h),
         out = Slice(Answers(v, n), b, Answered(v, y.at, h) - b),
         NEW tt, tt = ts \o out
  PROVE  Serving(tt, s, n, v, y, h, z)
<1>1. PICK a \in 1 .. b :
        ServerAt(s, v, n, z, a) /\ ts = Slice(Answers(v, n), a, b - a)
  BY DEF Serving
<1>2. PICK f, t : f = Answers(v, n) /\ t = Answered(v, y.at, h)
  OBVIOUS
<1>3. b \in Nat /\ t \in Nat /\ b <= t
  BY <1>2, PositionFacts DEF Answered
<1>4. PICK i, j : i = b - a /\ j = t - b
  OBVIOUS
<1>5. i \in Nat /\ j \in Nat /\ a \in Nat /\ b = a + i /\ i + j = t - a /\ a \in 1 .. t
  <2>1. a \in 1 .. b
    BY <1>1
  <2>2. a \in Nat /\ a >= 1 /\ a <= b
    BY <1>3, <2>1
  <2>3. PICK bb : bb = b
    OBVIOUS
  <2>4. bb \in Nat /\ a <= bb /\ bb <= t /\ i = bb - a /\ j = t - bb
    BY <1>3, <1>4, <2>2, <2>3
  <2>5. i \in Nat /\ j \in Nat /\ bb = a + i /\ i + j = t - a /\ a \in 1 .. t
    BY <1>3, <2>2, <2>4
  <2> QED
    BY <2>2, <2>3, <2>5
<1>6. Follows(f, a, i, b, j)
  BY <1>5, SliceFollows
<1>7. Slice(f, a, i) \o Slice(f, b, j) = Slice(f, a, t - a)
  BY <1>5, <1>6 DEF Follows
<1>8. tt = Slice(f, a, t - a)
  BY <1>1, <1>2, <1>4, <1>7
<1> QED
  BY <1>1, <1>2, <1>5, <1>8 DEF Serving

\* A turn that goes on.
GoesOn(o, v, x, k, l, g, q, z, e, y, p) ==
  /\ CameFrom(v, x, k, l, g, q, z, e) /\ CameTo(o.client, o.rest, v, x, k, g, q, y, p, z, e)
  /\ Settle(o.client) /\ net' = o.rest /\ UNCHANGED << conns, sends, got >>
  /\ CallPart(call', status', v, y)
GoneOn ==
  \E o : \E v \in Versions, x \in Position, k, l, g \in Nat, q \in BOOLEAN, z \in Position, e \in BOOLEAN :
    \E y \in Position, p \in BOOLEAN : GoesOn(o, v, x, k, l, g, q, z, e, y, p)

\* A turn that brings the client further keeps the invariant.
LEMMA TurnStep ==
  ASSUME TlsInv, GoneOn
  PROVE  TlsInv'
<1>0. PICK o : \E v \in Versions, x \in Position, k, l, g \in Nat, q \in BOOLEAN, z \in Position, e \in BOOLEAN :
                 \E y \in Position, p \in BOOLEAN : GoesOn(o, v, x, k, l, g, q, z, e, y, p)
  BY DEF GoneOn
<1>1. PICK v \in Versions, x \in Position, k \in Nat, l \in Nat, g \in Nat, q \in BOOLEAN,
           z \in Position, e \in BOOLEAN, y \in Position, p \in BOOLEAN :
        GoesOn(o, v, x, k, l, g, q, z, e, y, p)
  BY <1>0
<1>2. PICK d, rest, n, c : d = o.client /\ rest = o.rest /\ n = conns
                           /\ c = [d EXCEPT !.out = << >>, !.err = None]
  OBVIOUS
<1>3. /\ Client(d, v, n, y, Answered(v, x.at, k), k, g, p)
      /\ Wire(d.recvBuf, rest, v, n, y, z, e)
      /\ x.at <= y.at /\ y.units <= z.units
      /\ p => y.units = z.units /\ (q \/ e)
  BY <1>1, <1>2 DEF GoesOn, CameTo
<1>4. /\ ClientPart(cl, got, srv.sent, n, v, x, k, l, g, q)
      /\ CallPart(call, status, v, x) /\ k = sends /\ link \in {"up", "fin"} /\ net # << >>
      /\ OnWire(cl.recvBuf, net, toServer, srv, link, n, v, x, k, l, q, z, e)
  BY <1>1, <1>2 DEF GoesOn, CameFrom
<1>5. d.sock = TRUE /\ d.err = None /\ DOMAIN d = Fields
  BY <1>3 DEF Client
<1>6. /\ cl' = c /\ error' = error /\ link' = link /\ srv' = srv /\ net' = rest
      /\ toServer' = IF link = "up" THEN toServer \o d.out ELSE << >>
      /\ conns' = n /\ sends' = sends /\ got' = got /\ CallPart(call', status', v, y)
  BY <1>1, <1>2, <1>5 DEF GoesOn, Settle
<1>7. Client(c, v, n, y, Answered(v, y.at, k), k, g, p)
  <2>1. PICK b : b = Answered(v, x.at, k)
    OBVIOUS
  <2>2. Client(d, v, n, y, b, k, g, p)
    BY <1>3, <2>1
  <2>3. Settled(c, v, n, y, k, g, p)
    BY <1>2, <2>2, SettledClient
  <2> QED
    BY <2>3 DEF Settled
<1>8. z.units = l /\ y.units <= l /\ (p => y.units = l)
  BY <1>3, <1>4 DEF OnWire
<1>9. ClientPart(cl', got', srv'.sent, conns', v, y, k, l, g, p)
  BY <1>4, <1>6, <1>7, <1>8 DEF ClientPart
<1>10. Wire(cl'.recvBuf, net', v, conns', y, z, e)
  <2>1. c.recvBuf = d.recvBuf
    BY <1>2, <1>5 DEF Fields
  <2> QED
    BY <1>3, <1>6, <2>1
<1>11. ASSUME link = "up"
       PROVE  ((e \/ p) => srv'.notified = TRUE) /\ Serving(toServer', srv', conns', v, y, k, z)
  <2>1. (e \/ q) => srv.notified = TRUE
    BY <1>4, <1>11 DEF OnWire
  <2>2. (e \/ p) => srv'.notified = TRUE
    BY <1>3, <1>6, <2>1
  <2>3. Serving(toServer, srv, n, v, x, k, z)
    BY <1>4, <1>11 DEF OnWire, Waiting
  <2>4. PICK b, out : b = Answered(v, x.at, k) /\ out = d.out
    OBVIOUS
  <2>5. b <= Answered(v, y.at, k) /\ out = Slice(Answers(v, n), b, Answered(v, y.at, k) - b)
    BY <1>3, <2>4 DEF Client, Sending
  <2>6. PICK tt, s : tt = toServer \o out /\ s = srv
    OBVIOUS
  <2>7. Serving(toServer \o out, srv, n, v, y, k, z)
    <3>1. PICK ts : ts = toServer
      OBVIOUS
    <3>2. tt = ts \o out /\ Serving(ts, s, n, v, x, k, z)
      BY <2>3, <2>6, <3>1
    <3>3. Serving(tt, s, n, v, y, k, z)
      BY <2>4, <2>5, <3>2, ServingMore
    <3> QED
      BY <2>6, <3>3
  <2> QED
    BY <1>6, <1>11, <2>2, <2>4, <2>7
<1>12. OnWire(cl'.recvBuf, net', toServer', srv', link', conns', v, y, k, l, p, z, e)
  BY <1>6, <1>8, <1>10, <1>11 DEF OnWire
<1>13. LinkPart(cl'.recvBuf, net', toServer', srv', link', sends', conns', v, y, k, l, p)
  BY <1>4, <1>6, <1>12 DEF LinkPart
<1>14. Connected'
  BY <1>6, <1>9, <1>13 DEF Connected
<1>15. Base'
  BY <1>2, <1>6 DEF TlsInv, Base
<1> QED
  BY <1>14, <1>15 DEF TlsInv

\* open goes on until the client has come far enough, and then the call is over.
LEMMA OnlineAt ==
  ASSUME NEW c, NEW v \in Versions, NEW n, NEW x, x \in Position, NEW b, NEW k, NEW g, NEW q,
         Client(c, v, n, x, b, k, g, q)
  PROVE  Online(c) <=> x.at >= Turn(v)
<1>1. /\ c.idx = (IF v = "tls12" /\ x.at > 4 THEN 4 ELSE x.at)
      /\ c.cipher = (IF x.at = 0 THEN None ELSE v)
  BY DEF Client, ClientAt
<1>2. x.at \in 0 .. 6 /\ None # "tls13"
  BY PositionFacts DEF None
<1>3. CASE x.at = 0
  BY <1>1, <1>2, <1>3 DEF Online, StatesCount, Turn
<1>4. CASE x.at # 0 /\ v = "tls13"
  BY <1>1, <1>2, <1>4 DEF Online, StatesCount, Turn
<1>5. CASE x.at # 0 /\ v = "tls12"
  BY <1>1, <1>2, <1>5 DEF Online, StatesCount, Turn
<1> QED
  BY <1>3, <1>4, <1>5 DEF Versions

\* A turn that closes the client keeps the invariant.
LEMMA ShutDownStep ==
  ASSUME TlsInv, NEW o, ShutDown(o), Settle(o.client), net' = o.rest, call' = Idle, status' = "error",
         UNCHANGED << conns, sends >>
  PROVE  TlsInv'
<1>e. PICK err \in {"disconnected", "fatal alert"} : \E out : o.client = [ClosedClient(err) EXCEPT !.out = out]
  BY DEF ShutDown
<1>c. PICK c : c = o.client
  OBVIOUS
<1>1. \E out : c = [ClosedClient(err) EXCEPT !.out = out]
  BY <1>e, <1>c
<1>2. Shut(c, err)
  BY <1>1, <1>c, <1>e DEF Shut, ShutDown, Errors
<1> QED
  BY <1>2, Shuts

\* A client that closes itself reports an error.
LEMMA ShutDownError ==
  ASSUME NEW o, ShutDown(o)
  PROVE  o.client.err # None
<1>e. PICK err \in {"disconnected", "fatal alert"} : \E out : o.client = [ClosedClient(err) EXCEPT !.out = out]
  BY DEF ShutDown
<1>1. PICK out : o.client = [ClosedClient(err) EXCEPT !.out = out]
  BY <1>e
<1>2. o.client.err = err
  BY <1>1 DEF ClosedClient
<1> QED
  BY <1>1, <1>2 DEF None

\* The step of open's loop.
LEMMA OpenReceiveStep ==
  ASSUME TlsInv, OpenReceive
  PROVE  TlsInv'
<1>1. PICK o \in Outcomes :
         /\ Settle(o.client) /\ net' = o.rest
         /\ call' = IF o.client.err = None /\ ~Online(o.client) THEN call ELSE Idle
         /\ status' = IF o.client.err # None THEN "error"
                      ELSE IF Online(o.client) THEN "up" ELSE status
  BY DEF OpenReceive
<1>2. call = Opening /\ UNCHANGED << conns, sends, got >>
  BY DEF OpenReceive
<1>3. Connected
  BY <1>2, UpConnected DEF Opening, Idle
<1>4. ShutDown(o) \/ CameOn(o)
  BY <1>3, Heard
<1>5. CASE ShutDown(o)
  BY <1>1, <1>2, <1>5, ShutDownError, ShutDownStep
<1>6. CASE CameOn(o)
  <2>1. PICK v \in Versions, x \in Position, k \in Nat, l \in Nat, g \in Nat, q \in BOOLEAN,
             z \in Position, e \in BOOLEAN, y \in Position, p \in BOOLEAN :
          CameFrom(v, x, k, l, g, q, z, e) /\ CameTo(o.client, o.rest, v, x, k, g, q, y, p, z, e)
    BY <1>6 DEF CameOn
  <2>2. Client(o.client, v, conns, y, Answered(v, x.at, k), k, g, p)
    BY <2>1 DEF CameTo
  <2>3. o.client.err = None
    BY <2>2 DEF Client
  <2>4. PICK d, n, b : d = o.client /\ n = conns /\ b = Answered(v, x.at, k)
    OBVIOUS
  <2>5. Online(d) <=> y.at >= Turn(v)
    BY <2>2, <2>4, OnlineAt
  <2>6. status = "down"
    BY <1>2, <2>1 DEF CameFrom, CallPart
  <2>7. CallPart(call', status', v, y)
    <3>1. CASE Online(d)
      <4>1. call' = Idle /\ status' = "up" /\ y.at >= Turn(v)
        BY <1>1, <2>3, <2>4, <2>5, <3>1
      <4> QED
        BY <4>1 DEF CallPart, Idle, Opening
    <3>2. CASE ~Online(d)
      <4>1. call' = Opening /\ status' = "down"
        BY <1>1, <1>2, <2>3, <2>4, <2>6, <3>2
      <4> QED
        BY <4>1 DEF CallPart
    <3> QED
      BY <3>1, <3>2
  <2>8. GoesOn(o, v, x, k, l, g, q, z, e, y, p)
    BY <1>1, <1>2, <2>1, <2>7 DEF GoesOn
  <2>9. GoneOn
    BY <2>8 DEF GoneOn
  <2> QED
    BY <2>9, TurnStep
<1> QED
  BY <1>4, <1>5, <1>6

\* The step of recv's loop.
LEMMA RecvReceiveStep ==
  ASSUME TlsInv, RecvReceive
  PROVE  TlsInv'
<1>1. PICK o \in Outcomes :
         /\ Settle(o.client) /\ net' = o.rest
         /\ call' = IF o.client.err = None THEN call ELSE Idle
         /\ status' = IF o.client.err = None THEN status ELSE "error"
  BY DEF RecvReceive
<1>2. call # Opening /\ call # Idle /\ UNCHANGED << conns, sends, got >>
  BY DEF RecvReceive, Receiving
<1>3. Connected
  BY <1>2, UpConnected
<1>4. ShutDown(o) \/ CameOn(o)
  BY <1>3, Heard
<1>5. CASE ShutDown(o)
  BY <1>1, <1>2, <1>5, ShutDownError, ShutDownStep
<1>6. CASE CameOn(o)
  <2>1. PICK v \in Versions, x \in Position, k \in Nat, l \in Nat, g \in Nat, q \in BOOLEAN,
             z \in Position, e \in BOOLEAN, y \in Position, p \in BOOLEAN :
          CameFrom(v, x, k, l, g, q, z, e) /\ CameTo(o.client, o.rest, v, x, k, g, q, y, p, z, e)
    BY <1>6 DEF CameOn
  <2>2. Client(o.client, v, conns, y, Answered(v, x.at, k), k, g, p) /\ x.at <= y.at
    BY <2>1 DEF CameTo
  <2>3. o.client.err = None
    BY <2>2 DEF Client
  <2>4. call' = call /\ status' = status
    BY <1>1, <2>3
  <2>5. status = "up" /\ x.at >= Turn(v) /\ CallPart(call, status, v, x)
    BY <1>2, <2>1 DEF CameFrom, CallPart
  <2>6. y.at >= Turn(v)
    <3>1. x.at \in Nat /\ y.at \in Nat /\ Turn(v) \in Nat
      BY PositionFacts DEF Turn
    <3> QED
      BY <2>2, <2>5, <3>1
  <2>7. CallPart(call', status', v, y)
    BY <2>4, <2>5, <2>6 DEF CallPart
  <2>8. GoesOn(o, v, x, k, l, g, q, z, e, y, p)
    BY <1>1, <1>2, <2>1, <2>7 DEF GoesOn
  <2>9. GoneOn
    BY <2>8 DEF GoneOn
  <2> QED
    BY <2>9, TurnStep
<1> QED
  BY <1>4, <1>5, <1>6

\* A client that may send is on its connection.
Sendable(v, x, k, l, g, q) ==
  /\ ClientPart(cl, got, srv.sent, conns, v, x, k, l, g, q)
  /\ CallPart(call, status, v, x) /\ x.at >= Turn(v)
  /\ LinkPart(cl.recvBuf, net, toServer, srv, link, sends, conns, v, x, k, l, q)
SentOnce(v, x, k, l, g, q) ==
  Sendable(v, x, k, l, g, q) /\ Send

\* A request sent on a broken connection fails and changes nothing.
LEMMA SendBroken ==
  ASSUME TlsInv, NEW v \in Versions, NEW x \in Position, NEW k \in Nat, NEW l \in Nat, NEW g \in Nat,
         NEW q \in BOOLEAN, SentOnce(v, x, k, l, g, q), link = "broken"
  PROVE  TlsInv'
<1>1. /\ ClientPart(cl, got, srv.sent, conns, v, x, k, l, g, q)
      /\ CallPart(call, status, v, x)
      /\ LinkPart(cl.recvBuf, net, toServer, srv, link, sends, conns, v, x, k, l, q)
      /\ Settle(SendPacket(cl, link, "data", Msg("request", sends + 1)))
      /\ sends' = sends + 1 /\ UNCHANGED << call, conns, got, status, net >>
  BY DEF SentOnce, Sendable, Send
<1>2. Client(cl, v, conns, x, Answered(v, x.at, k), k, g, q)
  BY <1>1 DEF ClientPart
<1>3. DOMAIN cl = Fields /\ cl.err = None /\ cl.sock = TRUE
  BY <1>2 DEF Client
<1>4. PICK d : d = SendPacket(cl, link, "data", Msg("request", sends + 1))
  OBVIOUS
<1>5. d = [cl EXCEPT !.err = "send"]
  BY <1>3, <1>4 DEF SendPacket
<1>6. DOMAIN d = Fields /\ d.err = "send" /\ d.sock = TRUE /\ d.recvBuf = cl.recvBuf
  BY <1>3, <1>5 DEF Fields
<1>7. /\ cl' = [d EXCEPT !.out = << >>, !.err = None]
      /\ error' = "send" /\ link' = link /\ srv' = srv /\ toServer' = << >>
  BY <1>1, <1>4, <1>6 DEF Settle, None
<1>8. PICK c : c = [cl EXCEPT !.out = << >>, !.err = None]
  OBVIOUS
<1>9. cl' = c
  <2>1. PICK u : u = cl'
    OBVIOUS
  <2>2. DOMAIN u = Fields /\ u = [f \in Fields |-> u[f]] /\ DOMAIN c = Fields /\ c = [f \in Fields |-> c[f]]
    BY <1>3, <1>6, <1>7, <1>8, <2>1
  <2>3. u.out = << >> /\ u.err = None /\ c.out = << >> /\ c.err = None
    BY <1>3, <1>6, <1>7, <1>8, <2>1 DEF Fields
  <2>4. \A f \in Fields \ {"out", "err"} : u[f] = cl[f] /\ c[f] = cl[f]
    <3>1. \A f \in Fields \ {"out", "err"} : u[f] = d[f]
      BY <1>6, <1>7, <2>1 DEF Fields
    <3>2. \A f \in Fields \ {"out", "err"} : d[f] = cl[f]
      BY <1>3, <1>5 DEF Fields
    <3>3. \A f \in Fields \ {"out", "err"} : c[f] = cl[f]
      BY <1>3, <1>8 DEF Fields
    <3> QED
      BY <3>1, <3>2, <3>3
  <2>5. u = c
    BY <2>2, <2>3, <2>4
  <2> QED
    BY <2>1, <2>5
<1>10. Settled(c, v, conns, x, k, g, q)
  <2>1. PICK e, n, b : e = cl /\ n = conns /\ b = Answered(v, x.at, k)
    OBVIOUS
  <2>2. Settled(c, v, n, x, k, g, q)
    BY <1>2, <1>8, <2>1, SettledClient
  <2> QED
    BY <2>1, <2>2
<1>11. ClientPart(cl', got', srv'.sent, conns', v, x, k, l, g, q)
  BY <1>1, <1>7, <1>9, <1>10 DEF ClientPart, Settled
<1>12. net = << >>
  BY <1>1 DEF LinkPart
<1>13. LinkPart(cl'.recvBuf, net', toServer', srv', link', sends', conns', v, x, k, l, q)
  BY <1>1, <1>7, <1>12 DEF LinkPart
<1>14. CallPart(call', status', v, x)
  BY <1>1
<1>15. Connected'
  BY <1>11, <1>13, <1>14 DEF Connected
<1>16. Base'
  <2>1. conns \in Nat /\ sends \in Nat /\ DOMAIN srv = SrvFields /\ srv.rejected = FALSE
    BY DEF TlsInv, Base
  <2>2. error' \in Errors /\ sends' \in Nat
    BY <1>1, <1>7, <2>1 DEF Errors
  <2> QED
    BY <1>1, <1>7, <2>1, <2>2 DEF Base
<1> QED
  BY <1>15, <1>16 DEF TlsInv

\* The request that comes after b records.
Requested(d, c, v, n, x, k, g, q, h) ==
  /\ Client(c, v, n, x, Answered(v, x.at, h), h, g, q)
  /\ d.sock = TRUE /\ d.err = None /\ d.recvBuf = c.recvBuf
  /\ Answered(v, x.at, k) <= Answered(v, x.at, h)
  /\ d.out = Slice(Answers(v, n), Answered(v, x.at, k), Answered(v, x.at, h) - Answered(v, x.at, k))

\* A request is the next record of the client.
LEMMA Requesting ==
  ASSUME NEW e, NEW v \in Versions, NEW n, NEW x \in Position, x.at >= Turn(v),
         NEW k \in Nat, NEW g, NEW q, Client(e, v, n, x, Answered(v, x.at, k), k, g, q),
         NEW h, h = k + 1, NEW on, on # "broken",
         NEW d, d = SendPacket(e, on, "data", Msg("request", h)),
         NEW c, c = [d EXCEPT !.out = << >>, !.err = None]
  PROVE  Requested(d, c, v, n, x, k, g, q, h)
<1>1. x.at \in 0 .. 6 /\ h \in Nat /\ ~(x.at < Turn(v))
  BY PositionFacts DEF Turn
<1>2. PICK t, b : t = Answered(v, x.at, h) /\ b = Answered(v, x.at, k)
  OBVIOUS
<1>3. b \in Nat /\ t = b + 1 /\ b = (IF v = "tls13" THEN 3 ELSE 4) + k
  BY <1>1, <1>2 DEF Answered
<1>4. /\ DOMAIN e = Fields /\ e.err = None /\ e.sock = TRUE
      /\ ClientAt(e, v, n, x) /\ ClientKeys(e, v, n, x) /\ Sending(e, v, n, x, b, k)
      /\ Holds(e, n, g, x) /\ e.closeNotify = q
  BY <1>2 DEF Client
<1>5. x.at >= 4 /\ x.at # 0 /\ e.cipher = v /\ e.encoding = TRUE
  <2>1. x.at >= 4
    BY <1>1 DEF Turn
  <2>2. x.at >= (IF v = "tls12" THEN 4 ELSE 1)
    BY <1>1, <2>1
  <2> QED
    BY <1>1, <1>4, <2>1, <2>2 DEF ClientAt
<1>6. e.clientSeq = b - 3 /\ e.out = << >>
  <2>1. e.clientSeq = b - 3
    BY <1>2, <1>4 DEF Sending
  <2>2. e.out = Slice(Answers(v, n), b, b - b)
    BY <1>2, <1>4 DEF Sending
  <2>3. b - b = 0 /\ 0 \in Nat
    BY <1>3
  <2>4. Slice(Answers(v, n), b, 0) = << >>
    BY <1>3, <2>3, SliceProperties
  <2> QED
    BY <2>1, <2>2, <2>3, <2>4
<1>7. e.localKey = IF v = "tls13" THEN ApKey("client", n) ELSE Key12("client", n)
  <2>1. CASE v = "tls13"
    <3>1. x.at = 6
      BY <1>1, <2>1 DEF Turn
    <3> QED
      BY <1>4, <2>1, <3>1 DEF ClientKeys
  <2>2. CASE v = "tls12"
    <3>1. x.at >= 3
      BY <1>1, <1>5
    <3> QED
      BY <1>4, <2>2, <3>1 DEF ClientKeys
  <2> QED
    BY <2>1, <2>2 DEF Versions
<1>8. e.localKey # Plain
  BY <1>7, KeyNotPlain DEF ApKey, Key12
<1>9. PICK type, msg, r :
        /\ type = "data" /\ msg = Msg("request", h)
        /\ r = [outer |-> IF e.cipher = "tls13" THEN "data" ELSE type, type |-> type,
                msgs |-> << msg >>, key |-> e.localKey, seq |-> e.clientSeq]
  OBVIOUS
<1>10. Sent(e, SendPacket(e, on, type, msg), r, type, msg)
  <2>1. ~IsClear(type)
    BY <1>9 DEF IsClear
  <2> QED
    BY <1>4, <1>5, <1>8, <1>9, <2>1, SendingSealed
<1>11. Sent(e, d, r, type, msg)
  BY <1>9, <1>10
<1>12. /\ Same(e, d, {"out", "hash", "clientSeq"}) /\ d.out = Append(e.out, r)
       /\ d.hash = e.hash
       /\ d.clientSeq = e.clientSeq + 1
  <2>1. r.key # Plain /\ type # "hs"
    BY <1>8, <1>9
  <2> QED
    BY <1>11, <2>1 DEF Sent
<1>13. r = Answer(v, n, t)
  <2>1. CASE v = "tls13"
    <3>1. t = k + 4 /\ t # 2 /\ t # 3 /\ t - 3 = h /\ t - 4 = k /\ b - 3 = k
      BY <1>3, <2>1
    <3>2. r = [outer |-> "data", type |-> "data", msgs |-> << Msg("request", h) >>,
               key |-> ApKey("client", n), seq |-> k]
      BY <1>6, <1>7, <1>9, <2>1, <3>1
    <3>3. Answer(v, n, t) = [outer |-> "data", type |-> "data", msgs |-> << Msg("request", t - 3) >>,
                             key |-> ApKey("client", n), seq |-> t - 4]
      BY <2>1, <3>1 DEF Answer
    <3> QED
      BY <3>1, <3>2, <3>3
  <2>2. CASE v = "tls12"
    <3>1. t = k + 5 /\ t # 2 /\ t # 3 /\ t # 4 /\ t - 4 = h /\ b - 3 = t - 4
      BY <1>3, <2>2
    <3>2. r = [outer |-> "data", type |-> "data", msgs |-> << Msg("request", h) >>,
               key |-> Key12("client", n), seq |-> b - 3]
      BY <1>6, <1>7, <1>9, <2>2
    <3>3. Answer(v, n, t) = [outer |-> "data", type |-> "data", msgs |-> << Msg("request", t - 4) >>,
                             key |-> Key12("client", n), seq |-> t - 4]
      BY <2>2, <3>1 DEF Answer
    <3> QED
      BY <3>1, <3>2, <3>3
  <2> QED
    BY <2>1, <2>2 DEF Versions
<1>14. PICK f, w : f = Answers(v, n) /\ w = t - b
  OBVIOUS
<1>15. t \in Nat /\ w = 0 + 1 /\ t = b + 0 + 1 /\ 0 \in Nat
  BY <1>3, <1>14
<1>16. d.out = Slice(f, b, w)
  <2>1. Slice(f, b, 0) = << >>
    BY <1>3, <1>15, SliceProperties
  <2>3. PICK zero \in Nat : zero = 0
    OBVIOUS
  <2>4. t = b + zero + 1 /\ w = zero + 1
    BY <1>15, <2>3
  <2>5. Makes(Slice(Answers(v, n), b, zero), Answer(v, n, t), Slice(Answers(v, n), b, w))
    BY <1>3, <2>4, OneMoreAnswer
  <2>6. Append(Slice(f, b, 0), r) = Slice(f, b, w)
    BY <1>13, <1>14, <2>3, <2>5 DEF Makes
  <2> QED
    BY <1>6, <1>12, <2>1, <2>6
<1>17. /\ DOMAIN d = Fields /\ d.err = None /\ d.sock = TRUE /\ d.closeNotify = q
       /\ d.serverSeq = e.serverSeq /\ d.clientRand = e.clientRand /\ d.idx = e.idx
       /\ d.cipher = e.cipher /\ d.encoding = e.encoding
       /\ d.serverRand = e.serverRand /\ d.localKey = e.localKey /\ d.remoteKey = e.remoteKey
       /\ d.readed = e.readed /\ d.channel = e.channel
  BY <1>4, <1>12 DEF Same, Fields
<1>18. ClientAt(d, v, n, x) /\ ClientKeys(d, v, n, x) /\ Holds(d, n, g, x)
  <2>1. ClientAt(d, v, n, x)
    BY <1>4, <1>12, <1>17 DEF ClientAt
  <2>2. ClientKeys(d, v, n, x)
    BY <1>4, <1>17 DEF ClientKeys
  <2>3. Holds(d, n, g, x)
    BY <1>4, <1>17 DEF Holds
  <2> QED
    BY <2>1, <2>2, <2>3
<1>19. Sending(d, v, n, x, b, h)
  <2>1. d.clientSeq = t - 3
    BY <1>3, <1>6, <1>12
  <2>2. b <= t
    BY <1>3
  <2> QED
    BY <1>1, <1>2, <1>14, <1>16, <2>1, <2>2 DEF Sending
<1>20. Client(d, v, n, x, b, h, g, q)
  BY <1>17, <1>18, <1>19 DEF Client
<1>21. Settled(c, v, n, x, h, g, q)
  BY <1>1, <1>20, SettledClient
<1>22. c.recvBuf = d.recvBuf
  BY <1>17 DEF Fields
<1>23. b <= t
  BY <1>3
<1> QED
  BY <1>2, <1>14, <1>16, <1>17, <1>21, <1>22, <1>23 DEF Requested, Settled

\* The step send.
LEMMA SendStep ==
  ASSUME TlsInv, Send
  PROVE  TlsInv'
<1>1. PICK v \in Versions, x \in Position, k \in Nat, l \in Nat, g \in Nat, q \in BOOLEAN :
           /\ ClientPart(cl, got, srv.sent, conns, v, x, k, l, g, q)
           /\ CallPart(call, status, v, x)
           /\ LinkPart(cl.recvBuf, net, toServer, srv, link, sends, conns, v, x, k, l, q)
  BY UpConnected DEF Send, Connected
<1>2. x.at >= Turn(v)
  BY <1>1 DEF CallPart, Send
<1>3. SentOnce(v, x, k, l, g, q)
  BY <1>1, <1>2 DEF SentOnce, Sendable
<1>4. CASE link = "broken"
  BY <1>3, <1>4, SendBroken
<1>5. CASE link # "broken"
  <2>1. k = sends /\ link \in {"up", "fin"}
    BY <1>1, <1>5 DEF LinkPart
  <2>2. PICK z \in Position, e \in BOOLEAN : OnWire(cl.recvBuf, net, toServer, srv, link, conns, v, x, k, l, q, z, e)
    BY <1>1, <1>5 DEF LinkPart
  <2>3. PICK h, d, c, n : /\ h = k + 1 /\ d = SendPacket(cl, link, "data", Msg("request", h))
                          /\ c = [d EXCEPT !.out = << >>, !.err = None] /\ n = conns
    OBVIOUS
  <2>4. Settle(d) /\ sends' = h /\ UNCHANGED << call, conns, got, status, net >>
    BY <2>1, <2>3 DEF Send
  <2>5. Client(cl, v, n, x, Answered(v, x.at, k), k, g, q) /\ h \in Nat
    BY <1>1, <2>3 DEF ClientPart
  <2>6. Requested(d, c, v, n, x, k, g, q, h)
    <3>1. PICK t, on : t = cl /\ on = link
      OBVIOUS
    <3>2. /\ Client(t, v, n, x, Answered(v, x.at, k), k, g, q) /\ on # "broken"
          /\ d = SendPacket(t, on, "data", Msg("request", h))
      BY <1>5, <2>3, <2>5, <3>1
    <3> QED
      BY <1>2, <2>3, <3>2, Requesting
  <2>7. /\ Client(c, v, n, x, Answered(v, x.at, h), h, g, q)
        /\ d.sock = TRUE /\ d.err = None /\ d.recvBuf = c.recvBuf
        /\ Answered(v, x.at, k) <= Answered(v, x.at, h)
        /\ d.out = Slice(Answers(v, n), Answered(v, x.at, k), Answered(v, x.at, h) - Answered(v, x.at, k))
    BY <2>6 DEF Requested
  <2>8. /\ cl' = c /\ error' = error /\ link' = link /\ srv' = srv
        /\ toServer' = IF link = "up" THEN toServer \o d.out ELSE << >>
    BY <2>3, <2>4, <2>7 DEF Settle
  <2>9. ClientPart(cl', got', srv'.sent, conns', v, x, h, l, g, q)
    BY <1>1, <2>3, <2>4, <2>7, <2>8 DEF ClientPart
  <2>a. cl'.recvBuf = cl.recvBuf
    <3>1. DOMAIN cl = Fields /\ cl.err = None
      BY <2>5 DEF Client
    <3>2. PICK m : m = Msg("request", h)
      OBVIOUS
    <3>3. d = PutOut(cl, Encode(cl, "data", << m >>))
      BY <1>5, <2>3, <3>1, <3>2 DEF SendPacket
    <3>4. d.recvBuf = cl.recvBuf
      BY <3>1, <3>3 DEF PutOut, Fields
    <3> QED
      BY <2>7, <2>8, <3>4
  <2>10. Wire(cl'.recvBuf, net', v, conns', x, z, e) /\ z.units = l
    BY <2>2, <2>4, <2>a DEF OnWire
  <2>11. ASSUME link = "up"
         PROVE  ((e \/ q) => srv'.notified = TRUE) /\ Serving(toServer', srv', conns', v, x, h, z)
    <3>1. (e \/ q) => srv'.notified = TRUE
      BY <2>2, <2>8, <2>11 DEF OnWire
    <3>2. ~Waiting(cl.recvBuf, net, toServer, srv, conns, x, z)
      BY <1>2 DEF Waiting, Turn
    <3>3. Serving(toServer, srv, n, v, x, k, z)
      BY <2>2, <2>3, <2>11, <3>2 DEF OnWire
    <3>4. PICK ts, s, out, b, tt : /\ ts = toServer /\ s = srv /\ out = d.out /\ tt = ts \o out
                                   /\ b = Answered(v, x.at, k)
      OBVIOUS
    <3>5. /\ Serving(ts, s, n, v, x, k, z) /\ b <= Answered(v, x.at, h)
          /\ out = Slice(Answers(v, n), b, Answered(v, x.at, h) - b)
      BY <2>7, <3>3, <3>4
    <3>6. Serving(tt, s, n, v, x, h, z)
      BY <2>5, <3>4, <3>5, ServingMore
    <3> QED
      BY <2>3, <2>4, <2>8, <2>11, <3>1, <3>4, <3>6
  <2>12. OnWire(cl'.recvBuf, net', toServer', srv', link', conns', v, x, h, l, q, z, e)
    BY <2>8, <2>10, <2>11 DEF OnWire
  <2>13. LinkPart(cl'.recvBuf, net', toServer', srv', link', sends', conns', v, x, h, l, q)
    BY <1>5, <2>1, <2>4, <2>8, <2>12 DEF LinkPart
  <2>14. CallPart(call', status', v, x)
    BY <1>1, <2>4
  <2>15. Connected'
    BY <2>5, <2>9, <2>13, <2>14 DEF Connected
  <2>16. Base'
    <3>1. conns \in Nat /\ error \in Errors /\ DOMAIN srv = SrvFields /\ srv.rejected = FALSE
      BY DEF TlsInv, Base
    <3> QED
      BY <2>4, <2>5, <2>8, <3>1 DEF Base
  <2> QED
    BY <2>15, <2>16 DEF TlsInv
<1> QED
  BY <1>4, <1>5

\* recv returns m units: the next ones, which are in the channel no longer.
Returns(c, d, gt, n, x, g, size, m) ==
  /\ m \in Nat /\ g + m <= x.units
  /\ (g < x.units => m >= 1) /\ ReadUnits(c, size) = Slice(Units(n), g, m)
  /\ gt = Slice(Units(n), 0, g) => gt \o ReadUnits(c, size) = Slice(Units(n), 0, g + m)
  /\ Same(c, d, {"channel", "readed"}) /\ Holds(d, n, g + m, x)

\* read_channel returns the next units and keeps the others.
LEMMA Returning ==
  ASSUME NEW c, DOMAIN c = Fields, NEW n, NEW g \in Nat, NEW x \in Position, Holds(c, n, g, x),
         NEW gt, NEW size \in Nat \ {0}, NEW d, d = ReadChannel(c, size)
  PROVE  \E m : Returns(c, d, gt, n, x, g, size, m)
<1>1. PICK u, r, base, len : u = x.units /\ r = c.readed /\ base = g - r /\ len = u - base
  OBVIOUS
<1>2. /\ u \in Nat /\ r \in 0 .. g /\ g <= u /\ c.channel = Slice(Units(n), base, len)
  BY <1>1, PositionFacts DEF Holds
<1>3. base \in Nat /\ r \in Nat /\ len \in Nat /\ r <= len /\ len - r = u - g /\ base + r = g
  BY <1>1, <1>2
<1>4. Len(c.channel) = len
  <2>1. PICK a : a = Units(n)
    OBVIOUS
  <2>2. Len(Slice(a, base, len)) = len
    BY <1>3, SliceProperties
  <2> QED
    BY <1>2, <2>1, <2>2
<1>5. PICK m : m = IF size < len - r THEN size ELSE len - r
  OBVIOUS
<1>6. m \in Nat /\ r + m <= len /\ g + m <= u /\ (g < u => m >= 1)
  BY <1>2, <1>3, <1>5
<1>7. PICK f : f = Units(n)
  OBVIOUS
<1>8. ReadUnits(c, size) = Slice(f, g, m)
  <2>1. ReadUnits(c, size) = SubSeq(c.channel, r + 1, r + m)
    BY <1>1, <1>4, <1>5 DEF ReadUnits
  <2>2. PICK i, j : i = r + 1 /\ j = r + m
    OBVIOUS
  <2>3. IsPart(f, base, len, i, j, g, m)
    BY <1>3, <1>6, <2>2, SlicePart
  <2> QED
    BY <1>2, <1>7, <2>1, <2>2, <2>3 DEF IsPart
<1>9. gt = Slice(f, 0, g) => gt \o ReadUnits(c, size) = Slice(f, 0, g + m)
  <2>1. PICK zero \in Nat : zero = 0
    OBVIOUS
  <2>2. g = zero + g
    BY <2>1
  <2>3. Follows(f, zero, g, g, m)
    BY <1>6, <2>2, SliceFollows
  <2> QED
    BY <1>8, <2>1, <2>3 DEF Follows
<1>10. Len(Slice(f, g, m)) = m
  BY <1>6, SliceProperties
<1>11. PICK t : t = r + m
  OBVIOUS
<1>12. t \in Nat /\ t <= len /\ g + m \in Nat /\ base + t = g + m /\ t <= g + m
  BY <1>3, <1>6, <1>11
<1>13. d = IF (t > (len \div 4) * 3 /\ len > CompactAt) \/ t >= len
           THEN [c EXCEPT !.channel = SubSeq(@, t + 1, len), !.readed = 0]
           ELSE [c EXCEPT !.readed = t]
  BY <1>1, <1>4, <1>8, <1>10, <1>11 DEF ReadChannel
<1>14. CASE d = [c EXCEPT !.channel = SubSeq(@, t + 1, len), !.readed = 0]
  <2>1. d.channel = SubSeq(c.channel, t + 1, len) /\ d.readed = 0 /\ Same(c, d, {"channel", "readed"})
    BY <1>14 DEF Same, Fields
  <2>2. PICK i, b, w : i = t + 1 /\ b = g + m /\ w = len - t
    OBVIOUS
  <2>3. w \in Nat /\ len = t + w /\ b = base + t /\ t + w <= len /\ w = u - b /\ b \in Nat
    BY <1>1, <1>2, <1>3, <1>12, <2>2
  <2>4. IsPart(f, base, len, i, len, b, w)
    BY <1>3, <1>12, <2>2, <2>3, SlicePart
  <2>5. d.channel = Slice(f, b, w)
    BY <1>2, <1>7, <2>1, <2>2, <2>4 DEF IsPart
  <2>6. b - d.readed = b /\ x.units - (b - d.readed) = w /\ d.readed \in 0 .. b /\ b <= x.units
    <3>1. b - 0 = b /\ u - (b - 0) = w /\ 0 \in 0 .. b /\ b <= u
      BY <1>2, <1>6, <2>2, <2>3
    <3> QED
      BY <1>1, <2>1, <3>1
  <2>7. Holds(d, n, b, x)
    BY <1>7, <2>5, <2>6 DEF Holds
  <2>8. Returns(c, d, gt, n, x, g, size, m)
    BY <1>1, <1>6, <1>7, <1>8, <1>9, <2>1, <2>2, <2>7 DEF Returns
  <2> QED
    BY <2>8
<1>15. CASE d = [c EXCEPT !.readed = t]
  <2>1. d.channel = c.channel /\ d.readed = t /\ Same(c, d, {"channel", "readed"})
    BY <1>15 DEF Same, Fields
  <2>2. PICK b : b = g + m
    OBVIOUS
  <2>3. b - t = base /\ u - (b - t) = len /\ t \in 0 .. b /\ b <= u
    <3>1. b \in Nat /\ b <= u /\ base + t = b /\ t <= b
      BY <1>6, <1>12, <2>2
    <3>2. b - t = base
      BY <1>3, <1>12, <3>1
    <3>3. t \in 0 .. b
      BY <1>12, <3>1
    <3>4. u - (b - t) = len
      BY <1>1, <3>2
    <3> QED
      BY <3>1, <3>2, <3>3, <3>4
  <2>4. Holds(d, n, b, x)
    BY <1>1, <1>2, <2>1, <2>3 DEF Holds
  <2>5. Returns(c, d, gt, n, x, g, size, m)
    BY <1>1, <1>6, <1>7, <1>8, <1>9, <2>1, <2>2, <2>4 DEF Returns
  <2> QED
    BY <2>5
<1> QED
  BY <1>13, <1>14, <1>15

\* recv has returned m units of a client that was at x.
Returned(v, x, k, l, g, q, size, m) ==
  /\ ClientPart(cl, got, srv.sent, conns, v, x, k, l, g, q)
  /\ CallPart(call, status, v, x) /\ status = "up" /\ x.at >= Turn(v)
  /\ LinkPart(cl.recvBuf, net, toServer, srv, link, sends, conns, v, x, k, l, q)
  /\ Returns(cl, cl', got, conns, x, g, size, m) /\ got' = got \o ReadUnits(cl, size)
HasReturned ==
  \E v \in Versions, x \in Position, k, l, g \in Nat, q \in BOOLEAN, size \in Nat \ {0}, m \in Nat :
    Returned(v, x, k, l, g, q, size, m)

\* What recv has done when it returns.
LEMMA ReturnsUnits ==
  ASSUME TlsInv, RecvReturn
  PROVE  HasReturned
<1>1. call # Idle /\ call # Opening
  BY DEF RecvReturn, Receiving
<1>2. PICK v \in Versions, x \in Position, k \in Nat, l \in Nat, g \in Nat, q \in BOOLEAN :
           /\ ClientPart(cl, got, srv.sent, conns, v, x, k, l, g, q)
           /\ CallPart(call, status, v, x)
           /\ LinkPart(cl.recvBuf, net, toServer, srv, link, sends, conns, v, x, k, l, q)
  BY <1>1, UpConnected DEF Connected
<1>3. status = "up" /\ x.at >= Turn(v)
  BY <1>1, <1>2 DEF CallPart
<1>4. PICK size \in ReadSizes : call = << "recv", size >>
  BY <1>1, <1>2 DEF CallPart
<1>5. call[2] = size
  BY <1>4
<1>6. size \in Nat \ {0}
  BY TlsAssumption
<1>7. cl' = ReadChannel(cl, size) /\ got' = got \o ReadUnits(cl, size)
  BY <1>5 DEF RecvReturn
<1>8. PICK c, n, gt, d : c = cl /\ n = conns /\ gt = got /\ d = cl'
  OBVIOUS
<1>9. DOMAIN c = Fields /\ Holds(c, n, g, x) /\ d = ReadChannel(c, size)
  BY <1>2, <1>7, <1>8 DEF ClientPart, Client
<1>10. PICK m : Returns(c, d, gt, n, x, g, size, m)
  BY <1>6, <1>9, Returning
<1>11. m \in Nat /\ Returns(cl, cl', got, conns, x, g, size, m)
  BY <1>8, <1>10 DEF Returns
<1>12. Returned(v, x, k, l, g, q, size, m)
  BY <1>2, <1>3, <1>7, <1>11 DEF Returned
<1> QED
  BY <1>6, <1>11, <1>12 DEF HasReturned

\* The step of a recv that returns.
LEMMA RecvReturnStep ==
  ASSUME TlsInv, RecvReturn
  PROVE  TlsInv'
<1>1. PICK v \in Versions, x \in Position, k \in Nat, l \in Nat, g \in Nat, q \in BOOLEAN,
           size \in Nat \ {0}, m \in Nat : Returned(v, x, k, l, g, q, size, m)
  BY ReturnsUnits DEF HasReturned
<1>2. call' = Idle /\ UNCHANGED << conns, sends, status, error, net, toServer, link, srv >>
  BY DEF RecvReturn
<1>3. PICK c, d, n, b, h : c = cl /\ d = cl' /\ n = conns /\ b = Answered(v, x.at, k) /\ h = g + m
  OBVIOUS
<1>4. /\ Client(c, v, n, x, b, k, g, q) /\ Same(c, d, {"channel", "readed"}) /\ Holds(d, n, h, x)
  BY <1>1, <1>3 DEF Returned, Returns, ClientPart
<1>5. h \in Nat
  BY <1>3
<1>6. Client(d, v, n, x, b, k, h, q)
  <2>1. \A f \in Fields \ {"channel", "readed"} : d[f] = c[f]
    BY <1>4 DEF Same
  <2>2. /\ d.sock = c.sock /\ d.err = c.err /\ d.closeNotify = c.closeNotify /\ d.idx = c.idx
        /\ d.cipher = c.cipher /\ d.encoding = c.encoding /\ d.clientRand = c.clientRand
        /\ d.serverRand = c.serverRand /\ d.clientSeq = c.clientSeq /\ d.serverSeq = c.serverSeq
        /\ d.localKey = c.localKey /\ d.remoteKey = c.remoteKey /\ d.hash = c.hash /\ d.out = c.out
    BY <2>1 DEF Fields
  <2>3. DOMAIN d = Fields
    BY <1>4 DEF Same
  <2>4. /\ c.sock = TRUE /\ c.err = None /\ c.closeNotify = q
        /\ ClientAt(c, v, n, x) /\ ClientKeys(c, v, n, x) /\ Sending(c, v, n, x, b, k)
    BY <1>4 DEF Client
  <2>5. d.sock = TRUE /\ d.err = None /\ d.closeNotify = q
    BY <2>2, <2>4
  <2>6. ClientAt(d, v, n, x) /\ ClientKeys(d, v, n, x)
    BY <2>2, <2>4 DEF ClientAt, ClientKeys
  <2>7. Sending(d, v, n, x, b, k)
    BY <2>2, <2>4 DEF Sending
  <2> QED
    BY <1>4, <2>3, <2>5, <2>6, <2>7 DEF Client
<1>7. cl'.recvBuf = cl.recvBuf
  BY <1>3, <1>4 DEF Same, Fields
<1>8. got' = Slice(Units(n), 0, h)
  <2>1. got = Slice(Units(n), 0, g) /\ got' = got \o ReadUnits(cl, size)
    BY <1>1, <1>3 DEF Returned, ClientPart
  <2>2. got \o ReadUnits(cl, size) = Slice(Units(n), 0, h)
    BY <1>1, <1>3, <2>1 DEF Returned, Returns
  <2> QED
    BY <2>1, <2>2
<1>9. ClientPart(cl', got', srv'.sent, conns', v, x, k, l, h, q)
  <2>1. srv.sent = Slice(Units(conns), 0, l) /\ x.units <= l /\ (q => x.units = l)
    BY <1>1 DEF Returned, ClientPart
  <2> QED
    BY <1>2, <1>3, <1>6, <1>8, <2>1 DEF ClientPart
<1>10. LinkPart(cl'.recvBuf, net', toServer', srv', link', sends', conns', v, x, k, l, q)
  <2>1. LinkPart(cl.recvBuf, net, toServer, srv, link, sends, conns, v, x, k, l, q)
    BY <1>1 DEF Returned
  <2> QED
    BY <1>2, <1>7, <2>1
<1>11. CallPart(call', status', v, x)
  <2>1. status' = "up" /\ x.at >= Turn(v) /\ call' = Idle
    BY <1>1, <1>2 DEF Returned
  <2> QED
    BY <2>1 DEF CallPart, Idle, Opening
<1>12. Connected'
  BY <1>5, <1>9, <1>10, <1>11 DEF Connected
<1>13. Base'
  BY <1>2 DEF TlsInv, Base
<1> QED
  BY <1>12, <1>13 DEF TlsInv

\* A step that changes nothing.
LEMMA StutterStep ==
  ASSUME TlsInv, UNCHANGED tlsVars
  PROVE  TlsInv'
<1>1. /\ cl' = cl /\ call' = call /\ conns' = conns /\ sends' = sends /\ got' = got
      /\ status' = status /\ error' = error /\ net' = net /\ toServer' = toServer
      /\ link' = link /\ srv' = srv
  BY DEF tlsVars
<1>2. Base'
  BY <1>1 DEF TlsInv, Base
<1>3. CASE Closed
  <2>1. Closed'
    BY <1>1, <1>3 DEF Closed
  <2> QED
    BY <1>2, <2>1 DEF TlsInv
<1>4. CASE Connected
  <2>1. Connected'
    BY <1>1, <1>4 DEF Connected
  <2> QED
    BY <1>2, <2>1 DEF TlsInv
<1> QED
  BY <1>3, <1>4 DEF TlsInv

\* The object starts closed.
LEMMA InitTlsInv ==
  ASSUME Init
  PROVE  TlsInv
<1>1. DOMAIN srv = SrvFields /\ srv.rejected = FALSE
  <2>1. DOMAIN NoServer = SrvFields /\ NoServer.rejected = FALSE
    BY DEF NoServer, SrvFields
  <2> QED
    BY <2>1 DEF Init
<1>2. Base
  BY <1>1 DEF Init, Base, Errors
<1>3. Closed
  BY DEF Init, Closed
<1> QED
  BY <1>2, <1>3 DEF TlsInv

\* Every step of the usual course keeps the invariant.
LEMMA StepTlsInv ==
  ASSUME TlsInv, [Usual]_tlsVars
  PROVE  TlsInv'
<1>1. ASSUME NEW offer \in Offers, Open(offer) PROVE TlsInv'
  BY <1>1, OpenStep
<1>2. CASE OpenFails
  BY <1>2, OpenFailsStep
<1>3. CASE OpenReceive
  BY <1>3, OpenReceiveStep
<1>4. CASE Send
  BY <1>4, SendStep
<1>5. ASSUME NEW size \in ReadSizes, Recv(size) PROVE TlsInv'
  BY <1>5, RecvStep
<1>6. CASE RecvReceive
  BY <1>6, RecvReceiveStep
<1>7. CASE RecvReturn
  BY <1>7, RecvReturnStep
<1>8. CASE RecvTimeout
  BY <1>8, RecvTimeoutStep
<1>9. CASE Close
  BY <1>9, CloseStep
<1>10. CASE ServerHello
  BY <1>10, ServerHelloStep
<1>11. CASE ServerFlight
  BY <1>11, ServerFlightStep
<1>12. CASE ServerReceive
  BY <1>12, ServerReceiveStep
<1>13. CASE ServerData
  BY <1>13, ServerDataStep
<1>14. CASE ServerTicket
  BY <1>14, ServerTicketStep
<1>15. CASE ServerWarning
  BY <1>15, ServerWarningStep
<1>16. CASE ServerNotify
  BY <1>16, ServerNotifyStep
<1>17. CASE ServerFatal
  BY <1>17, ServerFatalStep
<1>18. CASE ServerFin
  BY <1>18, ServerFinStep
<1>19. CASE Break
  BY <1>19, BreakStep
<1>20. CASE UNCHANGED tlsVars
  BY <1>20, StutterStep
<1> QED
  BY <1>1, <1>2, <1>3, <1>4, <1>5, <1>6, <1>7, <1>8, <1>9, <1>10, <1>11, <1>12, <1>13, <1>14,
     <1>15, <1>16, <1>17, <1>18, <1>19, <1>20 DEF Usual

\* A step after which every server has kept to the usual course.
LEMMA UsualStep ==
  ASSUME [Next]_vars, course' = "usual"
  PROVE  course = "usual" /\ [Usual]_tlsVars
<1>1. CASE UNCHANGED vars
  BY <1>1 DEF vars
<1>2. CASE Next
  BY <1>2 DEF Next
<1> QED
  BY <1>1, <1>2

\* Type and state correctness of the client: the object is closed, or client,
\* server and wire agree, over every connection the object is used for, every way
\* the server puts whole messages into records and every way the bytes arrive, as
\* long as the servers keep to the course that get_states_seq allows.
THEOREM TlsInvariant == Spec => [](course = "usual" => TlsInv)
<1>1. Init => (course = "usual" => TlsInv)
  BY InitTlsInv
<1>2. (course = "usual" => TlsInv) /\ [Next]_vars => (course = "usual" => TlsInv)'
  <2> SUFFICES ASSUME course = "usual" => TlsInv, [Next]_vars, course' = "usual"
               PROVE  TlsInv'
    OBVIOUS
  <2>1. course = "usual" /\ [Usual]_tlsVars
    BY UsualStep
  <2> QED
    BY <2>1, StepTlsInv
<1> QED
  BY <1>1, <1>2, PTL DEF Spec

\* Neither end rejects what the other has sent, as long as the servers keep to the
\* usual course: no wrong state, no record that does not open, no Finished that does
\* not verify, over any number of connections with one object.
THEOREM NeitherEndRejects == Spec => []NothingRejected
<1>1. (course = "usual" => TlsInv) => NothingRejected
  BY DEF TlsInv, Base, Errors, None, NothingRejected, Rejected
<1> QED
  BY <1>1, TlsInvariant, PTL

(* ------------------------ the stream the caller sees ------------------------ *)

SentStays == srv'.sent = srv.sent

\* A call of the client leaves what the server has written.
LEMMA SettleKeepsSent ==
  ASSUME NEW c, Settle(c)
  PROVE  SentStays
<1>1. srv' = srv \/ srv' = Gone(srv)
  BY DEF Settle
<1>2. PICK t : t = Gone(srv)
  OBVIOUS
<1>3. Gone(srv).sent = srv.sent
  BY GoneFacts
<1> QED
  BY <1>1, <1>3 DEF SentStays

\* A server that ends leaves what it has written.
LEMMA GoneKeepsSent ==
  ASSUME srv' = Gone(srv)
  PROVE  SentStays
BY GoneFacts DEF SentStays

\* A step that leaves both ends of the stream fails it, or is no step of it.
LEMMA CallMaps ==
  ASSUME SentStays, got' = got, status' \in {"error", "down"} \/ status' = status
  PROVE  [Stream!Next]_(Stream!vars)
BY DEF SentStays, Stream!vars, Stream!Next, Stream!Fail

\* A step that starts again is a new stream.
LEMMA ConnectMaps ==
  ASSUME got' = << >>, srv' = NoServer, status' \in {"down", "error"}
  PROVE  [Stream!Next]_(Stream!vars)
<1>1. NoServer.sent = << >>
  BY DEF NoServer
<1> QED
  BY <1>1 DEF Stream!Next, Stream!Connect

\* open's loop brings the stream up, or fails it.
LEMMA OpenReceiveMaps ==
  ASSUME TlsInv, OpenReceive
  PROVE  [Stream!Next]_(Stream!vars)
<1>1. PICK o \in Outcomes :
         /\ Settle(o.client)
         /\ status' = IF o.client.err # None THEN "error"
                      ELSE IF Online(o.client) THEN "up" ELSE status
  BY DEF OpenReceive
<1>2. call = Opening /\ got' = got
  BY DEF OpenReceive
<1>3. Connected
  BY <1>2, UpConnected DEF Opening, Idle
<1>4. status = "down"
  BY <1>2, <1>3 DEF Connected, CallPart
<1>5. SentStays
  BY <1>1, SettleKeepsSent
<1>6. status' \in {"error", "up"} \/ status' = status
  BY <1>1
<1>7. CASE status' = "up"
  BY <1>2, <1>4, <1>5, <1>7 DEF SentStays, Stream!Next, Stream!Up
<1> QED
  BY <1>2, <1>5, <1>6, <1>7, CallMaps

\* recv's loop fails the stream, or leaves it.
LEMMA RecvReceiveMaps ==
  ASSUME RecvReceive
  PROVE  [Stream!Next]_(Stream!vars)
<1>1. PICK o \in Outcomes :
         /\ Settle(o.client)
         /\ status' = IF o.client.err = None THEN status ELSE "error"
  BY DEF RecvReceive
<1>2. got' = got
  BY DEF RecvReceive
<1>3. SentStays
  BY <1>1, SettleKeepsSent
<1> QED
  BY <1>1, <1>2, <1>3, CallMaps

\* A client that has heard close_notify and has no unread unit has returned them all.
LEMMA ReadToTheEnd ==
  ASSUME TlsInv, status = "up", cl.closeNotify, ~Unread(cl)
  PROVE  got = srv.sent
<1>1. Connected
  BY UpConnected
<1>2. PICK v \in Versions, x \in Position, k \in Nat, l \in Nat, g \in Nat, q \in BOOLEAN :
           ClientPart(cl, got, srv.sent, conns, v, x, k, l, g, q)
  BY <1>1 DEF Connected
<1>3. /\ srv.sent = Slice(Units(conns), 0, l) /\ got = Slice(Units(conns), 0, g)
      /\ (q => x.units = l) /\ cl.closeNotify = q /\ Holds(cl, conns, g, x)
  BY <1>2 DEF ClientPart, Client
<1>4. x.units = l
  BY <1>3
<1>5. PICK r, base, len : r = cl.readed /\ base = g - r /\ len = l - base
  OBVIOUS
<1>6. r \in 0 .. g /\ g <= l /\ cl.channel = Slice(Units(conns), base, len)
  BY <1>3, <1>4, <1>5 DEF Holds
<1>7. base \in Nat /\ len \in Nat /\ r \in Nat
  BY <1>5, <1>6
<1>8. Len(cl.channel) = len
  <2>1. PICK f : f = Units(conns)
    OBVIOUS
  <2>2. Len(Slice(f, base, len)) = len
    BY <1>7, SliceProperties
  <2> QED
    BY <1>6, <2>1, <2>2
<1>9. len <= r
  BY <1>5, <1>7, <1>8 DEF Unread
<1>10. g = l
  BY <1>5, <1>6, <1>9
<1> QED
  BY <1>3, <1>10

\* A recv that ends the stream has returned all of it.
LEMMA RecvMaps ==
  ASSUME TlsInv, NEW size \in ReadSizes, Recv(size)
  PROVE  [Stream!Next]_(Stream!vars)
<1>1. status = "up" /\ got' = got
  BY DEF Recv
<1>2. CASE cl.closeNotify /\ ~Unread(cl)
  <2>1. Settle(ClosedClient(None)) /\ status' = "end"
    BY <1>2 DEF Recv
  <2>2. SentStays
    BY <2>1, SettleKeepsSent
  <2>3. got = srv.sent
    BY <1>1, <1>2, ReadToTheEnd
  <2> QED
    BY <1>1, <2>1, <2>2, <2>3 DEF SentStays, Stream!Next, Stream!End
<1>3. CASE ~(cl.closeNotify /\ ~Unread(cl))
  <2>1. status' = status /\ srv' = srv
    BY <1>3 DEF Recv
  <2> QED
    BY <1>1, <2>1, CallMaps DEF SentStays
<1> QED
  BY <1>2, <1>3

\* The first j units of l are the units of a stream.
LEMMA StreamPart ==
  ASSUME NEW f, NEW l \in Nat, NEW j \in Nat, j <= l
  PROVE  SubSeq(Slice(f, 0, l), 1, j) = Slice(f, 0, j)
<1>1. PICK zero \in Nat, one \in Nat : zero = 0 /\ one = 1
  OBVIOUS
<1>2. zero + j <= l /\ one = zero + 1 /\ j = zero + j /\ zero = zero + zero
  BY <1>1
<1>3. IsPart(f, zero, l, one, j, zero, j)
  BY <1>2, SlicePart
<1> QED
  BY <1>1, <1>3 DEF IsPart

\* A recv that returns reads the next units of the stream.
LEMMA RecvReturnMaps ==
  ASSUME TlsInv, RecvReturn
  PROVE  [Stream!Next]_(Stream!vars)
<1>1. PICK v \in Versions, x \in Position, k \in Nat, l \in Nat, g \in Nat, q \in BOOLEAN,
           size \in Nat \ {0}, m \in Nat : Returned(v, x, k, l, g, q, size, m)
  BY ReturnsUnits DEF HasReturned
<1>2. status' = status /\ srv' = srv
  BY DEF RecvReturn
<1>3. PICK f : f = Units(conns)
  OBVIOUS
<1>4. /\ srv.sent = Slice(f, 0, l) /\ got = Slice(f, 0, g) /\ x.units <= l
      /\ status = "up" /\ g + m <= x.units /\ got' = got \o ReadUnits(cl, size)
  BY <1>1, <1>3 DEF Returned, ClientPart, Returns
<1>5. got' = Slice(f, 0, g + m)
  <2>1. got \o ReadUnits(cl, size) = Slice(f, 0, g + m)
    BY <1>1, <1>3, <1>4 DEF Returned, Returns
  <2> QED
    BY <1>4, <2>1
<1>6. g + m \in Nat /\ g + m <= l
  BY <1>4, PositionFacts
<1>7. CASE m = 0
  <2>1. g + m = g
    BY <1>7
  <2> QED
    BY <1>2, <1>4, <1>5, <2>1, CallMaps DEF SentStays
<1>8. CASE m # 0
  <2>1. 0 \in Nat
    OBVIOUS
  <2>2. Len(Slice(f, 0, g)) = g /\ Len(Slice(f, 0, l)) = l
    BY <2>1, SliceProperties
  <2>3. Len(got) = g /\ Len(srv.sent) = l
    BY <1>4, <2>2
  <2>4. g + m \in Len(got) + 1 .. Len(srv.sent)
    BY <1>6, <1>8, <2>3
  <2>5. SubSeq(Slice(f, 0, l), 1, g + m) = Slice(f, 0, g + m)
    BY <1>6, StreamPart
  <2>6. got' = SubSeq(srv.sent, 1, g + m)
    BY <1>4, <1>5, <2>5
  <2> QED
    BY <1>2, <1>4, <2>4, <2>6 DEF Stream!Next, Stream!Read
<1> QED
  BY <1>7, <1>8

\* The server's data is written to the stream.
LEMMA ServerDataMaps ==
  ASSUME TlsInv, ServerData
  PROVE  [Stream!Next]_(Stream!vars)
<1>1. PICK n, data : /\ n \in 1 .. 2 /\ data = [i \in 1 .. n |-> Unit(Len(srv.sent) + i)]
                     /\ Deliver([srv EXCEPT !.sent = @ \o data], "data", data)
  BY DEF ServerData
<1>2. PICK s : s = [srv EXCEPT !.sent = srv.sent \o data]
  OBVIOUS
<1>3. DOMAIN srv = SrvFields
  BY DEF TlsInv, Base
<1>4. DOMAIN s = SrvFields /\ s.sent = srv.sent \o data
  BY <1>2, <1>3 DEF SrvFields
<1>5. srv'.sent = s.sent
  <2>1. PICK r : srv' = [s EXCEPT !.serverSeq = IF r.key = Plain THEN @ ELSE @ + 1]
    BY <1>1, <1>2 DEF Deliver
  <2> QED
    BY <1>4, <2>1 DEF SrvFields
<1>6. link = "up"
  BY DEF ServerData, MayWrite
<1>7. PICK l \in Nat : \E f : srv.sent = Slice(f, 0, l)
  <2>1. Connected
    BY <1>6 DEF TlsInv, Closed
  <2>2. PICK v \in Versions, x \in Position, k \in Nat, l \in Nat, g \in Nat, q \in BOOLEAN :
             ClientPart(cl, got, srv.sent, conns, v, x, k, l, g, q)
    BY <2>1 DEF Connected
  <2> QED
    BY <2>2 DEF ClientPart
<1>f. PICK f : srv.sent = Slice(f, 0, l)
  BY <1>7
<1>8. PICK S : S = Values(f) \cup {data[i] : i \in 1 .. n}
  OBVIOUS
<1>9. PICK a : a = srv.sent
  OBVIOUS
<1>10. a \in Seq(S) /\ data \in Seq(S) /\ Len(data) = n
  <2>1. 0 \in Nat
    OBVIOUS
  <2>2. a \in Seq(Values(f))
    BY <1>f, <1>9, <2>1, SliceProperties
  <2>3. n \in Nat
    BY <1>1
  <2>4. data \in [1 .. n -> S]
    BY <1>1, <1>8
  <2>5. a \in Seq(S)
    <3>1. Values(f) \subseteq S
      BY <1>8
    <3> QED
      BY <2>2, <3>1
  <2>6. data \in Seq(S) /\ Len(data) = n
    BY <2>3, <2>4
  <2> QED
    BY <2>5, <2>6
<1>11. Len(a \o data) > Len(a) /\ SubSeq(a \o data, 1, Len(a)) = a
  <2>1. Len(a \o data) = Len(a) + n /\ n >= 1 /\ Len(a) \in Nat
    BY <1>1, <1>10
  <2>2. Len(a \o data) > Len(a)
    BY <1>1, <2>1
  <2>3. SubSeq(a \o data, 1, Len(a)) = a
    BY <1>10
  <2> QED
    BY <2>2, <2>3
<1>12. got' = got /\ status' = status
  BY DEF ServerData
<1>13. srv'.sent = a \o data
  BY <1>4, <1>5, <1>9
<1> QED
  BY <1>9, <1>11, <1>12, <1>13 DEF Stream!Next, Stream!Write

\* The server's other steps send nothing of the stream.
LEMMA DeliverKeepsSent ==
  ASSUME NEW s, NEW type, NEW msgs, Deliver(s, type, msgs), DOMAIN s = SrvFields, s.sent = srv.sent
  PROVE  SentStays
<1>1. PICK r : srv' = [s EXCEPT !.serverSeq = IF r.key = Plain THEN @ ELSE @ + 1]
  BY DEF Deliver
<1> QED
  BY <1>1 DEF SrvFields, SentStays

\* A ticket is not part of the stream.
LEMMA ServerTicketKeepsSent ==
  ASSUME TlsInv, ServerTicket
  PROVE  SentStays
<1>1. PICK s : s = [srv EXCEPT !.extra = TRUE]
  OBVIOUS
<1>2. DOMAIN s = SrvFields /\ s.sent = srv.sent
  BY <1>1 DEF TlsInv, Base, SrvFields
<1> QED
  BY <1>1, <1>2, DeliverKeepsSent DEF ServerTicket

\* Nor is a warning.
LEMMA ServerWarningKeepsSent ==
  ASSUME TlsInv, ServerWarning
  PROVE  SentStays
<1>1. PICK s : s = [srv EXCEPT !.extra = TRUE]
  OBVIOUS
<1>2. DOMAIN s = SrvFields /\ s.sent = srv.sent
  BY <1>1 DEF TlsInv, Base, SrvFields
<1> QED
  BY <1>1, <1>2, DeliverKeepsSent DEF ServerWarning, ServerWarns

\* Nor is close_notify.
LEMMA ServerNotifyKeepsSent ==
  ASSUME TlsInv, ServerNotify
  PROVE  SentStays
<1>1. PICK s : s = [srv EXCEPT !.notified = TRUE]
  OBVIOUS
<1>2. DOMAIN s = SrvFields /\ s.sent = srv.sent
  BY <1>1 DEF TlsInv, Base, SrvFields
<1> QED
  BY <1>1, <1>2, DeliverKeepsSent DEF ServerNotify

\* The answer to the hello is not part of the stream.
LEMMA ServerHelloKeepsSent ==
  ASSUME TlsInv, ServerHello
  PROVE  SentStays
<1>1. PICK ver :
        srv' = [srv EXCEPT
          !.ver = ver, !.hash = << Hashed(Head(toServer).msgs[1]) >>,
          !.localKey = Key("server", "12", << Head(toServer).msgs[1].body.rand, conns >>),
          !.remoteKey = Key("client", "12", << Head(toServer).msgs[1].body.rand, conns >>),
          !.flight = IF ver = "tls13"
                     THEN << "SH", "CCS", "EE", "Cert", "CV", "Fin" >>
                     ELSE << "SH", "Cert", "SKE", "SHD" >>]
  BY DEF ServerHello, ServerAnswers, Flight
<1>2. DOMAIN srv = SrvFields
  BY DEF TlsInv, Base
<1> QED
  BY <1>1, <1>2 DEF SrvFields, SentStays

\* Nor is what the server switches to.
LEMMA SwitchKeepsSent ==
  ASSUME NEW s, NEW name, NEW hash, DOMAIN s = SrvFields
  PROVE  DOMAIN ServerSwitch(s, name, hash) = SrvFields /\ ServerSwitch(s, name, hash).sent = s.sent
<1>1. CASE name = "SH" /\ s.ver = "tls13"
  BY <1>1 DEF ServerSwitch, SrvFields
<1>2. CASE name = "CCS" /\ s.ver = "tls12"
  BY <1>2 DEF ServerSwitch, SrvFields
<1>3. CASE name = "Fin" /\ s.ver = "tls13"
  BY <1>3 DEF ServerSwitch, SrvFields
<1>4. CASE /\ ~(name = "SH" /\ s.ver = "tls13") /\ ~(name = "CCS" /\ s.ver = "tls12")
           /\ ~(name = "Fin" /\ s.ver = "tls13")
  BY <1>4 DEF ServerSwitch, SrvFields
<1> QED
  BY <1>1, <1>2, <1>3, <1>4

\* Nor are the handshake messages.
LEMMA ServerFlightKeepsSent ==
  ASSUME TlsInv, ServerFlight
  PROVE  SentStays
<1>1. PICK j, names, r :
         /\ names = SubSeq(srv.flight, 1, j)
         /\ r = ServerRecord(srv, IF names = << "CCS" >> THEN "ccs" ELSE "hs", ServerSays(srv, names).msgs)
         /\ srv' = [ServerSwitch([srv EXCEPT !.serverSeq = IF r.key = Plain THEN @ ELSE @ + 1,
                                             !.flight = SubSeq(@, j + 1, Len(@))],
                                 names[j], ServerSays(srv, names).hash) EXCEPT
                      !.complete = srv.ver = "tls12" /\ names[j] = "Fin"]
  BY ZenonT(60) DEF ServerFlight
<1>2. PICK s : s = [srv EXCEPT !.serverSeq = IF r.key = Plain THEN @ ELSE @ + 1,
                               !.flight = SubSeq(@, j + 1, Len(@))]
  OBVIOUS
<1>3. DOMAIN s = SrvFields /\ s.sent = srv.sent
  BY <1>2 DEF TlsInv, Base, SrvFields
<1>4. PICK t, done : /\ t = ServerSwitch(s, names[j], ServerSays(srv, names).hash)
                     /\ done = (srv.ver = "tls12" /\ names[j] = "Fin")
  OBVIOUS
<1>5. DOMAIN t = SrvFields /\ t.sent = srv.sent
  BY <1>3, <1>4, SwitchKeepsSent
<1>6. srv' = [t EXCEPT !.complete = done]
  BY <1>1, <1>2, <1>4
<1> QED
  BY <1>5, <1>6 DEF SrvFields, SentStays

\* What the server takes is not part of what it writes.
LEMMA TakenKeepsSent ==
  ASSUME NEW s, NEW r, DOMAIN s = SrvFields
  PROVE  Taken(s, r).sent = s.sent
<1>1. PICK c : c = CountedFor(s, r)
  OBVIOUS
<1>2. DOMAIN c = SrvFields /\ c.sent = s.sent
  BY <1>1 DEF CountedFor, SrvFields
<1>3. PICK h : h = HashedFor(s, r)
  OBVIOUS
<1>4. DOMAIN h = SrvFields /\ h.sent = s.sent
  BY <1>1, <1>2, <1>3 DEF HashedFor, SrvFields
<1> QED
  BY <1>1, <1>2, <1>3, <1>4 DEF Taken, SrvFields

\* The server takes a record, or breaks off.
LEMMA ServerReceiveKeepsSent ==
  ASSUME TlsInv, ServerReceive
  PROVE  SentStays
<1>1. DOMAIN srv = SrvFields
  BY DEF TlsInv, Base
<1>2. PICK r : r = Head(toServer)
  OBVIOUS
<1>3. CASE Accepts(srv, r)
  <2>1. srv' = Taken(srv, r)
    BY <1>2, <1>3, ReceiveAccepted
  <2> QED
    BY <1>1, <2>1, TakenKeepsSent DEF SentStays
<1>4. CASE ~Accepts(srv, r)
  <2>1. srv' = Gone([srv EXCEPT !.rejected = TRUE])
    BY <1>2, <1>4 DEF ServerReceive, Accepts, OpensFor, VerifiedFor, ClearFor
  <2>2. PICK s : s = [srv EXCEPT !.rejected = TRUE]
    OBVIOUS
  <2>3. s.sent = srv.sent
    BY <1>1, <2>2 DEF SrvFields
  <2>4. Gone(s).sent = s.sent
    BY GoneFacts
  <2> QED
    BY <2>1, <2>2, <2>3, <2>4 DEF SentStays
<1> QED
  BY <1>3, <1>4

\* A closed object is a stream that is down.
LEMMA InitMaps ==
  ASSUME Init
  PROVE  Stream!Init
<1>1. NoServer.sent = << >>
  BY DEF NoServer
<1> QED
  BY <1>1 DEF Init, Stream!Init

\* Every step of the usual course is a step of the stream, or none.
LEMMA StepMaps ==
  ASSUME TlsInv, [Usual]_tlsVars
  PROVE  [Stream!Next]_(Stream!vars)
<1>1. ASSUME NEW offer \in Offers, Open(offer) PROVE [Stream!Next]_(Stream!vars)
  BY <1>1, ConnectMaps DEF Open
<1>2. CASE OpenFails
  BY <1>2, ConnectMaps DEF OpenFails
<1>3. CASE OpenReceive
  BY <1>3, OpenReceiveMaps
<1>4. CASE Send
  <2>1. PICK c : Settle(c)
    BY <1>4 DEF Send
  <2> QED
    BY <1>4, <2>1, SettleKeepsSent, CallMaps DEF Send
<1>5. ASSUME NEW size \in ReadSizes, Recv(size) PROVE [Stream!Next]_(Stream!vars)
  BY <1>5, RecvMaps
<1>6. CASE RecvReceive
  BY <1>6, RecvReceiveMaps
<1>7. CASE RecvReturn
  BY <1>7, RecvReturnMaps
<1>8. CASE RecvTimeout
  BY <1>8, CallMaps DEF RecvTimeout, SentStays
<1>9. CASE Close
  <2>1. Settle(ClosedClient(None)) /\ status' = "down" /\ got' = got
    BY <1>9 DEF Close
  <2> QED
    BY <2>1, SettleKeepsSent, CallMaps
<1>10. CASE ServerHello
  BY <1>10, ServerHelloKeepsSent, CallMaps DEF ServerHello, ServerAnswers
<1>11. CASE ServerFlight
  BY <1>11, ServerFlightKeepsSent, CallMaps DEF ServerFlight
<1>12. CASE ServerReceive
  BY <1>12, ServerReceiveKeepsSent, CallMaps DEF ServerReceive
<1>13. CASE ServerData
  BY <1>13, ServerDataMaps
<1>14. CASE ServerTicket
  BY <1>14, ServerTicketKeepsSent, CallMaps DEF ServerTicket
<1>15. CASE ServerWarning
  BY <1>15, ServerWarningKeepsSent, CallMaps DEF ServerWarning, ServerWarns
<1>16. CASE ServerNotify
  BY <1>16, ServerNotifyKeepsSent, CallMaps DEF ServerNotify
<1>17. CASE ServerFatal
  BY <1>17, GoneKeepsSent, CallMaps DEF ServerFatal
<1>18. CASE ServerFin
  BY <1>18, GoneKeepsSent, CallMaps DEF ServerFin
<1>19. CASE Break
  BY <1>19, GoneKeepsSent, CallMaps DEF Break
<1>20. CASE UNCHANGED tlsVars
  BY <1>20, CallMaps DEF tlsVars, SentStays
<1> QED
  BY <1>1, <1>2, <1>3, <1>4, <1>5, <1>6, <1>7, <1>8, <1>9, <1>10, <1>11, <1>12, <1>13, <1>14,
     <1>15, <1>16, <1>17, <1>18, <1>19, <1>20 DEF Usual

\* With servers that keep to the usual course tls_client is a byte stream for its
\* caller: recv returns what the server of this connection has written, in order and
\* once, and a stream that ends with close_notify was read to its end. The code
\* behind it: process_recv, on_packet, read_channel and recv.
THEOREM ClientIsStream == Spec /\ [](course = "usual") => ImplementsStream
<1>1. Init => Stream!Init
  BY InitMaps
<1>2. /\ course = "usual" => TlsInv
      /\ [Next]_vars
      /\ (course = "usual")'
      => [Stream!Next]_(Stream!vars)
  <2> SUFFICES ASSUME course = "usual" => TlsInv, [Next]_vars, course' = "usual"
               PROVE  [Stream!Next]_(Stream!vars)
    OBVIOUS
  <2>1. course = "usual" /\ [Usual]_tlsVars
    BY UsualStep
  <2> QED
    BY <2>1, StepMaps
<1> QED
  BY <1>1, <1>2, TlsInvariant, PTL DEF Spec, ImplementsStream, Stream!Spec
==============================================================================
