---------------------------- MODULE TlsByteStream ----------------------------
(* What tls_client promises the code that calls open, send, recv and close:   *)
(* one connection at a time is a stream of units that the peer writes and     *)
(* recv returns in order, each once. A stream that ends with "end" was read   *)
(* completely; one that ends with "error" may have lost its unread rest.      *)
EXTENDS Naturals, Sequences

VARIABLES sent,     \* units the peer has written on the current connection
          got,      \* units recv has returned on the current connection
          status    \* "down", "up", "end" or "error"

vars == << sent, got, status >>

Init == sent = << >> /\ got = << >> /\ status = "down"

Connect ==
  /\ status' \in {"down", "error"}
  /\ sent' = << >> /\ got' = << >>

Up ==
  /\ status = "down" /\ status' = "up"
  /\ UNCHANGED << sent, got >>

\* The peer writes while the client is still connecting, reading or gone.
Write ==
  /\ Len(sent') > Len(sent) /\ SubSeq(sent', 1, Len(sent)) = sent
  /\ UNCHANGED << got, status >>

Read ==
  /\ status = "up"
  /\ \E k \in Len(got) + 1 .. Len(sent) : got' = SubSeq(sent, 1, k)
  /\ UNCHANGED << sent, status >>

End ==
  /\ status = "up" /\ got = sent
  /\ status' = "end" /\ UNCHANGED << sent, got >>

Fail ==
  /\ status' \in {"error", "down"} /\ UNCHANGED << sent, got >>

Next == Connect \/ Up \/ Write \/ Read \/ End \/ Fail

Spec == Init /\ [][Next]_vars
==============================================================================
