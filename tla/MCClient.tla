------------------------------ MODULE MCClient ------------------------------
(* Values of the constants for TLC, and the round trip of every message.   *)
EXTENDS ClientProperties

(* Bound of the check: the elements of a list.                             *)
LongestList == 5

(* The message of a type with the value v in every field that is kept.     *)
Sample(sends, type, v) ==
  LET fields == {f.name : f \in Range(sends[type].head)} \cap Tracked
  IN [f \in fields \cup {"type"} |->
        CASE f = "type" -> type [] f = "size" -> Min({v, LongestList}) [] OTHER -> v]

(* What one side writes the other reads back: the same type and values,    *)
(* and not a byte more or less.                                            *)
Survives(sends, reads, m) ==
  LET bytes == Encode(sends, m)
      type  == TypeOf(reads, Head(bytes))
      r     == Decode(reads, type, Tail(bytes))
  IN type = m.type /\ r.msg = m /\ r.bytes = <<>> /\ ~r.threw

Agree(sends, reads, values) ==
  \A type \in DOMAIN sends \cap DOMAIN reads, v \in values :
    Survives(sends, reads, Sample(sends, type, v))

(* All messages of the protocol survive the wire, in both directions, with *)
(* lists that are empty or not.                                            *)
ASSUME RoundTrip ==
  LET values == {0, 1, 127, 128, 255} IN
    /\ Agree(ServerSends, ClientReads @@ LobbyReads, values)
    /\ Agree(ClientSends, ServerReads, values)
    /\ \A v \in {-25600, -1, 0, 1, 25600} : Value(Bytes(v, F32("health")), F32("health")) = v
    /\ DOMAIN ServerSends = DOMAIN (ClientReads @@ LobbyReads)
    /\ DOMAIN ClientSends = DOMAIN ServerReads
=============================================================================
