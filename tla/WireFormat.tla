------------------------------ MODULE WireFormat ------------------------------
(***************************************************************************)
(* How packets become bytes and bytes packets again: the framing that      *)
(* tcp_server.cpp, transport.cpp with native_main.cpp, and protocol.py     *)
(* share, and the three parsers of the "key=value;key=value" payloads.     *)
(*                                                                         *)
(* A wire is a sequence of cells: a header is HeaderSize of them, so that  *)
(* it can be cut, a payload as many as its size.                           *)
(***************************************************************************)
EXTENDS Naturals, SequencesExt

HeaderSize == 2         \* kPacketHeaderSize, which is 32

(* What a header says; sane is the magic number and the version. *)
Header(sane, type, size) == [sane |-> sane, type |-> type, size |-> size]
NoHeader == Header(FALSE, "none", 0)

Pack(h) == [k \in 1..HeaderSize |-> <<h, "header", k>>]
Payload(h) == [k \in 1..h.size |-> <<h, "payload", k>>]
Send(h) == Pack(h) \o Payload(h)

(* what a connection carries after these packets *)
Wire(hs) ==
  LET wire[k \in 0..Len(hs)] == IF k = 0 THEN <<>> ELSE wire[k - 1] \o Send(hs[k])
  IN wire[Len(hs)]

(* bytes that are no header do not look like one *)
Unpack(cells) == IF cells = Pack(cells[1][1]) THEN cells[1][1] ELSE NoHeader

KnownTypes == {"HELLO", "CONFIG", "VIDEO", "POSE", "STATS", "BEAT", "BYE", "ERROR"}

(* the checks on a header; each receiver has its own limit *)
Accepts(h, limit) == h.sane /\ h.type \in KnownTypes /\ h.size <= limit

-----------------------------------------------------------------------------
(* A receiver: what is still on the wire, how much each recv() returns at  *)
(* most, what readExact has got so far, the packets handled, and whether   *)
(* it has returned.                                                        *)
Receiver(wire, cuts) ==
  [wire |-> wire, cuts |-> cuts, got |-> <<>>, out |-> <<>>, left |-> FALSE]

Smallest(S) == CHOOSE n \in S : \A m \in S : n <= m

(* recv(): 0 at the end of the stream *)
Recv(r, want) ==
  LET n == Smallest({want, Len(r.wire)}
                    \union {r.cuts[k] : k \in DOMAIN r.cuts \intersect {1}})
  IN [r EXCEPT !.got = @ \o SubSeq(r.wire, 1, n),
               !.wire = SubSeq(@, n + 1, Len(@)),
               !.cuts = IF @ = <<>> THEN @ ELSE Tail(@),
               !.left = n = 0]

(* mutant: one recv() has to do *)
ReadExactOnce(r, size) == Recv([r EXCEPT !.got = <<>>], size)

ReadSome(r, size) ==
  IF r.left \/ Len(r.got) = size THEN r ELSE Recv(r, size - Len(r.got))

(* as many rounds as there may be recv()s *)
ReadExact(r, size) ==
  LET round[k \in 0..size] == IF k = 0 THEN [r EXCEPT !.got = <<>>]
                              ELSE ReadSome(round[k - 1], size)
  IN round[size]

(* clientLoop and receiveHostPackets, one packet, unless they have returned *)
ReadPacket(r, limit) ==
  LET head == ReadExact(r, HeaderSize)
      h == Unpack(head.got)
      body == ReadExact(head, h.size)
  IN IF r.left THEN r
     ELSE IF head.left THEN head
     ELSE IF ~Accepts(h, limit) THEN [head EXCEPT !.left = TRUE]
     ELSE IF body.left THEN body
     ELSE [body EXCEPT !.out = Append(@, <<h, body.got>>)]

(* as many rounds as there may be packets *)
Receive(wire, cuts, limit) ==
  LET round[k \in 0..Len(wire)] == IF k = 0 THEN Receiver(wire, cuts)
                                   ELSE ReadPacket(round[k - 1], limit)
  IN round[Len(wire)].out

(* Reference: the packets that are complete, up to the first refused one. *)
Ends(hs) == [k \in DOMAIN hs |-> Len(Wire(SubSeq(hs, 1, k)))]

Arrives(hs, length, limit) ==
  LET good == {k \in DOMAIN hs :
                 /\ Ends(hs)[k] <= length
                 /\ \A j \in 1..k : Accepts(hs[j], limit)}
  IN [k \in good |-> <<hs[k], Payload(hs[k])>>]

-----------------------------------------------------------------------------
(* Payload texts: sequences of ";", "newline", "=", "blank" and letters. *)
Extend(fields, c, separators) ==
  IF c \in separators THEN Append(fields, <<>>)
  ELSE [fields EXCEPT ![Len(fields)] = Append(@, c)]

Fields(text, separators) ==
  LET fields[k \in 0..Len(text)] ==
        IF k = 0 THEN << <<>> >> ELSE Extend(fields[k - 1], text[k], separators)
  IN fields[Len(text)]

HasEqual(field) == Contains(field, "=")
Equal(field) == CHOOSE i \in DOMAIN field :
                  field[i] = "=" /\ \A j \in 1..i - 1 : field[j] # "="
Key(field) == SubSeq(field, 1, Equal(field) - 1)
Value(field) == SubSeq(field, Equal(field) + 1, Len(field))

Strip(text) ==
  LET solid == {i \in DOMAIN text : text[i] # "blank"} IN
  IF solid = {} THEN <<>> ELSE SubSeq(text, Min(solid), Max(solid))

(* the value of the chosen one of the fields that have key, <<>> for none *)
Pick(fields, found, choice(_)) ==
  IF found = {} THEN <<>> ELSE Value(fields[choice(found)])

(* mutant: a field that only begins with the key is taken *)
FindKeyValuePrefix(text, key) ==
  LET fields == Fields(text, {";", "newline"}) IN
  Pick(fields, {k \in DOMAIN fields : HasEqual(fields[k]) /\ IsPrefix(key, fields[k])},
       Min)

(* findKeyValue of the headset *)
FindKeyValue(text, key) ==
  LET fields == Fields(text, {";", "newline"}) IN
  Pick(fields, {k \in DOMAIN fields : HasEqual(fields[k]) /\ Key(fields[k]) = key},
       Min)

(* parseKeyValuePayload of the demo, whose map keeps the first of a key *)
ParseKeyValue(text, key) ==
  LET fields == Fields(text, {";"}) IN
  Pick(fields, {k \in DOMAIN fields : HasEqual(fields[k]) /\ Key(fields[k]) = key},
       Min)

(* parse_key_value_payload of the Python host, whose dict keeps the last *)
ParsePython(text, key) ==
  LET fields == Fields(text, {";", "newline"})
      found == {k \in DOMAIN fields :
                  HasEqual(fields[k]) /\ Strip(Key(fields[k])) = key}
  IN Strip(Pick(fields, found, Max))
=============================================================================
