----------------------------- MODULE NalSplitter -----------------------------
(***************************************************************************)
(* The two programs that cut a byte stream at start codes into NAL units   *)
(* and group them into access units: the reader thread of an _H264Encoder  *)
(* (video.py), which gets ffmpeg's output in chunks of any length, and     *)
(* loadH264TestStream of host_bridge_demo.cpp, which has the whole file.   *)
(* Data are sequences of bytes; a position counts from 1, and 0 is none.   *)
(***************************************************************************)
EXTENDS Naturals, SequencesExt

At(code, data, i) ==
  /\ i + Len(code) - 1 <= Len(data)
  /\ \A k \in 1..Len(code) : data[i + k - 1] = code[k]

StartCodeSize(data, i) ==
  CASE At(<<0, 0, 1>>, data, i) -> 3
    [] At(<<0, 0, 0, 1>>, data, i) -> 4
    [] OTHER -> 0

FindStartCode(data, from) ==
  LET found == {i \in from..Len(data) : StartCodeSize(data, i) # 0}
  IN IF found = {} THEN 0 ELSE Min(found)

Payload(nal) == SubSeq(nal, StartCodeSize(nal, 1) + 1, Len(nal))
Type(nal) == Payload(nal)[1] % 32
IsVcl(nal) == Payload(nal) # <<>> /\ Type(nal) \in 1..5
IsAud(nal) == Payload(nal) # <<>> /\ Type(nal) = 9

(* _first_mb_in_slice is 0: the Exp-Golomb code of 0 is a single 1 bit,    *)
(* and no emulation byte can come before it.                               *)
FirstSlice(nal) ==
  IsVcl(nal) /\ Len(Payload(nal)) >= 2 /\ Payload(nal)[2] >= 128

(* mutant: only a delimiter starts an access unit *)
StartsAtDelimiter(nal) == IsAud(nal)

Starts(nal) == IsAud(nal) \/ FirstSlice(nal)

-----------------------------------------------------------------------------
(* The thread's state: its buffer, _current_nals joined, _current_has_vcl, *)
(* and the access units it has put into the queue.                         *)
Fresh == [buffer |-> <<>>, unit |-> <<>>, vcl |-> FALSE, units |-> <<>>]

EmitCurrent(r) ==
  [r EXCEPT !.units = IF r.vcl THEN Append(@, r.unit) ELSE @,
            !.unit = <<>>, !.vcl = FALSE]

ProcessNal(r, nal) ==
  IF StartCodeSize(nal, 1) = 0 \/ Payload(nal) = <<>> THEN r
  ELSE LET before == IF Starts(nal) /\ r.vcl THEN EmitCurrent(r) ELSE r
       IN [before EXCEPT !.unit = @ \o nal, !.vcl = @ \/ IsVcl(nal)]

(* mutant: what follows the last complete NAL unit is thrown away *)
NextNalForgets(r) ==
  LET second == FindStartCode(r.buffer, StartCodeSize(r.buffer, 1) + 1) IN
  IF second = 0 THEN [r EXCEPT !.buffer = <<>>]
  ELSE ProcessNal([r EXCEPT !.buffer = SubSeq(r.buffer, second, Len(r.buffer))],
                  SubSeq(r.buffer, 1, second - 1))

(* one round of the inner loop: a NAL unit is complete when a start code   *)
(* follows it                                                              *)
NextNal(r) ==
  LET first == FindStartCode(r.buffer, 1)
      data == SubSeq(r.buffer, first, Len(r.buffer))
      second == FindStartCode(data, StartCodeSize(data, 1) + 1)
  IN IF first = 0 THEN [r EXCEPT !.buffer = <<>>]
     ELSE IF second = 0 THEN [r EXCEPT !.buffer = data]
     ELSE ProcessNal([r EXCEPT !.buffer = SubSeq(data, second, Len(data))],
                     SubSeq(data, 1, second - 1))

(* as many rounds as there may be NAL units; the last ones change nothing *)
Drain(r) ==
  LET rounds == Len(r.buffer) \div 3 + 1
      after[k \in 0..rounds] == IF k = 0 THEN r ELSE NextNal(after[k - 1])
  IN after[rounds]

ReadChunk(r, chunk) == Drain([r EXCEPT !.buffer = @ \o chunk])

(* the end of ffmpeg's output *)
ReadEnd(r) ==
  EmitCurrent(IF r.buffer = <<>> THEN r ELSE ProcessNal(r, r.buffer))

AccessUnits(chunks) ==
  LET after[k \in 0..Len(chunks)] ==
        IF k = 0 THEN Fresh ELSE ReadChunk(after[k - 1], chunks[k])
  IN ReadEnd(after[Len(chunks)]).units

-----------------------------------------------------------------------------
(* loadH264TestStream.  Only types 1 and 5 are slices to it, and a slice   *)
(* whose first_mb_in_slice cannot be read counts as the first of a picture. *)
Rbsp(bytes) ==
  LET kept == {i \in DOMAIN bytes :
                 ~(i > 2 /\ bytes[i] = 3 /\ bytes[i - 1] = 0 /\ bytes[i - 2] = 0)}
  IN FlattenSeq([i \in DOMAIN bytes |-> IF i \in kept THEN <<bytes[i]>> ELSE <<>>])

Bits(bytes) ==
  FlattenSeq([i \in DOMAIN bytes |->
                [k \in 1..8 |-> (bytes[i] \div 2^(8 - k)) % 2]])

FirstOrUnreadable(nal) ==
  LET bits == Bits(Rbsp(Tail(Payload(nal))))
      ones == {k \in DOMAIN bits : bits[k] = 1}
      zeros == IF ones = {} THEN Len(bits) ELSE Min(ones) - 1
  IN zeros = 0 \/ zeros > 31 \/ Len(bits) < 2 * zeros + 1

LoadFresh(data) ==
  [at |-> FindStartCode(data, 1), unit |-> <<>>, vcl |-> FALSE, key |-> FALSE,
   units |-> <<>>]

PushUnit(r) ==
  [r EXCEPT !.units = Append(@, [data |-> r.unit, key |-> r.key]),
            !.unit = <<>>, !.vcl = FALSE, !.key = FALSE]

(* one round of the while loop *)
LoadNal(r, data) ==
  LET next == FindStartCode(data, r.at + StartCodeSize(data, r.at))
      nal == SubSeq(data, r.at, IF next = 0 THEN Len(data) ELSE next - 1)
      slice == Type(nal) \in {1, 5}
      ends == \/ slice /\ r.vcl /\ FirstOrUnreadable(nal)
              \/ Type(nal) = 9 /\ r.unit # <<>>
      q == IF ends THEN PushUnit(r) ELSE r
  IN IF r.at = 0 THEN r
     ELSE IF Payload(nal) = <<>> THEN [r EXCEPT !.at = next]
     ELSE [q EXCEPT !.at = next, !.unit = @ \o nal,
                    !.vcl = @ \/ slice, !.key = @ \/ Type(nal) = 5]

LoadTestStream(data) ==
  LET after[k \in 0..Len(data)] ==
        IF k = 0 THEN LoadFresh(data) ELSE LoadNal(after[k - 1], data)
      last == after[Len(data)]
      units == (IF last.unit = <<>> THEN last ELSE PushUnit(last)).units
  IN IF units = <<>> THEN <<[data |-> data, key |-> TRUE]>> ELSE units

-----------------------------------------------------------------------------
(* Reference: the stream as a whole.  A NAL unit begins at every 00 00 01, *)
(* with the 00 before it; an access unit begins at a NAL unit that starts  *)
(* one, if since the last delimiter there has been a slice.                *)
Begins(data) ==
  {IF i > 1 /\ data[i - 1] = 0 THEN i - 1 ELSE i :
     i \in {j \in 1..Len(data) : At(<<0, 0, 1>>, data, j)}}

(* The first n parts joined into pieces that begin at the positions of     *)
(* cuts, without the parts before the first.                               *)
NextPiece(pieces, parts, cuts, k) ==
  IF k \in cuts THEN Append(pieces, parts[k])
  ELSE IF pieces = <<>> THEN <<>>
  ELSE [pieces EXCEPT ![Len(pieces)] = @ \o parts[k]]

PiecesTo(n, parts, cuts) ==
  LET upTo[k \in 0..n] ==
        IF k = 0 THEN <<>> ELSE NextPiece(upTo[k - 1], parts, cuts, k)
  IN upTo[n]

Pieces(parts, cuts) == PiecesTo(Len(parts), parts, cuts)

Nals(data) == Pieces([i \in DOMAIN data |-> <<data[i]>>], Begins(data))

(* before NAL unit k there is a slice, and no delimiter after it *)
Open(nals, k) ==
  \E j \in 1..k - 1 : IsVcl(nals[j]) /\ \A m \in j + 1..k - 1 : ~IsAud(nals[m])

UnitBegins(nals) ==
  {k \in 1..Len(nals) :
     k = 1 \/ ((IsAud(nals[k]) \/ FirstSlice(nals[k])) /\ Open(nals, k))}

(* without the NAL units that have no payload *)
UnitsOf(nals) ==
  Pieces([k \in DOMAIN nals |-> IF Payload(nals[k]) = <<>> THEN <<>> ELSE nals[k]],
         UnitBegins(nals))

(* what is left at the end is an access unit if it has a slice *)
Reference(data) ==
  LET nals == Nals(data)
  IN IF Open(nals, Len(nals) + 1) THEN UnitsOf(nals) ELSE Front(UnitsOf(nals))
=============================================================================
