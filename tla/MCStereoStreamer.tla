--------------------------- MODULE MCStereoStreamer ---------------------------
(***************************************************************************)
(* StereoStreamer for TLC, with the two facts about NalSplitter that its   *)
(* Emit stands on, over small streams.                                     *)
(***************************************************************************)
EXTENDS StereoStreamer, NalSplitter, FiniteSets

(* a slice that begins a picture and one that does not, a delimiter, a     *)
(* parameter set, a NAL unit without a payload, stray bytes, and nothing   *)
First == <<0, 0, 1, 1, 136>>
Later == <<0, 0, 1, 1, 64>>
Delimiter == <<0, 0, 0, 1, 9>>
Parameters == <<0, 0, 0, 1, 8, 1>>
Empty == <<0, 0, 1>>
Blocks == {First, Later, Delimiter, Parameters, Empty, <<0>>, <<1>>, <<>>}
Streams == {s[1] \o s[2] \o s[3] : s \in [1..3 -> Blocks]}

(* The reads of a stream, given where all but the last of them end. *)
Reads(data, ends) ==
  [k \in 1..Len(ends) + 1 |->
     SubSeq(data, IF k = 1 THEN 1 ELSE ends[k - 1] + 1,
            IF k > Len(ends) THEN Len(data) ELSE ends[k])]

(* a read ends within the first start code of the stream *)
CutsFirstCode(data, p) ==
  Begins(data) # {} /\ LET b == Min(Begins(data)) IN
                         p \in b..b + StartCodeSize(data, b) - 2

(* the streams of which three reads or fewer can make other access units   *)
ChangedByReads ==
  {data \in Streams :
     \E ends \in BoundedSeq(1..Len(data) - 1, 2) :
       /\ \A k \in DOMAIN ends : ~CutsFirstCode(data, ends[k])
       /\ \A k \in 2..Len(ends) : ends[k - 1] < ends[k]
       /\ AccessUnits(Reads(data, ends)) # Reference(data)}

(* For an encoder that has made an access unit: however ffmpeg's output is *)
(* cut into reads, the same access units come out, those of the stream as  *)
(* a whole (_process_nal and _reader_loop, 285-328): a start code may      *)
(* be cut by a read, except the very first, whose beginning the loop       *)
(* throws away (315-317).                                                  *)
UnitsIgnoreReads == \A e \in Eyes : enc[e].made > 0 => ChangedByReads = {}

(* what the encoders make of a picture: one or more slices, on some a      *)
(* delimiter, on some the parameter sets                                   *)
Idr == <<0, 0, 1, 5, 136>>
Pictures == {First, First \o Later, Parameters \o Idr, Delimiter \o First,
             Delimiter \o Parameters \o Idr \o Later}
Slices(data) ==
  LET nals == Nals(data)
  IN FlattenSeq([k \in DOMAIN nals |-> IF IsVcl(nals[k]) THEN <<nals[k]>> ELSE <<>>])
HasIdr(data) == \E nal \in Range(Slices(data)) : Type(nal) = 5

Whole(units, pictures) ==
  /\ Len(units) = Len(pictures)
  /\ \A k \in DOMAIN units : Slices(units[k]) = Slices(pictures[k])

(* What both splitters read the same: slices of types 1 and 5 whose        *)
(* first_mb_in_slice can be read, a delimiter only behind a slice or in    *)
(* front of everything, and a slice at the end.                            *)
Plain(nals) ==
  /\ \A k \in DOMAIN nals :
       /\ IsVcl(nals[k]) => /\ Type(nals[k]) \in {1, 5}
                            /\ FirstOrUnreadable(nals[k]) <=> FirstSlice(nals[k])
       /\ IsAud(nals[k]) =>
            Open(nals, k) \/ \A j \in 1..k - 1 : Payload(nals[j]) = <<>>
  /\ Open(nals, Len(nals) + 1)

(* A parameter set without a delimiter goes with the picture before it, in *)
(* both programs; only the slices are compared.                            *)
Damaged ==
  {pictures \in BoundedSeq(Pictures, 4) \ {<<>>} :
     LET data == FlattenSeq(pictures)
         loaded == LoadTestStream(data)
     IN ~ /\ Plain(Nals(data)) /\ Whole(AccessUnits(<<data>>), pictures)
          /\ Whole([k \in DOMAIN loaded |-> loaded[k].data], pictures)
          /\ \A k \in DOMAIN loaded : loaded[k].key = HasIdr(pictures[k])}

(* For an encoder that has made an access unit: every picture comes out as *)
(* one, whole and in order, with or without delimiters and with several    *)
(* slices, and the demo cuts a file of them the same way and flags those    *)
(* with an IDR slice.  One frame in, one unit out is what pairing the eyes  *)
(* by index relies on (video.py 285-303, 463-480; host_bridge_demo.cpp      *)
(* 284-330).                                                               *)
OneUnitPerPicture == \A e \in Eyes : enc[e].made > 0 => Damaged = {}
=============================================================================
