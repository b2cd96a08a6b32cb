----------------------------- MODULE MCBridgeLink -----------------------------
(***************************************************************************)
(* BridgeLink for TLC, with the two facts about WireFormat that its packet *)
(* steps stand on, over small packets and texts.                           *)
(***************************************************************************)
EXTENDS BridgeLink, WireFormat

(* without and with a payload, above the smaller of the two limits, above  *)
(* both, of an unknown type, of another version                            *)
Headers == {Header(TRUE, "BEAT", 0), Header(TRUE, "POSE", 2),
            Header(TRUE, "VIDEO", 3), Header(TRUE, "VIDEO", 4),
            Header(TRUE, "none", 1), Header(FALSE, "POSE", 1)}
Limits == {2, 3}  \* kMaxHostPayloadSize and kMaxPayloadSize

Streams == {hs \in BoundedSeq(Headers, 3) : hs # <<>>}
Reads == BoundedSeq(1..2, 3)

Misread ==
  {hs \in Streams :
     LET wire == Wire(hs) IN
       \E length \in 0..Len(wire), cuts \in Reads, limit \in Limits :
         Receive(SubSeq(wire, 1, length), cuts, limit)
           # Arrives(hs, length, limit)}

(* For a host that has handled a pose: however a stream is cut into recv()  *)
(* calls and wherever it breaks off, exactly its complete packets up to     *)
(* the first refused one are handled, each with its own payload             *)
(* (readExact, clientLoop, receiveHostPackets and their limits).           *)
PacketsIgnoreReads == got > 0 => Misread = {}

Letters == {";", "newline", "=", "blank", "k", "v"}
Texts == BoundedSeq(Letters, 6)

(* texts in the form the senders write: no newline and no blank, no key    *)
(* twice                                                                   *)
Written(text) ==
  LET fields == Fields(text, {";"})
      named == {k \in DOMAIN fields : HasEqual(fields[k])}
  IN /\ \A i \in DOMAIN text : text[i] \notin {"newline", "blank"}
     /\ \A j, k \in named : Key(fields[j]) = Key(fields[k]) => j = k

Disputed ==
  {text \in Texts :
     /\ Written(text)
     /\ \E key \in {<<"k">>, <<"k", "v">>} :
          LET values == {FindKeyValue(text, key), ParseKeyValue(text, key),
                         ParsePython(text, key)}
          IN \E a, b \in values : a # b}

(* For a host that has handled a pose: the demo, the headset and the Python *)
(* host read the same value for every key of a text in the form they write, *)
(* although the demo's parser does not know newlines, Python strips blanks  *)
(* and keeps the last of a repeated key, and the others keep the first.     *)
ParsersAgree == got > 0 => Disputed = {}
=============================================================================
