---------------------------- MODULE StereoFrames ----------------------------
(* The stereo frames of the H.264 decoder, and when one begins a new stream. *)
EXTENDS Naturals

CONSTANTS Frames,   \* frame indices the host uses
          Sizes     \* frame sizes the host uses

ASSUME FramesAssumption == Frames \subseteq Nat
ASSUME SizesAssumption == Sizes \subseteq Nat \ {0}

(* the host started again from a lower index than the last one published *)
GoesBack(has, last, i) == has /\ i + 2 < last
=============================================================================
