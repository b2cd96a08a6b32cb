------------------------------ MODULE MCTeleop ------------------------------
(* Teleop with few samples: the clutch at every grip; the trigger alone with *)
(* the clutch, recentring alone without it, all buttons both ways; open by  *)
(* the squeeze as by an invalid grip; a pose without a grip and a grip      *)
(* without a pose.  The head is turned when it recenters.                  *)
EXTENDS Teleop

Hand(g, valid, squeeze, pressed, reads) ==
  [grip |-> g, valid |-> valid, squeeze |-> squeeze,
   trigger |-> "trigger" \in pressed, reset |-> "reset" \in pressed,
   recenter |-> "recenter" \in pressed,
   facing |-> IF "recenter" \in pressed THEN -1 ELSE 1, reads |-> reads]

Both == {"head", "input"}
AllButtons == {"trigger", "reset", "recenter"}

FewSamples ==
  {Hand(g, TRUE, TRUE, {}, IF g = 1 THEN {"input"} ELSE Both) : g \in Grips}
  \union {Hand(Max(Grips), TRUE, TRUE, {"trigger"}, Both),
           Hand(Max(Grips), TRUE, TRUE, AllButtons, Both),
           Hand(Max(Grips), FALSE, TRUE, {}, Both),
           Hand(Min(Grips), TRUE, FALSE, {"recenter"}, {"head"}),
           Hand(Min(Grips), TRUE, FALSE, AllButtons, Both)}
=============================================================================
