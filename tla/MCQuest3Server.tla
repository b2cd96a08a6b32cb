--------------------------- MODULE MCQuest3Server ---------------------------
(* Small instances of Quest3Server for TLC. *)
EXTENDS Quest3Server, TLC

(* sender and waiter threads are interchangeable *)
Symmetry == Permutations(Senders) \cup Permutations(Waiters)
=============================================================================
