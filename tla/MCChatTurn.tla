---- MODULE MCChatTurn ----
(***************************************************************************)
(* The threads of the pool are alike.                                      *)
(***************************************************************************)
EXTENDS ChatTurn, TLC

Threads == Permutations(Workers)
====
