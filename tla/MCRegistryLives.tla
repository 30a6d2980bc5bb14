---------------------------- MODULE MCRegistryLives ----------------------------
(* TLC instances of RegistryLives. *)
EXTENDS RegistryLives

CONSTANTS p1, p2, r1, r2

(* Two publishers of any versions, the same one too, with kills; and one publisher
   with two runs. *)
PublishersOrReaders ==
  {[publishers |-> {p1, p2}, runs |-> {}, kills |-> 2, editions |-> 6, transports |-> {"url"}],
   [publishers |-> {p1}, runs |-> {r1, r2}, kills |-> 0, editions |-> 3,
    transports |-> {"url", "directory"}]}
=============================================================================
