---------------------------- MODULE MCBuildCache ----------------------------
(***************************************************************************)
(* TLC instances of BuildCache: a library module that may hold generics and *)
(* an application module whose text may ask it for an instance.             *)
(***************************************************************************)
EXTENDS BuildCache

MCText(body, iface, takes, generic, requests, ok) ==
  [body |-> body, iface |-> iface, takes |-> takes, generic |-> generic,
   requests |-> requests, ok |-> ok]

(* A library that takes the type in its signatures from another module and writes
   them as before, a body change, then an interface change that adds a generic; an
   application that asks for an instance, and one that does not type. *)
MCSource ==
  [app |-> { MCText("a1", "main", "none", FALSE, {}, TRUE),
             MCText("a2", "main", "none", FALSE, {"lib"}, TRUE),
             MCText("a3", "main", "none", FALSE, {"lib"}, FALSE) },
   lib |-> { MCText("l1", "i1", "T of x", FALSE, {}, TRUE),
             MCText("l1", "i1", "T of y", FALSE, {}, TRUE),
             MCText("l2", "i1", "T of y", FALSE, {}, TRUE),
             MCText("l3", "i2", "T of y", TRUE, {}, TRUE),
             MCText("l4", "i2", "T of y", TRUE, {}, TRUE) }]

MCLife(manifests, sources, during, undo, killed) ==
  [manifests |-> manifests, sources |-> sources, during |-> during, undo |-> undo,
   killed |-> killed]

(* Edits between builds, forwards and back; and edits during builds, and builds
   killed, with no way back. *)
MCLives ==
  { MCLife({"dev", "stripped"}, MCSource, FALSE, TRUE, FALSE),
    MCLife({"dev"}, [m \in {"app", "lib"} |-> {s \in MCSource[m] : s.ok /\ s.body # "l4"}],
           TRUE, FALSE, TRUE) }
=============================================================================
