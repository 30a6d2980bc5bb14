--------------------------- MODULE MCLanguageServer ---------------------------
(***************************************************************************)
(* A package of three files that depends on a fourth, a file without a       *)
(* package, and a package whose dependencies are not to be had.              *)
(***************************************************************************)
EXTENDS LanguageServer, TLC

MCFile == <<"round", "geometry", "main", "metric", "notes", "stuck">>
MCModuleOf == [f \in Range(MCFile) |-> CASE f = "round" -> <<"geometry", "round">> [] f = "stuck" -> <<"main">> [] OTHER -> <<f>>]
MCHome == [f \in Range(MCFile) |-> CASE f \in {"round", "geometry", "main"} -> "app" [] f = "metric" -> "units"
                                     [] f = "notes" -> None [] f = "stuck" -> "far"]
Project_(entry, library, resolves, dependencies) ==
  [entry |-> entry, library |-> library, resolves |-> resolves, dependencies |-> dependencies]
MCPackage ==
  [p \in {"app", "units", "far"} |->
     CASE p = "app"   -> Project_("main", FALSE, TRUE, <<[namespace |-> <<"units">>, package |-> "units"]>>)
       [] p = "units" -> Project_("metric", TRUE, TRUE, <<>>)
       [] p = "far"   -> Project_("stuck", FALSE, FALSE, <<>>)]

-----------------------------------------------------------------------------
(* Words *)

W(form, role, says) ==
  [role |-> role, says |-> says, alias |-> Last(says), from |-> <<>>, mark |-> "", deep |-> "",
   form |-> form, back |-> 0, bare |-> FALSE, bytes |-> 4, units |-> 4]
Take(form, from, name, alias) == [W(form, "take", <<name>>) EXCEPT !.from = from, !.alias = alias]
Marked(word, mark) == [word EXCEPT !.mark = mark]
Bare(word) == [word EXCEPT !.bare = TRUE]
Behind(word, n) == [word EXCEPT !.back = n]
Within_(word, what) == [word EXCEPT !.deep = what]
(* Three characters of four bytes each. *)
Greek(form) == [W(form, "string", <<"">>) EXCEPT !.bytes = 12, !.units = 6]
End == [W(0, "end", <<"">>) EXCEPT !.bytes = 1, !.units = 1]

MCContent ==
  [t \in {"r1", "r2", "g1", "g2", "g3", "m1", "m2", "m3", "m4", "u1", "u2", "n1", "n2", "s1"} |->
   CASE t = "r1" -> <<W(1, "export", <<"Circle">>), W(1, "export", <<"area">>), End,
                      W(2, "struct", <<"Circle">>), End,
                      W(3, "function", <<"area">>), W(3, "type", <<"Circle">>), Behind(W(3, "type", <<"Circle">>), 2), End,
                      W(3, "binding", <<"x">>), W(3, "local", <<"x">>)>>
     [] t = "r2" -> <<W(1, "export", <<"area">>), End, W(2, "struct", <<"Circle">>),
                      W(3, "function", <<"area">>), Greek(3), W(3, "type", <<"Circle">>)>>
     [] t = "g1" -> <<Take(1, <<"geometry", "round">>, "Circle", "Disc"), End,
                      W(2, "export", <<"Point">>), W(2, "export", <<"distance">>),
                      W(2, "export", <<"geometry", "round", "Circle">>), End,
                      W(3, "struct", <<"Point">>), W(5, "struct", <<"Polar">>), End,
                      Greek(4), W(4, "function", <<"distance">>), W(4, "type", <<"Polar">>), Behind(W(4, "type", <<"Polar">>), 1),
                      W(4, "type", <<"Disc">>), W(4, "call", <<"geometry", "round", "area">>), W(4, "value", <<"distance">>)>>
     [] t = "g2" -> <<Marked(W(1, "const", <<"limit">>), "error"), Take(1, <<"geometry", "round">>, "area", "surface"), End,
                      W(2, "export", <<"Point">>), W(2, "export", <<"distance">>),
                      W(2, "export", <<"geometry", "round", "Circle">>), End,
                      W(3, "struct", <<"Point">>), Greek(4), W(4, "function", <<"distance">>), W(4, "call", <<"distance">>),
                      W(4, "call", <<"surface">>), Marked(W(4, "value", <<"limit">>), "error"), End,
                      W(5, "extern", <<"draw">>), W(5, "extern type", <<"Point">>)>>
     [] t = "g3" -> <<W(1, "export", <<"distance">>), W(2, "function", <<"distance">>), Marked(W(2, "string", <<"">>), "syntax")>>
     [] t = "m1" -> <<Take(1, <<"geometry">>, "Point", "Point"), Take(1, <<"geometry">>, "distance", "length"), End,
                      Take(2, <<"units", "metric">>, "inch", "inch"), End,
                      W(3, "function", <<"main">>), Greek(3), W(3, "call", <<"length">>), W(3, "call", <<"Point">>),
                      W(3, "call", <<"units", "metric", "inch">>), Bare(W(3, "pattern", <<"units", "metric", "Unit", "foot">>)), End,
                      W(3, "call", <<"inch">>), W(3, "value", <<"length">>), W(3, "call", <<"println">>)>>
     [] t = "m2" -> <<Take(1, <<"geometry">>, "Circle", "Circle"), End,
                      W(2, "function", <<"main">>), Greek(2), Behind(W(2, "call", <<"nothing">>), 1), W(2, "type", <<"Circle">>), End,
                      W(2, "fn binding", <<"main">>), W(2, "local", <<"main">>),
                      W(3, "const", <<"geometry">>)>>
     [] t = "m3" -> <<W(1, "function", <<"main">>), Marked(W(1, "string", <<"">>), "warning"), End,
                      W(1, "call", <<"units", "metric", "inch">>)>>
     [] t = "m4" -> <<Take(1, <<"geometry">>, "absent", "absent"), W(2, "function", <<"main">>),
                      Within_(Marked(W(2, "call", <<"main">>), "error"), "defer")>>
     [] t = "u1" -> <<W(1, "export", <<"inch">>), W(1, "export", <<"Unit">>), End,
                      W(2, "enum", <<"Unit">>), W(2, "variant", <<"foot">>), W(2, "variant", <<"yard">>), End,
                      Greek(3), W(3, "function", <<"inch">>), W(3, "type", <<"Unit">>), Bare(W(3, "pattern", <<"Unit", "foot">>)),
                      Marked(W(3, "call", <<"metric", "inch">>), "warning"), End,
                      W(4, "function", <<"main">>), W(4, "value", <<"main">>)>>
     [] t = "u2" -> <<W(1, "function", <<"inch">>), Marked(W(1, "string", <<"">>), "error"), W(2, "export", <<"inch">>)>>
     [] t = "n1" -> <<W(1, "function", <<"main">>), W(1, "binding", <<"x">>), Greek(1), W(1, "local", <<"x">>), W(1, "value", <<"main">>)>>
     [] t = "n2" -> <<W(1, "function", <<"helper">>), Greek(1), W(1, "call", <<"nothing">>)>>
     [] t = "s1" -> <<Take(1, <<"away">>, "from", "from"), W(2, "function", <<"main">>), Greek(2), W(2, "call", <<"from">>)>>]
MCWritten ==
  [f \in Range(MCFile) |->
     CASE f = "round" -> {"r1", "r2"} [] f = "geometry" -> {"g1", "g2", "g3"} [] f = "main" -> {"m1", "m2", "m3", "m4"}
       [] f = "metric" -> {"u1", "u2"} [] f = "notes" -> {"n1", "n2"} [] f = "stuck" -> {"s1"}]
MCFirst == [f \in Range(MCFile) |-> CASE f = "round" -> "r1" [] f = "geometry" -> "g1" [] f = "main" -> "m1"
                                      [] f = "metric" -> "u1" [] f = "notes" -> "n1" [] f = "stuck" -> "s1"]
=============================================================================
