-------------------------- MODULE MCEscaperRegistry --------------------------
(* Small instances of EscaperRegistry. *)
EXTENDS EscaperRegistry, TLC

CONSTANTS a, b, c

Doc(x, y, z) == (a :> x) @@ (b :> y) @@ (c :> z)
To(S) == [comply |-> FALSE, next |-> S]
Comply(n) == [comply |-> TRUE, next |-> {n}]

(* A chain, the same chain the other way round, and a file in which c      *)
(* complies with what b decides, but b has no section.                     *)
MCDocs == {Doc(To({b}), To({c}), To({})), Doc(To({}), To({a}), To({b})),
           Doc(None, None, Comply(b))}

(* Two files without any loop: b and c change places. *)
MCSwap == {Doc(To({}), Comply(c), To({})), Doc(To({}), To({}), Comply(b))}
=============================================================================
