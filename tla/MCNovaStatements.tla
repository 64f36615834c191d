------------------------- MODULE MCNovaStatements -------------------------
(* Functions of one parameter, every kind of statement; the kinds that add   *)
(* little to others weigh more, so that five of the rest fit into a program. *)
EXTENDS NovaStatements, TLC

MCParameters == <<"p">>
MCWeight ==
  [k \in {"object", "block", "if", "for", "switch", "case", "break",
          "continue", "label", "goto"} |-> 1]
  @@ [k \in {"int", "static", "update", "address", "while", "do", "default", "return"} |-> 2]
=============================================================================
