----------------------------- MODULE MCRenderer -----------------------------
(* Values of Renderer's constants for TLC: a sample that is due at once, one *)
(* that is due later, one without times, one that ends before it starts, and *)
(* one of a type the renderer refuses.                                       *)
EXTENDS Renderer

Item(start, stop, timed, type) ==
  [start |-> start, stop |-> stop, timed |-> timed, type |-> type]

MCSamples == {Item(0, 1, TRUE, "same"), Item(1, 2, TRUE, "same"),
              Item(0, 0, FALSE, "same"), Item(1, 0, TRUE, "same"),
              Item(0, 0, TRUE, "refused")}
=============================================================================
