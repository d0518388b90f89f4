----------------------------- MODULE MCConversion ------------------------------
(***************************************************************************)
(* Conversion with six pictures of three colours: one that ends in the     *)
(* byte 132 with 16 bits, one that begins with it, and one that ends in it *)
(* with 24.                                                                *)
(***************************************************************************)
EXTENDS Conversion

MCColors ==
  <<[red |-> 130, green |-> 140, blue |-> 0],
    [red |-> 0, green |-> 16, blue |-> 32],
    [red |-> 255, green |-> 77, blue |-> 132]>>

MCPictures ==
  {[k \in 1..Area |-> MCColors[1 + ((i * k + j) % 3)]] : i \in 1..2, j \in 0..2}

=============================================================================
