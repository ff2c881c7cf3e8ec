------------------------------- MODULE MCWire -------------------------------
(* Texts of at most one letter and buffers a little larger than a packet:    *)
(* some packets fit exactly, some lose their last field, two fill a buffer.  *)
EXTENDS Wire

A == 97

MCMessages ==
  [toFrontend |->
     {[opcode |-> 0, fields |-> <<<<>>, 1, 200, 0>>],
      [opcode |-> 0, fields |-> <<<<>>, 2, 200, 0, 201, 1>>],
      [opcode |-> 1, fields |-> <<<<A>>, <<>>, -1>>]},
   toNode |->
     {[opcode |-> 0, fields |-> <<>>],
      [opcode |-> 1, fields |-> <<<<>>, <<>>, <<>>, 200>>],
      [opcode |-> 1, fields |-> <<<<A>>, <<>>, <<A>>, 200>>],
      [opcode |-> 2, fields |-> <<<<A>>, <<>>>>]}]

MCMaxPackets == [toFrontend |-> 2, toNode |-> 3]
=============================================================================
