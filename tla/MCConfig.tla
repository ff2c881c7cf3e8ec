------------------------------ MODULE MCConfig ------------------------------
(* All lines of up to three characters, all lists of ports of up to four and *)
(* all numbers of up to three.  Ports have twelve values and an int ends at  *)
(* 15, so that a number of two digits wraps around, or is out of range, with *)
(* and without a sign.                                                       *)
EXTENDS Config

Strings(chars, most) == UNION {[1..n -> chars] : n \in 0..most}

MCListKey == <<"k">>

MCServerKey == <<"s">>

MCLines ==
  Strings({"k", "=", "#", " "}, 3)
    \cup {<<"k", "=">> \o list : list \in Strings({"1", "2", ",", "-"}, 4)}
    \cup {<<"s", "=">> \o number : number \in Strings({"1", "2", "-", "+", "TAB"}, 3)}
=============================================================================
