------------------------------- MODULE MCCmp -------------------------------
(***************************************************************************)
(* Instance of Cmp for TLC: all pairs of streams of up to MaxLen bytes,    *)
(* and streams of one byte more that is the same throughout, which differ  *)
(* in more positions than bufout has room for.                             *)
(***************************************************************************)
EXTENDS Cmp

CONSTANT MaxLen

MCInputs ==
  UNION {[1..l -> Byte] : l \in 0..MaxLen}
    \union {[j \in 1..(MaxLen+1) |-> b] : b \in Byte}
=============================================================================
