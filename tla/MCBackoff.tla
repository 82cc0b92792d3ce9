------------------------------ MODULE MCBackoff ------------------------------
(* Settings for TLC: small ones, and for a Width of 10 and 4 units to the     *)
(* millisecond the ones around each overflow of the product.                  *)
EXTENDS RetryDelay

SomeBaseMS == -130 .. -128 \union -2 .. 12 \union 126 .. 129 \union 255 .. 260
SomeMaxMS  == -258 .. -256 \union {-128, -1, 0, 1, 2, 3, 5, 8, 12, 20, 40, 41, 60, 100} \union 126 .. 129 \union {256, 260, 300}
=============================================================================
