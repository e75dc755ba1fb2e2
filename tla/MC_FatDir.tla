------------------------------- MODULE MC_FatDir -------------------------------
(***************************************************************************)
(* Three long names, given as UTF-8 bytes: a (14 ASCII bytes) and c (13   *)
(* ASCII bytes and an e-acute, 15 bytes) take two long-name entries each  *)
(* and have the same UCS-2 length, 14; b (5 bytes) takes one.  All share  *)
(* the basis "B".  The 8.3 names "B", "B~1" and "B~2" are used directly,  *)
(* colliding with the generated tails.                                    *)
(***************************************************************************)
EXTENDS FatDir, TLC

CONSTANTS a, b, c

MCUtf8 == (a :> [k \in 1..14 |-> 97])
          @@ (b :> [k \in 1..5 |-> 98])
          @@ (c :> ([k \in 1..13 |-> 99] \o <<195, 169>>))
MCBasis == [n \in {a, b, c} |-> "B"]
MCUserShort == {<<"B", 0>>, <<"B", 1>>, <<"B", 2>>}
====
