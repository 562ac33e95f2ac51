----------------------------- MODULE MCNetwork ------------------------------
(***************************************************************************)
(* Two cards on three buses of two slots, and packets of three bytes on    *)
(* pages of four.  Packets start at 2 (across two pages whose frames       *)
(* follow each other), at 8 (where the cards write what they receive) and  *)
(* at 14 (across two that do not, above the limit of DMA addresses).  The  *)
(* receive buffer of the local driver is at 20, in frame 6; RBSTART        *)
(* becomes 20 % 16 = 4.                                                    *)
(***************************************************************************)
EXTENDS Network

SmallCards == {<<0, 1>>, <<2, 1>>}
Pages      == [p \in 0 .. 7 |-> <<2, 3, 1, 5, 4, 6, 8, 7>>[p + 1]]
RxBuffers  == [p \in {"local", "static"} |-> IF p = "local" THEN 20 ELSE 28]

\* The last slots of the last two buses of a machine.
LastCards == {<<254, 31>>, <<255, 31>>}
=============================================================================
