---------------------------- MODULE MCIngestion ----------------------------
(* Instances of Ingestion for TLC: two documents that share a chunk, two   *)
(* slots of processes configured with different embedding models.          *)
EXTENDS Ingestion, TLC

CONSTANTS d1, d2, h1, h2, w1, w2, m1, m2

(* d1 has a chunk of its own and one it shares with d2.                    *)
MCOverlapping == d1 :> {h1, h2} @@ d2 :> {h2}

(* Two copies of one document.                                             *)
MCSameContent == d1 :> {h1} @@ d2 :> {h1}

MCModelOf == w1 :> m1 @@ w2 :> m2
MCOneSlot == w1 :> m1
=============================================================================
