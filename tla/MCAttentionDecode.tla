-------------------------- MODULE MCAttentionDecode --------------------------
(* Tiles of 2 and segments of 4 keys: 19 keys make 10 tiles, which 3          *)
(* partitions share unevenly; 5 segments exceed the limit of 3.               *)
EXTENDS AttentionDecode
=============================================================================
