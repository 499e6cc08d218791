--------------------------- MODULE MCSearchClient ---------------------------
(* A client with two buffers per graph file, so that a file can be cut off *)
(* in the middle and be spliced of two graphs.                             *)
EXTENDS SearchClientProps, TLC
=============================================================================
