--------------------------------- MODULE Chunk ---------------------------------
(* chunk_t, the byte strings strongSwan hands around: what the modules here   *)
(* tell apart is whether a chunk is empty and, if not, which value it holds.  *)
CONSTANT None           \* chunk_empty; also a NULL pointer
================================================================================
