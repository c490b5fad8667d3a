------------------------------ MODULE MCServer ------------------------------
(* Server on a small instance: two calls and one warmer over two pools, both  *)
(* transports, with a config and without.                                    *)
EXTENDS Server
=============================================================================
