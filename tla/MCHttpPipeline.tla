--------------------------- MODULE MCHttpPipeline ---------------------------
(* A small instance of HttpPipeline.                                          *)
EXTENDS HttpPipeline

CONSTANTS r1, r2
=============================================================================
