------------------------------ MODULE MCServer ------------------------------
(* A small instance of Server: one cron job and one request.                  *)
EXTENDS Server

CONSTANTS j1, j2
=============================================================================
