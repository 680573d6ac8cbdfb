------------------------------ MODULE MCPayload -----------------------------
(* Small instances of Payload.                                                *)
EXTENDS Payload, TLC

All == DOMAIN BodyDto
=============================================================================
