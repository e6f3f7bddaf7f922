---------------------------- MODULE MCHttpRequest ----------------------------
(* Requests that share a telemetry whose strings have room for one error, so *)
(* that the second waits for the next string. *)
EXTENDS HttpRequest
=============================================================================
