----------------------------- MODULE MCHttpProxy -----------------------------
(* Model-checking instances of HttpProxy. *)
EXTENDS HttpProxyProps
=============================================================================
