----------------------------- MODULE MCHttpApi -----------------------------
(* Model-checking instance of HttpApi: one API key, one admin password and *)
(* one secret (each may also be unset), bodies of up to two commands, and  *)
(* two requests, so that a login can precede an /admin/api request.        *)
EXTENDS HttpApiProofs

MCKeys == {"k1"}
MCPasswords == {"pw"}
MCSecrets == {"s1"}
\* A token signed with secret s.
MCTokenOf(s) == "tok_" \o s
=============================================================================
