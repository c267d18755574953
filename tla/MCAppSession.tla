----------------------------- MODULE MCAppSession -----------------------------
(* A small instance of AppSession: one table, two passwords, two roles.      *)
EXTENDS AppSession
===============================================================================
