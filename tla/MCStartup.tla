------------------------------ MODULE MCStartup ------------------------------
(* Two clients; environments that lack parts of the TLS setup, in and out   *)
(* of dev mode, and settings that are unset, unreadable, zero or positive.  *)
EXTENDS Startup, TLC

Env(dev, cert, tlsKey, form, n) ==
  [dev |-> dev, cert |-> cert, tlsKey |-> tlsKey, limit |-> [form |-> form, n |-> n]]

MCEnvs ==
  {Env(FALSE, TRUE, TRUE, "unset", 0), Env(FALSE, TRUE, FALSE, "garbage", 0),
   Env(TRUE, FALSE, FALSE, "garbage", 0), Env(TRUE, FALSE, FALSE, "number", 0),
   Env(TRUE, TRUE, FALSE, "number", 1)}

ClientSymmetry == Permutations(Clients)

=============================================================================
