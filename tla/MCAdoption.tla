----------------------------- MODULE MCAdoption ----------------------------
(* Instances of Adoption for TLC.                                          *)
EXTENDS Adoption, TLC

CONSTANTS r, d1, d2, n, p \* values of the keys

T(res, dim, ns) ==
  [resourceID |-> res, scalableDimension |-> dim, serviceNamespace |-> ns]
P(res, dim, ns, name) ==
  [resourceID |-> res, scalableDimension |-> dim, serviceNamespace |-> ns,
   policyName |-> name]

MCValues == {r, d1, d2, n, p}

(* Two dimensions of one resource, each with a target and a policy of one  *)
(* name.                                                                   *)
MCIdentities == {T(r, d1, n), T(r, d2, n), P(r, d1, n, p), P(r, d2, n, p)}

(* Everything given, and each key left out.                                *)
MCRequests ==
  {T(r, d1, n), T(Nil, d1, n), T(r, Nil, n), T(r, d1, Nil),
   P(r, d1, n, p), P(r, Nil, n, p), P(r, d1, n, Nil)}
===========================================================================
