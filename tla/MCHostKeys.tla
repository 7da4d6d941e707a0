----------------------------- MODULE MCHostKeys -----------------------------
(* An instance of HostKeys: host a is used on the default port and another *)
(* one, host b on two others.                                              *)
EXTENDS HostKeys, TLC

CONSTANTS a, b, k1, k2, c1, c2, c3

At(h, p) == [host |-> h, port |-> p]
Line(h, p, k) == [host |-> h, port |-> p, key |-> k, revoked |-> FALSE]
Revocation(h, p, k) == [host |-> h, port |-> p, key |-> k, revoked |-> TRUE]

Mixed == c1 :> At(a, 22) @@ c2 :> At(a, 2222) @@ c3 :> At(b, 2200)
OneEndpoint == {At(b, 2222)}

(* Nothing; two keys for every port; a revocation of another port; a key   *)
(* for every port and a revocation of the default port.                    *)
SomeFiles == {{}, {Line(a, 0, k1), Line(a, 0, k2)}, {Revocation(a, 2222, k1)},
              {Line(b, 0, k1), Revocation(a, 22, k2)}}
OneStore == {{Revocation(b, 2200, k1), Line(a, 0, k2)}}

=============================================================================
