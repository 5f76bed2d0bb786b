---------------------------- MODULE MCRelayStore ----------------------------
(* Two Folders that share a payload (b of f2 and v1 of f1 carry the same     *)
(* bytes); f1 synchronises a directory path with two versions, v2 after v1,  *)
(* and a file n below that path, so that n is refused next to v1 or v2.      *)
EXTENDS RelayStore, TLC

CONSTANTS f1, f2, b, n, v1, v2, g1, g2, p, q, w1, w2

MCDeviceOf == (b :> f2) @@ (v1 :> f1) @@ (v2 :> f1) @@ (n :> f1)
MCDigestOf == (b :> g1) @@ (v1 :> g1) @@ (v2 :> g2) @@ (n :> g2)
MCPathOf == (b :> NoPath) @@ (v1 :> p) @@ (v2 :> p) @@ (n :> q)
MCVersionOf == (b :> 0) @@ (v1 :> 1) @@ (v2 :> 2) @@ (n :> 3)
MCNested == {<<p, q>>}
=============================================================================
