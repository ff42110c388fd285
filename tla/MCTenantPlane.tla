---------------------------- MODULE MCTenantPlane ----------------------------
(***************************************************************************)
(* Two clients behind the gateway, with and without a certificate; one     *)
(* client on each of the other listeners; and one with a certificate on    *)
(* each listener that can tell of one.                                     *)
(***************************************************************************)
EXTENDS TenantPlane

CONSTANTS c1, c2, cert

MCOwn == (c1 :> cert) @@ (c2 :> NoCert)
MCSpreads == {(c1 :> "tcp") @@ (c2 :> "tcp"),
              (c1 :> "tls") @@ (c2 :> NotMade), (c1 :> NotMade) @@ (c2 :> "ipc")}

OneOwn == c1 :> cert
OneSpread == [{c1} -> {"tcp", "tls"}]
=============================================================================
