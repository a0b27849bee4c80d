-------------------------- MODULE MCGatewayFanout --------------------------
(* Two clients on one gateway and a third on another. *)
EXTENDS GatewayFanout, TLC

MCHome == "t1" :> "g1" @@ "t2" :> "g1" @@ "t3" :> "g2"

=============================================================================
