--------------------------- MODULE MCEwsDelivery ----------------------------
(* Instances of EwsDelivery for TLC. *)
EXTENDS EwsDelivery

MCLadder == [s \in Servers |-> IF s = "primary" THEN <<"modern", "legacy">> ELSE <<"legacy">>]

MCTrusted == [s \in Servers |-> IF s = "primary" THEN "verify" ELSE "insecure"]
MCConfigs == {MCTrusted, [s \in Servers |-> "insecure"]}
MCOffered == [s \in Servers |-> {"legacy"}]
MCChanged == {[MCOffered EXCEPT !["primary"] = {"modern"}]}

=============================================================================
