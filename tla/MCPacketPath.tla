----------------------------- MODULE MCPacketPath -----------------------------
(* Instances of the packet path for TLC: a list of two packets to this      *)
(* machine itself, which goes out and comes in.                             *)
EXTENDS PacketPath, TLC

CONSTANTS list, p1, p2, crafted

OneList == {list}
MCContent == list :> <<p1, p2>>
MCPath == list :> <<"out", "in">>
MCPrograms == {{p2}}
NothingPasses == {{}}
AllLayers == {"network", "forward", "transport", "stream", "flow", "socket", "reflect"}
NetworkOnly == {"network"}
=============================================================================
