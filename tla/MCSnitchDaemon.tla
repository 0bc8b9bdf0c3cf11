--------------------------- MODULE MCSnitchDaemon ---------------------------
(* Small instances of SnitchDaemon. *)
EXTENDS DaemonRefinement, TLC

CONSTANTS vm, base, disp1, ip1, ip2, flow1, flow2, flow3, question, cdn

\* A flow packet, a UDP/53 query to the resolver flow1, a malformed packet.
MCPackets == {<< flow1 >>, << flow1, question >>, << >>}
FlowPackets == {<< flow1 >>, << flow2 >>, << flow3 >>}
TwoFlows == {<< flow1 >>, << flow2 >>}
MCHostSets == {{flow1, flow2}, {flow2}}
=============================================================================
