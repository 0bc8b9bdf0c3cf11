--------------------------- MODULE MCDnsHintCache ---------------------------
(* Small instances of DnsHintCache. *)
EXTENDS DnsHintCache, TLC

CONSTANTS vm1, disp1, a1, a2, n1, n2

\* The durable VM allows one name and rejects the other, the disposable
\* allows both.
MCDecisions ==
    {[source |-> vm1, name |-> n1, hinted |-> TRUE],
     [source |-> vm1, name |-> n2, hinted |-> FALSE],
     [source |-> disp1, name |-> n1, hinted |-> TRUE],
     [source |-> disp1, name |-> n2, hinted |-> TRUE]}

Addresses == Permutations(Addrs)
=============================================================================
