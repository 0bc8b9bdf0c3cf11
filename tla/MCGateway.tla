------------------------------ MODULE MCGateway ------------------------------
(* A small instance of Gateway: port 2 stands for 53, 3 for 65535. *)
EXTENDS Gateway

CONSTANTS a1, a2, x, noip

Header(proto) ==
    [version |-> 4, ihl |-> 5, reserved |-> FALSE, fragment |-> FALSE, proto |-> proto,
     len |-> IF proto = "tcp" THEN 40 ELSE 36, total |-> IF proto = "tcp" THEN 40 ELSE 36,
     doff |-> 5, ulen |-> 16, defects |-> {}]

Packet(header, src, dst, sport, dport) ==
    [src |-> src, dst |-> dst, sport |-> sport, dport |-> dport] @@ header

\* A VM and the outside, and two VMs; clients use port 3.
Normal ==
    UNION {{Packet(Header(s[1]), e[1], e[2], 3, s[2]), Packet(Header(s[1]), e[2], e[1], s[2], 3)} :
             s \in {<< "tcp", 1 >>, << "udp", 1 >>, << "udp", 2 >>}, e \in {<< a1, x >>, << a2, a1 >>}}
    \cup {Packet(Header("icmp"), e[1], e[2], 0, 0) : e \in {<< a1, x >>, << x, a1 >>}}

Lens == {0, 19, 20, 23, 24, 27, 28, 33, 39, 40}
OddHeaders ==
    {[Header(proto) EXCEPT !.len = len, !.total = len + extra, !.ihl = ihl] :
        proto \in {"tcp", "udp", "icmp"}, len \in Lens, extra \in {0, 1}, ihl \in {4, 5, 6}}
    \cup {[Header("udp") EXCEPT !.ulen = ulen] : ulen \in {7, 8, 17}}
    \cup {[Header("udp") EXCEPT !.len = len, !.total = len, !.ulen = len - 20] : len \in {28, 32, 33}}
    \cup {[Header("tcp") EXCEPT !.doff = doff] : doff \in {4, 6}}
    \cup {[Header("tcp") EXCEPT !.fragment = TRUE], [Header("tcp") EXCEPT !.reserved = TRUE],
          [Header("tcp") EXCEPT !.version = 6], Header("other")}
Odd == {IF h.proto \in {"tcp", "udp"} THEN Packet(h, a1, x, 3, 1) ELSE Packet(h, a1, x, 0, 0) :
            h \in OddHeaders}
       \cup {Packet(Header("udp"), a1, x, 0, 1), Packet(Header("tcp"), a1, x, 3, 0)}

\* One or two defects, the second of which may hide the first.
Messages ==
    {Packet([Header("udp") EXCEPT !.defects = {e, f}], a1, x, 3, 2) :
        e \in Listed(DnsErrors) \ {"empty-body", "oversize-body"}, f \in {"parse-failed", "multi-question", "unsupported-aaaa"}}

MCPackets == Normal \cup Odd \cup Messages

Rule(dests, proto, lo, hi, action) ==
    [dests |-> dests, proto |-> proto, lo |-> lo, hi |-> hi, action |-> action]

\* What a user writes: a range that ends at port 53, and
\* exceptions before broad rules.
MCRuleFiles ==
    "work" :> { << >>, << Rule({a1, x}, "udp", 1, 2, "allow"), Rule({x}, "icmp", 0, 3, "allow") >>,
                << Rule({x}, "udp", 1, 1, "reject"), Rule({a1}, "tcp", 1, 1, "reject"),
                   Rule(Addrs, "udp", 0, 3, "allow"), Rule(Addrs, "tcp", 0, 3, "allow") >> }

MCAnswered == {Packet(Header("tcp"), a2, a1, 3, 1)}

Row(name, ip, class, template) ==
    [name |-> name, ip |-> ip, label |-> "red", class |-> class, template |-> template]

Work(ip) == Row("work", ip, "AppVM", "-")
Disp1(ip) == Row("disp1", ip, "DispVM", "default-dvm")
Surf(name, ip) == Row(name, ip, "DispVM", "surf")

\* The third has a generic disposable without a number, which is left out.
\* The last three are refused: one address twice, and two reserved names.
MCInventories ==
    { {Work(a1)}, {Work(a1), Disp1(a2)},
      {Work(a2), Disp1(a1), Row("scratch", a2, "DispVM", "default-dvm")},
      {Surf("disp2", a2), Surf("disp3", a1), Row("surf", noip, "TemplateVM", "-")},
      {Work(a1), Disp1(a1)},
      {Row("disp1", a1, "AppVM", "-")},
      {Row("dispvm-surf", a1, "AppVM", "-"), Surf("disp2", a2)} }

MCDispvmOf == [t \in {"surf", "work"} |-> IF t = "surf" THEN "dispvm-surf" ELSE "dispvm-work"]
=============================================================================
