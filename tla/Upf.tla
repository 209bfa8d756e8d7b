-------------------------------- MODULE Upf ---------------------------------
(***************************************************************************)
(* 5gc/upf: the user-plane programs upf_dpdk_example.c, upf_rss_multi_     *)
(* queue.c and rss_complete_example.c.  Each starts one polling task per   *)
(* worker core; a task takes bursts of mbufs from a receive queue and      *)
(* tunnels (downlink), unwraps (uplink) or only frees each packet.  The    *)
(* packets share one mbuf pool.  Sequence numbers and counters are left    *)
(* out, as are the extension headers gtp_decap does not parse.             *)
(***************************************************************************)
EXTENDS Naturals, Sequences, FiniteSets, FiniteSetsExt

CONSTANTS Programs,     \* which of the programs may be run
          UpfCores,     \* worker lcores, 1..n
          NumQueues,    \* receive queues of a port (4)
          RingSize,     \* packets a receive queue holds (1024)
          Burst,        \* BURST_SIZE (32)
          NumMbufs,     \* mbufs in the pool (8191)
          Ues           \* UEs with a session

VARIABLES program, rx,      \* rx[port][queue]: packets received and not polled
          core,             \* core[c]: its task and what it holds
          avail, inTx,      \* mbufs in the pool; mbufs the NIC is sending
          raced             \* history: bursts of two cores on one queue have clashed

upfVars == <<program, rx, core, avail, inTx, raced>>

Ports == {"dn", "ran"}
QueuesOf(p) == IF p = "dpdk" THEN {0} ELSE 0..(NumQueues - 1)

-----------------------------------------------------------------------------
(* GTP-U headers.  A header is version, whether the optional 4 bytes are   *)
(* there, message type, length field and TEID; size is that of the packet. *)

TPdu == 255
HdrMin == 8
HdrExt == 12
IpHdr == 20

Gtp(version, ext, type, length, teid, size) ==
    [version |-> version, ext |-> ext, type |-> type, length |-> length, teid |-> teid, size |-> size]
Fail == [ok |-> FALSE, teid |-> "none", len |-> 0]
Got(teid, len) == [ok |-> TRUE, teid |-> teid, len |-> len]

\* upf_dpdk_example.c always asks for the sequence number.
gtp_encap_dpdk(len, teid) == Gtp(1, TRUE, TPdu, len + 4, teid, HdrExt + len)

gtp_encap_rss(len, teid) == Gtp(1, FALSE, TPdu, len, teid, HdrMin + len)

gtp_decap_dpdk(g) ==
    LET hdr == IF g.ext THEN HdrExt ELSE HdrMin
        opt == IF g.ext THEN 4 ELSE 0
    IN IF \/ g.size < hdr \/ g.version # 1 \/ g.type # TPdu
          \/ g.length <= opt \/ hdr + (g.length - opt) > g.size
       THEN Fail ELSE Got(g.teid, g.length - opt)

gtp_decap_rss(g) ==
    IF g.size < HdrMin \/ g.version # 1 \/ g.type # TPdu \/ g.length = 0 \/ HdrMin + g.length > g.size
    THEN Fail ELSE Got(g.teid, g.length)

gtp_decap(g) == IF program = "dpdk" THEN gtp_decap_dpdk(g) ELSE gtp_decap_rss(g)

-----------------------------------------------------------------------------
(* Packets on the two ports *)

Plain(v4, len, dst) == [v4 |-> v4, len |-> len, dst |-> dst]
Tunnel(outer, g) == [outer |-> outer, gtp |-> g]

DownlinkTraffic == {Plain(FALSE, 40, "nobody"), Plain(TRUE, 8, "nobody"), Plain(TRUE, 60, "nobody")}
                   \cup {Plain(TRUE, 60, u) : u \in Ues}

\* What gNodeBs send: whole packets with and without sequence number, and ones
\* that a check turns down.
UplinkTraffic ==
    {Tunnel("notGtp", Gtp(1, FALSE, TPdu, 60, "nobody", 68)),
     Tunnel("udp", Gtp(1, FALSE, TPdu, 0, "nobody", 8)),
     Tunnel("udp", Gtp(1, FALSE, TPdu, 99, "nobody", 68)),
     Tunnel("udp", Gtp(1, FALSE, 1, 60, "nobody", 68)),
     Tunnel("udp", Gtp(1, FALSE, TPdu, 60, "nobody", 68))}
    \cup {Tunnel("udp", Gtp(1, ext, TPdu, 60, u, 68)) : u \in Ues, ext \in BOOLEAN}

Traffic(port) == IF port = "dn" THEN DownlinkTraffic ELSE UplinkTraffic

\* The session tables are fixed; a UE stands for its address and both its TEIDs.
\* main fills the table before it registers the downlink cores, so that no session
\* is bound to one.
dl_cores == <<>>
affinity_core(u) == IF dl_cores = <<>> THEN {} ELSE {dl_cores[1]}
init_ue_sessions == [u \in Ues |-> affinity_core(u)]
lookup_session_by_destip(ip) == ip \in DOMAIN init_ue_sessions
lookup_session_by_teid_ul(teid) == teid \in DOMAIN init_ue_sessions
OtherCore(u, c) == init_ue_sessions[u] # {} /\ c \notin init_ue_sessions[u]
parse_ip_packet(pkt) == pkt.len >= IpHdr /\ pkt.v4

-----------------------------------------------------------------------------
(* Which task each core runs.  A launch on a core that runs one fails.     *)

Nothing == [pkt |-> <<>>]
Task(kind, port, queue) ==
    [kind |-> kind, port |-> port, queue |-> queue, bufs |-> <<>>, out |-> Nothing]
NoTask == Task("none", "dn", 0)

main_dpdk ==
    [c \in UpfCores |-> CASE c \in {2, 3} -> Task("downlink", "dn", 0)
                          [] c \in {4, 5} -> Task("uplink", "ran", 0)
                          [] OTHER -> NoTask]

\* The second loop over the workers starts again at the first one, and counts
\* the queues of the cores it fails to launch.
main_rss ==
    [c \in UpfCores |-> IF c <= NumQueues \div 2 THEN Task("downlink_rss", "dn", c - 1) ELSE NoTask]

launch_multi_queue_processing ==
    [c \in UpfCores |-> IF c <= NumQueues THEN Task("free", "ran", c - 1) ELSE NoTask]

UpfInit ==
    /\ program \in Programs
    /\ rx = [p \in Ports |-> [q \in QueuesOf(program) |-> <<>>]]
    /\ core = CASE program = "dpdk" -> main_dpdk
                [] program = "rss" -> main_rss
                [] OTHER -> launch_multi_queue_processing
    /\ avail = NumMbufs /\ inTx = 0 /\ raced = FALSE

-----------------------------------------------------------------------------
(* The NIC: a packet needs an mbuf; a sent one is given back.  RSS picks   *)
(* the queue from a hash of the packet's addresses.                        *)

Receive(port, q, pkt) ==
    /\ avail > 0 /\ Len(rx[port][q]) < RingSize
    /\ rx' = [rx EXCEPT ![port][q] = Append(@, pkt)]
    /\ avail' = avail - 1
    /\ UNCHANGED <<program, core, inTx, raced>>

TxDone ==
    /\ inTx > 0
    /\ inTx' = inTx - 1 /\ avail' = avail + 1
    /\ UNCHANGED <<program, rx, core, raced>>

-----------------------------------------------------------------------------
Front(s, n) == SubSeq(s, 1, n)
Least(m, n) == IF m < n THEN m ELSE n

\* The other cores with the task of c, on the same queues.  The drivers have no lock.
Sharing(c) == {e \in UpfCores \ {c} : /\ core[e].kind = core[c].kind /\ core[e].port = core[c].port
                                       /\ core[e].queue = core[c].queue}

\* While another core polls the queue, its write of the ring's tail may undo this
\* one's: the same packets are handed out again.
rte_eth_rx_burst(c) ==
    LET t == core[c]
        q == rx[t.port][t.queue]
        n == Least(Len(q), Burst)
    IN /\ t.kind # "none" /\ t.bufs = <<>> /\ q # <<>>
       /\ core' = [core EXCEPT ![c].bufs = Front(q, n)]
       /\ \/ /\ rx' = [rx EXCEPT ![t.port][t.queue] = SubSeq(q, n + 1, Len(q))]
             /\ UNCHANGED raced
          \/ /\ raced' = TRUE /\ \E e \in Sharing(c) : core[e].bufs = <<>>
             /\ UNCHANGED rx
       /\ UNCHANGED <<program, avail, inTx>>

Busy(c, kind) == core[c].kind = kind /\ core[c].bufs # <<>> /\ core[c].out = Nothing
Packet(c) == Head(core[c].bufs)

\* The packet is freed and the loop over the burst goes on.
Drop(c) ==
    /\ core' = [core EXCEPT ![c].bufs = Tail(@)]
    /\ avail' = avail + 1

\* A second mbuf is allocated for the packet to send, or the packet is dropped.
Forward(c, pkt) ==
    IF avail = 0 THEN Drop(c)
    ELSE /\ core' = [core EXCEPT ![c].out = [pkt |-> <<pkt>>]]
         /\ avail' = avail - 1

\* Mutant: a packet without session is not freed.
process_downlink_leaks(c) ==
    /\ Busy(c, "downlink")
    /\ LET p == Packet(c) IN
       IF parse_ip_packet(p) /\ ~lookup_session_by_destip(p.dst)
       THEN core' = [core EXCEPT ![c].bufs = Tail(@)] /\ UNCHANGED avail
       ELSE Drop(c)
    /\ UNCHANGED <<program, rx, inTx, raced>>

process_downlink_packet(c) ==
    /\ Busy(c, "downlink")
    /\ LET p == Packet(c) IN
       IF parse_ip_packet(p) /\ lookup_session_by_destip(p.dst) /\ ~OtherCore(p.dst, c)
       THEN Forward(c, Tunnel("udp", gtp_encap_dpdk(p.len, p.dst)))
       ELSE Drop(c)
    /\ UNCHANGED <<program, rx, inTx, raced>>

\* upf_rss_multi_queue.c knows no affinity.
process_downlink_packet_rss(c) ==
    /\ Busy(c, "downlink_rss")
    /\ LET p == Packet(c) IN
       IF parse_ip_packet(p) /\ lookup_session_by_destip(p.dst)
       THEN Forward(c, Tunnel("udp", gtp_encap_rss(p.len, p.dst)))
       ELSE Drop(c)
    /\ UNCHANGED <<program, rx, inTx, raced>>

process_uplink_packet(c) ==
    /\ Busy(c, "uplink")
    /\ LET p == Packet(c)
           d == gtp_decap_dpdk(p.gtp)
       IN IF p.outer = "udp" /\ d.ok /\ lookup_session_by_teid_ul(d.teid) /\ ~OtherCore(d.teid, c)
          THEN Forward(c, Plain(TRUE, d.len, d.teid))
          ELSE Drop(c)
    /\ UNCHANGED <<program, rx, inTx, raced>>

lcore_packet_handler(c) ==
    /\ Busy(c, "free")
    /\ Drop(c)
    /\ UNCHANGED <<program, rx, inTx, raced>>

\* rte_eth_tx_burst takes the packet or leaves it to be freed; then the
\* received one is freed.  Every core sends on queue 0 of the other port: one
\* that sends at the same time may take the same slot, and an mbuf is lost.
rte_eth_tx_burst(c, sent) ==
    /\ core[c].out # Nothing
    /\ core' = [core EXCEPT ![c].out = Nothing, ![c].bufs = Tail(@)]
    /\ \/ /\ inTx' = IF sent THEN inTx + 1 ELSE inTx
          /\ UNCHANGED raced
       \/ /\ sent /\ raced' = TRUE
          /\ \E e \in UpfCores \ {c} : core[e].kind = core[c].kind /\ core[e].out # Nothing
          /\ UNCHANGED inTx
    /\ avail' = IF sent THEN avail + 1 ELSE avail + 2
    /\ UNCHANGED <<program, rx>>

CoreStep(c) ==
    \/ rte_eth_rx_burst(c)
    \/ process_downlink_packet(c) \/ process_downlink_packet_rss(c)
    \/ process_uplink_packet(c) \/ lcore_packet_handler(c)
    \/ \E sent \in BOOLEAN : rte_eth_tx_burst(c, sent)

\* A clash leaves the rings, and soon the pool, in a state that is anyone's guess:
\* behaviours are followed up to it.
UpfNext ==
    /\ ~raced
    /\ \/ \E p \in Ports : \E q \in DOMAIN rx[p] : \E pkt \in Traffic(p) : Receive(p, q, pkt)
       \/ TxDone
       \/ \E c \in UpfCores : CoreStep(c)

\* Polling cores never stop; the NIC sends what it took.
UpfFairness == WF_upfVars(~raced /\ TxDone) /\ \A c \in UpfCores : WF_upfVars(~raced /\ CoreStep(c))

UpfSpec == UpfInit /\ [][UpfNext]_upfVars /\ UpfFairness

-----------------------------------------------------------------------------
Held(c) == Len(core[c].bufs) + Len(core[c].out.pkt)
Queued(port) == MapThenSumSet(LAMBDA q : Len(rx[port][q]), DOMAIN rx[port])

\* Every mbuf is in one place: the pool, a receive queue, a core's burst, a packet
\* about to be sent or the NIC.  No early return of the packet handlers loses one
\* or frees one twice, also when the pool is empty or a send fails.
MbufsAccounted ==
    avail + inTx + Queued("dn") + Queued("ran") + MapThenSumSet(Held, UpfCores) = NumMbufs

\* What gtp_encap wraps, gtp_decap of the same program unwraps to the same length
\* under the TEID of the UE the packet is addressed to.
TunnelKeepsPacket ==
    \A c \in UpfCores :
        core[c].kind \in {"downlink", "downlink_rss"} /\ core[c].out # Nothing =>
            gtp_decap(core[c].out.pkt[1].gtp) = Got(Packet(c).dst, Packet(c).len)

Unpolled == {pq \in {<<p, q>> : p \in Ports, q \in 0..NumQueues} :
                 ~ \E c \in UpfCores : core[c].kind # "none" /\ pq = <<core[c].port, core[c].queue>>}

\* So packets are neither lost with their mbufs nor changed in the tunnel, as long
\* as no bursts of two cores on one queue have clashed, which nothing in
\* upf_dpdk_example.c and upf_rss_multi_queue.c prevents: after that an mbuf may be
\* freed twice or never.
PacketsAccounted == ~raced => MbufsAccounted /\ TunnelKeepsPacket
=============================================================================
