---------------------------- MODULE MCNettramon ----------------------------
(***************************************************************************)
(* The two halves of the network traffic monitor: what it does with the    *)
(* bytes of a packet (NettramonPacket), and its call backs, files and      *)
(* commands (Nettramon).  A behaviour watches one of them, chosen at the   *)
(* start: they meet only where a capture, its call backs done and the lock *)
(* released, hands the packet to the parser.                               *)
(*                                                                         *)
(* Packets are around every limit of the parser, with payloads of up to    *)
(* three lines.                                                            *)
(***************************************************************************)
EXTENDS NettramonPacket

CONSTANTS Clients, MaxCb, MaxOps

\* A packet of n bytes with lengths in its headers as they should be, and the
\* same with one length that is one off or zero.
Lens    == {14, 33, 34, 41, 42, 43, 54, 58, 90}
Near(n) == {n - 1, 0} \cap (0 .. 2^16 - 1)

Right(n, hl, p) ==
    [len |-> n, ip_hl |-> hl, ip_p |-> p, ip_len |-> n - 14, th_off |-> 5,
     uh_leng |-> IF p # "udp" \/ n < 14 + hl * 4 THEN 0 ELSE n - 14 - hl * 4]

Wrong(p) ==
    {[p EXCEPT !.ip_hl = 4]}
    \cup {[p EXCEPT !.ip_len = k] : k \in Near(p.ip_len)}
    \cup (IF p.ip_p = "tcp" THEN {[p EXCEPT !.th_off = k] : k \in {4, 6}} ELSE {})
    \cup (IF p.ip_p = "udp" THEN {[p EXCEPT !.uh_leng = k] : k \in Near(p.uh_leng)} ELSE {})

MCPackets ==
    UNION {{Right(n, hl, p)} \cup Wrong(Right(n, hl, p)) : n \in Lens, hl \in {5, 6}, p \in Protocols}

VARIABLES
    watched,    \* "packets" or "registry"
    rwlock, cb_arr, enabled, cb_list, call, ret, ops, cap, called, status,
    local_mon, filter, fp, pb, has_set, requested  \* of Nettramon

n_vars == <<rwlock, cb_arr, enabled, cb_list, call, ret, ops, cap, called, status,
            local_mon, filter, fp, pb, has_set, requested>>

N == INSTANCE Nettramon WITH Outputs <- <<"all", "tcp">>

ASSUME N!NettramonAssumption

AllInit == watched \in {"packets", "registry"} /\ Init /\ N!Init

PacketNext   == watched = "packets"  /\ Next   /\ UNCHANGED <<watched, n_vars>>
RegistryNext == watched = "registry" /\ N!Next /\ UNCHANGED <<watched, vars>>

\* Fairness as in the two modules.
AllSpec ==
    /\ AllInit /\ [][PacketNext \/ RegistryNext]_<<watched, vars, n_vars>>
    /\ WF_vars(PrintNothing \/ PrintOne \/ PrintStart \/ PrintLine)
    /\ \A c \in Clients : SF_n_vars(N!Served(c))
    /\ SF_n_vars(N!CaptureLock) /\ WF_n_vars(N!CallBack \/ N!CaptureDone)

-----------------------------------------------------------------------------
(* Properties of Nettramon, see there.                                     *)



\* Calls of the registry return and captures end, unless a failed call kept
\* the lock.  (nettramon_set_cb and the others.)
Serves == N!Serves
=============================================================================
