--------------------------- MODULE NettramonPacket ---------------------------
(***************************************************************************)
(* What the network traffic monitor does with a captured packet:           *)
(* nettramon_packet_parse finds the payload, and print_payload prints it   *)
(* in lines of 16 bytes (nettramon.c).  A packet is the number of bytes    *)
(* captured and the fields of its headers that the parser reads; lengths   *)
(* in headers are independent of the bytes captured.                       *)
(***************************************************************************)
EXTENDS Integers, Sequences

CONSTANTS
    Packets,   \* packets that may be captured
    SizeMod    \* 2^64: lengths are size_t and computed modulo this

SZ_ETHERNET_H == 14
SZ_IP_H   == 20
SZ_TCP_H  == 20
SZ_UDP_H  == 8
SZ_ICMP_H == 8
Protocols == {"tcp", "udp", "icmp", "other"}

Bits4  == 0 .. 15
Bits16 == {n \in Nat : n < 65536}
Fields == [len : Nat, ip_hl : Bits4, ip_p : Protocols, ip_len : Bits16,
           th_off : Bits4, uh_leng : Bits16]

ASSUME PacketsAssumption ==
    Packets \subseteq Fields /\ SizeMod \in Nat \ {0}

NoPacket == [len |-> 0, ip_hl |-> 0, ip_p |-> "other", ip_len |-> 0,
             th_off |-> 0, uh_leng |-> 0]

VARIABLES
    pc,         \* "idle", "parsed", "printing"
    packet,     \* the packet captured last
    info,       \* what the parser found
    len_remain, pl_head, offset,  \* of print_payload; pl_head counts from 0
    lines       \* what was printed: position, length, offset shown

vars == <<pc, packet, info, len_remain, pl_head, offset, lines>>

-----------------------------------------------------------------------------
(* The parser.                                                             *)

(* clear_packet_info, and 1 is returned                                    *)
Failed == [ok |-> FALSE, payload |-> 0, len |-> 0]

(* Where the payload starts, with a last header of the given size, and how *)
(* long the header of IP says that it is.  The sum wraps around as size_t. *)
Found(p, size) ==
    [ok |-> TRUE, payload |-> SZ_ETHERNET_H + p.ip_hl * 4 + size,
     len |-> (p.ip_len - (p.ip_hl * 4 + size)) % SizeMod]

(* Mutant: the length that the header of IP claims is not compared.        *)
LastHeaderTrusting(p, check_len, size) ==
    IF check_len >= size THEN Found(p, size) ELSE Failed

(* The last header: it must fit, and what is left of the bytes captured    *)
(* must be the length found.                                               *)
LastHeader(p, check_len, size) ==
    IF check_len >= size /\ check_len - size = Found(p, size).len
    THEN Found(p, size) ELSE Failed

(* nettramon_packet_parse, behind the header of IP                         *)
ParseProtocol(p, check_len) ==
    CASE p.ip_p = "tcp" ->
            IF check_len >= SZ_TCP_H /\ p.th_off * 4 >= SZ_TCP_H
            THEN LastHeader(p, check_len, p.th_off * 4) ELSE Failed
      [] p.ip_p = "udp" ->
            IF check_len >= SZ_UDP_H /\ check_len = p.uh_leng
            THEN LastHeader(p, check_len, SZ_UDP_H) ELSE Failed
      [] p.ip_p = "icmp" -> LastHeader(p, check_len, SZ_ICMP_H)
      [] OTHER -> Failed

nettramon_packet_parse(p) ==
    IF /\ p.len >= SZ_ETHERNET_H + SZ_IP_H
       /\ p.ip_hl * 4 >= 20 /\ p.len - SZ_ETHERNET_H >= p.ip_hl * 4
    THEN ParseProtocol(p, p.len - SZ_ETHERNET_H - p.ip_hl * 4)
    ELSE Failed

-----------------------------------------------------------------------------
(* Capturing and printing.                                                 *)

line_width == 16

Init ==
    /\ pc = "idle" /\ packet = NoPacket /\ info = Failed
    /\ len_remain = 0 /\ pl_head = 0 /\ offset = 0 /\ lines = << >>

(* nettramon_packet_capture parses a packet, and prints it if that works.  *)
Capture(p) ==
    /\ pc = "idle"
    /\ packet' = p /\ info' = nettramon_packet_parse(p)
    /\ pc' = (IF info'.ok THEN "parsed" ELSE "idle")
    /\ lines' = << >>
    /\ UNCHANGED <<len_remain, pl_head, offset>>

Line(pos, n, off) == <<pos, n, off>>


PrintNothing ==
    /\ pc = "parsed" /\ info.len <= 0
    /\ pc' = "idle"
    /\ UNCHANGED <<packet, info, len_remain, pl_head, offset, lines>>

PrintOne ==
    /\ pc = "parsed" /\ info.len > 0 /\ info.len <= line_width
    /\ lines' = Append(lines, Line(0, info.len, 0))
    /\ pc' = "idle"
    /\ UNCHANGED <<packet, info, len_remain, pl_head, offset>>

PrintStart ==
    /\ pc = "parsed" /\ info.len > line_width
    /\ len_remain' = info.len /\ pl_head' = 0 /\ offset' = 0
    /\ pc' = "printing"
    /\ UNCHANGED <<packet, info, lines>>

(* Mutant: the rest is not printed.                                        *)
PrintLineOnly ==
    /\ pc = "printing"
    /\ LET line_len == line_width % len_remain
       IN  /\ len_remain' = len_remain - line_len
           /\ pl_head' = pl_head + line_len
           /\ offset' = offset + line_width
           /\ lines' = Append(lines, Line(pl_head, line_len, offset))
           /\ pc' = (IF len_remain' <= line_width THEN "idle" ELSE "printing")
    /\ UNCHANGED <<packet, info>>

(* One turn of the loop, the last one with the rest of the payload.        *)
PrintLine ==
    /\ pc = "printing"
    /\ LET line_len == line_width % len_remain
           printed  == Append(lines, Line(pl_head, line_len, offset))
       IN  /\ len_remain' = len_remain - line_len
           /\ pl_head' = pl_head + line_len
           /\ offset' = offset + line_width
           /\ IF len_remain' <= line_width
              THEN /\ lines' = Append(printed, Line(pl_head', len_remain', offset'))
                   /\ pc' = "idle"
              ELSE lines' = printed /\ pc' = "printing"
    /\ UNCHANGED <<packet, info>>

Next ==
    \/ \E p \in Packets : Capture(p)
    \/ PrintNothing \/ PrintOne \/ PrintStart \/ PrintLine

Spec == Init /\ [][Next]_vars

(* A function that was called runs to its end.                             *)
FairSpec == Spec /\ WF_vars(PrintNothing \/ PrintOne \/ PrintStart \/ PrintLine)

-----------------------------------------------------------------------------
(* Properties.                                                             *)

(* A payload that was found begins behind the headers and ends with the    *)
(* last byte captured, whatever lengths the headers claim.                 *)
(* (nettramon_packet_parse.)                                               *)
InsidePacket ==
    info.ok =>
       /\ info.payload \in SZ_ETHERNET_H + SZ_IP_H + SZ_UDP_H .. packet.len
       /\ info.payload + info.len = packet.len

(* The lines printed follow each other without gap or overlap, none is     *)
(* empty or too long, and each is labelled with its own position.          *)
Joined ==
    \A i \in DOMAIN lines :
       /\ lines[i][2] \in 1 .. line_width
       /\ lines[i][3] = lines[i][1]
       /\ lines[i][1] = (i - 1) * line_width
       /\ i < Len(lines) => lines[i][2] = line_width

(* When printing is over, the lines make up the payload to its last byte.  *)
(* (print_payload.)                                                        *)
WholePayload ==
    /\ Joined
    /\ pc = "idle" /\ info.ok =>
          info.len = IF lines = << >> THEN 0
                     ELSE lines[Len(lines)][1] + lines[Len(lines)][2]


(* While printing, position, offset and what remains agree with the lines  *)
(* that were printed: 16 % len_remain is a full line as long as more than  *)
(* a line remains.  (The loop of print_payload.)                           *)
Progress ==
    pc = "printing" =>
       /\ info.ok /\ len_remain > line_width /\ pl_head + len_remain = info.len
       /\ offset = pl_head /\ pl_head = Len(lines) * line_width
       /\ \A i \in DOMAIN lines : lines[i][2] = line_width

(* Types, and a packet that is about to be printed has been understood and *)
(* nothing of it is printed yet.  (packet_info, print_payload.)            *)
TypeOK ==
    /\ pc \in {"idle", "parsed", "printing"} /\ packet \in Fields
    /\ info \in [ok : BOOLEAN, payload : Nat, len : Nat]
    /\ len_remain \in Nat /\ pl_head \in Nat /\ offset \in Nat
    /\ lines \in Seq(Nat \X Nat \X Nat)
    /\ pc = "parsed" => info.ok /\ lines = << >>

(* The inductive invariant behind InsidePacket and WholePayload.           *)
PrintInv == TypeOK /\ InsidePacket /\ Progress /\ WholePayload

=============================================================================
