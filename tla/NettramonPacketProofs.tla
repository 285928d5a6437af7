------------------------ MODULE NettramonPacketProofs ------------------------
(* Proofs about NettramonPacket: for all packets, the parser stays inside  *)
(* the bytes captured and the printer prints exactly the payload.          *)
EXTENDS NettramonPacket, TLAPS

Info == [ok : BOOLEAN, payload : Nat, len : Nat]

(* What Found returns is well typed.  (Pointer and length of the payload.) *)
LEMMA FoundType ==
    ASSUME NEW p \in Fields, NEW size \in Nat
    PROVE  /\ Found(p, size) \in Info /\ Found(p, size).ok
           /\ Found(p, size).payload = SZ_ETHERNET_H + p.ip_hl * 4 + size
<1>1. SizeMod \in Nat /\ SizeMod > 0
  BY PacketsAssumption
<1>2. \A i \in Int, n \in Nat : n > 0 => i % n \in Nat
  OBVIOUS
<1>3. p.ip_len \in Int /\ p.ip_hl \in Nat
  BY DEF Fields, Bits4, Bits16
<1>4. (p.ip_len - (p.ip_hl * 4 + size)) % SizeMod \in Nat
  BY <1>1, <1>2, <1>3
<1> QED
  BY <1>3, <1>4 DEF Found, Info, SZ_ETHERNET_H

(* What the last header yields: nothing, or a payload that ends the bytes  *)
(* captured.  (The three cases of nettramon_packet_parse.)                 *)
LEMMA LastHeaderInside ==
    ASSUME NEW p \in Fields, NEW size \in Nat, NEW check_len \in Nat,
           p.len = SZ_ETHERNET_H + p.ip_hl * 4 + check_len
    PROVE  LET r == LastHeader(p, check_len, size)
           IN  /\ r \in Info
               /\ r.ok => /\ r.payload = SZ_ETHERNET_H + p.ip_hl * 4 + size
                          /\ r.payload + r.len = p.len
<1>1. CASE check_len >= size /\ check_len - size = Found(p, size).len
  <2>1. LastHeader(p, check_len, size) = Found(p, size)
    BY <1>1 DEF LastHeader
  <2>2. p.ip_hl \in Nat
    BY DEF Fields, Bits4, Bits16
  <2>3. Found(p, size).payload + Found(p, size).len = p.len
    BY <1>1, <2>2, FoundType DEF SZ_ETHERNET_H
  <2> QED
    BY <2>1, <2>3, FoundType
<1>2. CASE ~(check_len >= size /\ check_len - size = Found(p, size).len)
  <2>1. LastHeader(p, check_len, size) = Failed
    BY <1>2 DEF LastHeader
  <2> QED
    BY <2>1 DEF Failed, Info
<1> QED
  BY <1>1, <1>2

(* The parser finds nothing, or a payload behind headers of at least 42    *)
(* bytes that ends with the packet.  (nettramon_packet_parse.)             *)
LEMMA ParseInside ==
    ASSUME NEW p \in Fields
    PROVE  LET r == nettramon_packet_parse(p)
           IN  /\ r \in Info
               /\ r.ok => /\ r.payload \in SZ_ETHERNET_H + SZ_IP_H + SZ_UDP_H .. p.len
                          /\ r.payload + r.len = p.len
<1> DEFINE r == nettramon_packet_parse(p)
           c == p.len - SZ_ETHERNET_H - p.ip_hl * 4
<1>1. p.len \in Nat /\ p.ip_hl \in Nat /\ p.th_off \in Nat
  BY DEF Fields, Bits4, Bits16
<1>2. Failed \in Info /\ ~Failed.ok
  BY DEF Failed, Info
<1>3. CASE r = Failed
  BY <1>2, <1>3
<1>4. CASE r # Failed
  <2>1. p.ip_hl * 4 >= 20 /\ c \in Nat /\ r = ParseProtocol(p, c)
    BY <1>1, <1>4 DEF nettramon_packet_parse, SZ_ETHERNET_H, SZ_IP_H
  <2>2. PICK size \in Nat : size >= 8 /\ r = LastHeader(p, c, size)
    <3>1. CASE p.ip_p = "tcp"
      BY <1>1, <1>4, <2>1, <3>1 DEF ParseProtocol, SZ_TCP_H
    <3>2. CASE p.ip_p = "udp"
      BY <1>4, <2>1, <3>2 DEF ParseProtocol, SZ_UDP_H
    <3>3. CASE p.ip_p = "icmp"
      BY <2>1, <3>3 DEF ParseProtocol, SZ_ICMP_H
    <3>4. CASE p.ip_p \notin {"tcp", "udp", "icmp"}
      BY <1>4, <2>1, <3>4 DEF ParseProtocol
    <3> QED
      BY <3>1, <3>2, <3>3, <3>4
  <2>3. p.len = SZ_ETHERNET_H + p.ip_hl * 4 + c
    BY <1>1 DEF SZ_ETHERNET_H
  <2> HIDE DEF r, c
  <2>4. /\ r \in Info
        /\ r.ok => /\ r.payload = SZ_ETHERNET_H + p.ip_hl * 4 + size
                   /\ r.payload + r.len = p.len
    BY <2>1, <2>2, <2>3, LastHeaderInside
  <2>5. r.ok => r.payload \in SZ_ETHERNET_H + SZ_IP_H + SZ_UDP_H .. p.len
    BY <1>1, <2>1, <2>2, <2>4 DEF Info, SZ_ETHERNET_H, SZ_IP_H, SZ_UDP_H
  <2> QED
    BY <2>4, <2>5 DEF r
<1> QED
  BY <1>3, <1>4

-----------------------------------------------------------------------------
(* Printing.                                                               *)

Triples == Nat \X Nat \X Nat

(* No line has been printed, or full lines in order.                       *)
Full(ls) ==
    \A i \in DOMAIN ls :
       ls[i][1] = (i - 1) * line_width /\ ls[i][2] = line_width
       /\ ls[i][3] = ls[i][1]

(* Joined, of any lines.                                                   *)
Joins(ls) ==
    \A i \in DOMAIN ls :
       /\ ls[i][2] \in 1 .. line_width
       /\ ls[i][3] = ls[i][1]
       /\ ls[i][1] = (i - 1) * line_width
       /\ i < Len(ls) => ls[i][2] = line_width

(* A line appended in order keeps the lines joined, when all lines before  *)
(* it are full.  (print_payload.)                                          *)
LEMMA AppendJoined ==
    ASSUME NEW ls \in Seq(Triples), NEW n \in 1 .. line_width, Full(ls),
           NEW pos \in Nat, pos = Len(ls) * line_width
    PROVE  LET new == Append(ls, Line(pos, n, pos))
           IN  /\ new \in Seq(Triples) /\ new # << >>
               /\ Len(new) = Len(ls) + 1
               /\ new[Len(new)] = <<pos, n, pos>>
               /\ Joins(new)
<1> DEFINE t == Line(pos, n, pos)
           new == Append(ls, t)
<1>1. pos \in Nat /\ n \in Nat /\ Len(ls) \in Nat
  BY DEF line_width
<1>2. t \in Triples /\ t = <<pos, n, pos>> /\ t[1] = pos /\ t[2] = n /\ t[3] = pos
  BY <1>1 DEF Triples, Line
<1> HIDE DEF t
<1>3. /\ new \in Seq(Triples) /\ Len(new) = Len(ls) + 1
      /\ new[Len(ls) + 1] = t /\ DOMAIN new = 1 .. Len(ls) + 1
      /\ \A i \in 1 .. Len(ls) : new[i] = ls[i]
  BY <1>2
<1> HIDE DEF new
<1>4. ASSUME NEW i \in DOMAIN new
      PROVE  /\ new[i][2] \in 1 .. line_width
             /\ new[i][3] = new[i][1]
             /\ new[i][1] = (i - 1) * line_width
             /\ i < Len(new) => new[i][2] = line_width
  <2>1. CASE i = Len(ls) + 1
    <3>1. new[i] = t /\ i - 1 = Len(ls) /\ ~(i < Len(new))
      BY <1>1, <1>3, <2>1
    <3> QED
      BY <1>2, <3>1
  <2>2. CASE i \in 1 .. Len(ls)
    <3>1. i \in DOMAIN ls /\ new[i] = ls[i]
      BY <1>3, <2>2
    <3> QED
      BY <3>1 DEF line_width, Full
  <2> QED
    BY <1>1, <1>3, <2>1, <2>2
<1>5. new # << >>
  BY <1>1, <1>3
<1> QED
  <2>1. Joins(new)
    BY <1>4 DEF Joins
  <2> QED
    BY <1>2, <1>3, <1>5, <2>1 DEF new, t

(* Inside the loop all lines printed so far are full.  (print_payload.)    *)
LEMMA PrintingFull ==
    PrintInv /\ pc = "printing" => Full(lines)
BY DEF PrintInv, Progress, WholePayload, Joined, Full

(* Before the first packet.                                                *)
LEMMA InitPrintInv == Init => PrintInv
<1> SUFFICES ASSUME Init PROVE PrintInv
  OBVIOUS
<1>1. TypeOK
  BY DEF Init, TypeOK, NoPacket, Fields, Bits4, Bits16, Protocols, Failed
<1>2. InsidePacket /\ Progress
  BY DEF Init, InsidePacket, Progress, Failed
<1>3. WholePayload
  BY DEF Init, WholePayload, Joined, Failed
<1> QED
  BY <1>1, <1>2, <1>3 DEF PrintInv

(* Capturing a packet: the parser's result is inside the packet, and the   *)
(* lines are those of no packet.  (nettramon_packet_capture.)              *)
LEMMA CaptureStep ==
    ASSUME PrintInv, NEW p \in Packets, Capture(p)
    PROVE  PrintInv'
<1>1. p \in Fields
  BY PacketsAssumption
<1>2. /\ info' \in Info
      /\ info'.ok => /\ info'.payload \in SZ_ETHERNET_H + SZ_IP_H + SZ_UDP_H .. p.len
                     /\ info'.payload + info'.len = p.len
  BY <1>1, ParseInside DEF Capture
<1>3. pc' \in {"idle", "parsed"} /\ (pc' = "parsed" <=> info'.ok)
  BY <1>2 DEF Capture, Info
<1>4. lines' = << >> /\ packet' = p
  BY DEF Capture
<1>5. TypeOK'
  BY <1>1, <1>2, <1>3, <1>4 DEF Capture, PrintInv, TypeOK, Info
<1>6. InsidePacket'
  BY <1>2, <1>4 DEF InsidePacket
<1>7. Progress' /\ WholePayload'
  BY <1>3, <1>4 DEF Progress, WholePayload, Joined
<1> QED
  BY <1>5, <1>6, <1>7 DEF PrintInv

(* An empty payload.                                                       *)
LEMMA NothingStep ==
    ASSUME PrintInv, PrintNothing
    PROVE  PrintInv'
<1>1. TypeOK'
  BY DEF PrintInv, TypeOK, PrintNothing
<1>2. InsidePacket' /\ Progress'
  BY DEF PrintInv, InsidePacket, Progress, PrintNothing
<1>3. WholePayload'
  BY DEF PrintInv, TypeOK, WholePayload, Joined, PrintNothing
<1> QED
  BY <1>1, <1>2, <1>3 DEF PrintInv

(* A payload of one line.                                                  *)
LEMMA OneStep ==
    ASSUME PrintInv, PrintOne
    PROVE  PrintInv'
<1>1. /\ info.len \in 1 .. line_width /\ lines = << >> /\ info.ok
      /\ lines \in Seq(Triples) /\ info \in Info
  BY DEF PrintInv, TypeOK, PrintOne, line_width, Triples, Info
<1>2. /\ lines' = Append(lines, Line(0, info.len, 0))
      /\ Full(lines) /\ 0 = Len(lines) * line_width
  BY <1>1 DEF PrintOne, Full, line_width
<1> DEFINE new == Append(lines, Line(0, info.len, 0))
<1>3. /\ new \in Seq(Triples) /\ new # << >>
      /\ new[Len(new)] = <<0, info.len, 0>> /\ Joins(new)
  <2>1. 0 \in Nat /\ lines \in Seq(Triples) /\ info.len \in 1 .. line_width
    BY <1>1
  <2> QED
    BY ONLY <1>2, <2>1, AppendJoined
<1>3a. lines' = new
  BY <1>2
<1> HIDE DEF new
<1>3b. Joined'
  BY <1>3, <1>3a DEF Joined, Joins
<1>4. TypeOK'
  BY <1>3, <1>3a DEF PrintInv, TypeOK, PrintOne, Triples
<1>5. InsidePacket' /\ Progress'
  BY DEF PrintInv, InsidePacket, Progress, PrintOne
<1>6. WholePayload'
  <2>1. /\ lines'[Len(lines')][1] = 0 /\ lines'[Len(lines')][2] = info.len
        /\ lines' # << >>
    BY <1>3, <1>3a
  <2>2. info' = info /\ info.len \in Nat
    BY <1>1 DEF PrintOne, Info
  <2> QED
    BY <1>3b, <2>1, <2>2 DEF WholePayload
<1> QED
  BY <1>4, <1>5, <1>6 DEF PrintInv

(* The loop begins with nothing printed.                                   *)
LEMMA StartStep ==
    ASSUME PrintInv, PrintStart
    PROVE  PrintInv'
<1>1. TypeOK'
  BY DEF PrintInv, TypeOK, PrintStart
<1>2. InsidePacket'
  BY DEF PrintInv, InsidePacket, PrintStart
<1>3. Progress'
  BY DEF PrintInv, TypeOK, Progress, PrintStart, line_width
<1>4. WholePayload'
  BY DEF PrintInv, WholePayload, Joined, PrintStart
<1> QED
  BY <1>1, <1>2, <1>3, <1>4 DEF PrintInv

(* A turn of the loop.  More than a line remains, so the remainder of 16   *)
(* by it is 16: a full line.  Then the rest is a line, or the loop goes on.*)
LEMMA LineStep ==
    ASSUME PrintInv, PrintLine
    PROVE  PrintInv'
<1> DEFINE printed == Append(lines, Line(pl_head, line_width, offset))
<1>1. /\ pc = "printing" /\ info.ok /\ info \in Info
      /\ len_remain \in Nat /\ len_remain > line_width
      /\ pl_head + len_remain = info.len /\ offset = pl_head
      /\ pl_head = Len(lines) * line_width
      /\ lines \in Seq(Triples) /\ pl_head \in Nat /\ Len(lines) \in Nat
  BY DEF PrintInv, TypeOK, Progress, PrintLine, Triples, Info
<1>2. line_width % len_remain = line_width
  BY <1>1 DEF line_width
<1>3. /\ len_remain' = len_remain - line_width
      /\ pl_head' = pl_head + line_width /\ offset' = offset + line_width
      /\ packet' = packet /\ info' = info
  BY <1>2 DEF PrintLine
<1>4. Full(lines)
  BY <1>1, PrintingFull
<1>4a. line_width \in 1 .. line_width
  BY DEF line_width
<1>5. /\ printed \in Seq(Triples) /\ printed # << >> /\ Len(printed) = Len(lines) + 1
      /\ Joins(printed)
      /\ printed[Len(printed)] = <<pl_head, line_width, pl_head>>
  <2>1. printed = Append(lines, Line(pl_head, line_width, pl_head))
    BY <1>1
  <2> QED
    BY ONLY <1>1, <1>4, <1>4a, <2>1, AppendJoined
<1> HIDE DEF printed
<1>6. Full(printed)
  <2>1. printed[Len(printed)][2] = line_width
    BY <1>5
  <2> QED
    BY <1>5, <2>1 DEF Full, Joins
<1>7. pl_head' = Len(printed) * line_width /\ offset' = pl_head'
  BY <1>1, <1>3, <1>5 DEF line_width
<1>8. pl_head' \in Nat /\ len_remain' \in Nat /\ offset' \in Nat /\ len_remain' > 0
      /\ pl_head' + len_remain' = info.len
  BY <1>1, <1>3 DEF line_width
<1>9. InsidePacket'
  BY <1>3 DEF PrintInv, InsidePacket
<1>10. CASE len_remain' <= line_width
  <2>1. /\ pc' = "idle"
        /\ lines' = Append(printed, Line(pl_head', len_remain', offset'))
    BY <1>2, <1>10 DEF PrintLine, printed
  <2>2. len_remain' \in 1 .. line_width
    BY <1>8, <1>10 DEF line_width
  <2> DEFINE new == Append(printed, Line(pl_head', len_remain', pl_head'))
  <2>3. /\ new \in Seq(Triples) /\ new # << >> /\ Joins(new)
        /\ new[Len(new)] = <<pl_head', len_remain', pl_head'>>
    BY ONLY <1>5, <1>6, <1>7, <1>8, <2>2, AppendJoined
  <2>3a. lines' = new
    BY <1>7, <2>1
  <2> HIDE DEF new
  <2>3b. Joined'
    BY <2>3, <2>3a DEF Joined, Joins
  <2>4. TypeOK'
    <3>1. TypeOK
      BY DEF PrintInv
    <3>2. lines' \in Seq(Triples)
      BY <2>3, <2>3a
    <3> QED
      BY <1>3, <1>8, <2>1, <3>1, <3>2 DEF TypeOK, Triples
  <2>5. Progress'
    BY <2>1 DEF Progress
  <2>6. WholePayload'
    <3>1. /\ lines'[Len(lines')][1] = pl_head' /\ lines'[Len(lines')][2] = len_remain'
          /\ lines' # << >>
      BY <2>3, <2>3a
    <3> QED
      BY <1>3, <1>8, <2>3b, <3>1 DEF WholePayload
  <2> QED
    BY <1>9, <2>4, <2>5, <2>6 DEF PrintInv
<1>11. CASE ~(len_remain' <= line_width)
  <2>1. pc' = "printing" /\ lines' = printed
    BY <1>2, <1>11 DEF PrintLine, printed
  <2>2. TypeOK'
    BY <1>3, <1>5, <1>8, <2>1 DEF PrintInv, TypeOK, Triples
  <2>3. Progress'
    BY <1>1, <1>3, <1>6, <1>7, <1>8, <1>11, <2>1 DEF Progress, Full, line_width
  <2>4. WholePayload'
    BY <1>5, <2>1 DEF WholePayload, Joined, Joins
  <2> QED
    BY <1>9, <2>2, <2>3, <2>4 DEF PrintInv
<1> QED
  BY <1>10, <1>11

(* PrintInv is an inductive invariant.  (nettramon_packet_parse and        *)
(* print_payload.)                                                         *)
THEOREM PrintInvariant == Spec => []PrintInv
<1>1. PrintInv /\ [Next]_vars => PrintInv'
  <2> SUFFICES ASSUME PrintInv, [Next]_vars PROVE PrintInv'
    OBVIOUS
  <2>1. CASE UNCHANGED vars
    BY <2>1 DEF vars, PrintInv, TypeOK, InsidePacket, Progress, WholePayload, Joined
  <2>2. CASE Next
    BY <2>2, CaptureStep, NothingStep, OneStep, StartStep, LineStep DEF Next
  <2> QED
    BY <2>1, <2>2
<1> QED
  BY InitPrintInv, <1>1, PTL DEF Spec

(* A payload that the parser reports ends with the last byte captured, for *)
(* all packets and all lengths in their headers.  (nettramon_packet_parse.)*)
THEOREM PayloadInsidePacket == Spec => []InsidePacket
BY PrintInvariant, PTL DEF PrintInv

(* The lines printed are the payload, for payloads of every length.        *)
(* (print_payload.)                                                        *)
THEOREM WholePayloadPrinted == Spec => []WholePayload
BY PrintInvariant, PTL DEF PrintInv
=============================================================================
