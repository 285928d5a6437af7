---------------------------- MODULE MCDiftTables ----------------------------
(* Three bytes of memory and a disk of two pages of two bytes.  Ranges     *)
(* begin and end on both sides of every boundary; "msb" is the bit that a  *)
(* tag may not use.                                                        *)
EXTENDS DiftTables

Request(op, a, h, len, tag) == [op |-> op, mem |-> a, hd |-> h, len |-> len, tag |-> tag]

MCRequests ==
    {Request(op, a, h, len, {}) : op \in Copies, a \in {0, 1, RamSize},
                                  h \in {0, 1, 3}, len \in {1, 3}}
    \cup {Request(op, 0, h, len, tag) : op \in DiskTags, h \in {1, 2}, len \in {0, 2},
                                        tag \in {{"t"}, {}}}
    \cup {Request(op, a, 0, 2, tag) : op \in MemTags, a \in {1, RamSize},
                                      tag \in {{"t"}, {}, {"msb"}}}
=============================================================================
