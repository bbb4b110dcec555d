------------------------------ MODULE Formats -------------------------------
(***************************************************************************)
(* The formats of what is on the wire: TCP segments, IPv4 datagrams,       *)
(* Ethernet frames and ARP messages (libsponge/tcp_helpers), to and from   *)
(* bytes.  The flag bits of TCP and the fragmentation word of IPv4 are     *)
(* numbers from which the flags are read.  A parse operator returns the    *)
(* result that the caller sees, which is not always the result that the    *)
(* header's own parse() had.                                               *)
(***************************************************************************)
EXTENDS NetParser

TCPLayout == <<<<"sport", 2>>, <<"dport", 2>>, <<"seqno", 4>>, <<"ackno", 4>>, <<"doff", 1>>,
               <<"flags", 1>>, <<"win", 2>>, <<"cksum", 2>>, <<"uptr", 2>>>>

Bit(number, value) == (number \div value) % 2 = 1
fin(header) == Bit(header.flags, 1)
syn(header) == Bit(header.flags, 2)
rst(header) == Bit(header.flags, 4)

\* The options are skipped.  HeaderTooShort (doff < 5) is not an error of the
\* parser, and TCPSegment::parse() looks only at the parser.
TCPHeader_parse(p) ==
    Then(ParseFields(p, TCPLayout), LAMBDA got :
        LET h == [got.fields EXCEPT !.doff = @ \div 16, !.flags = @ % 64]
        IN  [header |-> h,
             parser |-> IF h.doff < 5 THEN got.parser
                        ELSE remove_prefix(got.parser, 4 * h.doff - 20)])

Padded(bytes, size) == [k \in 1 .. size |-> IF k \in DOMAIN bytes THEN bytes[k] ELSE 0]

TCPHeader_serialize(h) ==
    Padded(UnparseFields([h EXCEPT !.doff = 16 * @], TCPLayout), 4 * h.doff)

TCPSegment_parse(buffer, datagram_layer_checksum) ==
    IF checksum(datagram_layer_checksum, buffer) # 0 THEN [result |-> "BadChecksum"]
    ELSE Then(TCPHeader_parse(NewParser(buffer)), LAMBDA got :
            [result |-> got.parser.error,
             segment |-> [header |-> got.header, payload |-> got.parser.buffer]])

\* A mutant: the payload does not count.
Checksummed_HeaderOnly(seg, datagram_layer_checksum) ==
    [seg EXCEPT !.header.cksum =
        checksum(datagram_layer_checksum, TCPHeader_serialize([seg.header EXCEPT !.cksum = 0]))]

\* The segment as it leaves: with the checksum over header and payload.
Checksummed(seg, datagram_layer_checksum) ==
    [seg EXCEPT !.header.cksum =
        checksum(datagram_layer_checksum,
                 TCPHeader_serialize([seg.header EXCEPT !.cksum = 0]) \o seg.payload)]

TCPSegment_serialize(seg, datagram_layer_checksum) ==
    Then(Checksummed(seg, datagram_layer_checksum), LAMBDA out :
        TCPHeader_serialize(out.header) \o out.payload)

-----------------------------------------------------------------------------
IPv4Layout == <<<<"first_byte", 1>>, <<"tos", 1>>, <<"len", 2>>, <<"id", 2>>, <<"fo_val", 2>>,
                <<"ttl", 1>>, <<"proto", 1>>, <<"cksum", 2>>, <<"src", 4>>, <<"dst", 4>>>>

PROTO_TCP == 6

\* A new IPv4Header: version 4, hlen 5, don't fragment.
NewIPv4Header == [first_byte |-> 69, tos |-> 0, len |-> 0, id |-> 0, fo_val |-> 16384,
                  ttl |-> 128, proto |-> PROTO_TCP, cksum |-> 0,
                  src |-> <<0, 0>>, dst |-> <<0, 0>>]

ver(h) == h.first_byte \div 16
hlen(h) == h.first_byte % 16
payload_length(h) == (h.len + 65536 - 4 * hlen(h)) % 65536

pseudo_cksum(h) == h.src[1] + h.src[2] + h.dst[1] + h.dst[2] + h.proto + payload_length(h)

IPv4Header_parse(p) ==
    LET size == Len(p.buffer)
    IN  IF size < 20
        THEN [header |-> NewIPv4Header, parser |-> p, result |-> "PacketTooShort"]
        ELSE Then(ParseFields(p, IPv4Layout), LAMBDA got :
            LET h == [got.fields EXCEPT !.fo_val = @ % 32768]
                Result(parser, result) == [header |-> h, parser |-> parser, result |-> result]
            IN  IF size < 4 * hlen(h) THEN Result(got.parser, "PacketTooShort")
                ELSE IF ver(h) # 4 THEN Result(got.parser, "WrongIPVersion")
                ELSE IF hlen(h) < 5 THEN Result(got.parser, "HeaderTooShort")
                ELSE IF size # h.len THEN Result(got.parser, "TruncatedPacket")
                ELSE Result(remove_prefix(got.parser, 4 * hlen(h) - 20),
                            IF checksum(0, SubSeq(p.buffer, 1, 4 * hlen(h))) # 0
                            THEN "BadChecksum" ELSE "NoError"))

IPv4Header_serialize(h) == Padded(UnparseFields(h, IPv4Layout), 4 * hlen(h))

\* The result of the header is not looked at: what counts is that the payload
\* has the length the header says, and the parser's own error.
IPv4Datagram_parse(buffer) ==
    Then(IPv4Header_parse(NewParser(buffer)), LAMBDA got :
        [result |-> IF Len(got.parser.buffer) # payload_length(got.header)
                    THEN "PacketTooShort" ELSE got.parser.error,
         dgram |-> [header |-> got.header, payload |-> got.parser.buffer]])

IPv4Datagram_serialize(dgram) ==
    LET zero == [dgram.header EXCEPT !.cksum = 0]
    IN  IPv4Header_serialize([zero EXCEPT !.cksum = checksum(0, IPv4Header_serialize(zero))])
            \o dgram.payload

-----------------------------------------------------------------------------
EthernetLayout == <<<<"dst", 6>>, <<"src", 6>>, <<"type", 2>>>>
TYPE_IPv4 == 2048
TYPE_ARP == 2054

NewEthernetHeader == [dst |-> <<0, 0, 0>>, src |-> <<0, 0, 0>>, type |-> 0]

\* A frame that is too short keeps its header unset, and that is no error.
EthernetFrame_parse(buffer) ==
    IF Len(buffer) < 14
    THEN [result |-> "NoError", header |-> NewEthernetHeader, payload |-> buffer]
    ELSE Then(ParseFields(NewParser(buffer), EthernetLayout), LAMBDA got :
            [result |-> got.parser.error, header |-> got.fields, payload |-> got.parser.buffer])

EthernetFrame_serialize(header, payload) == UnparseFields(header, EthernetLayout) \o payload

ARPLayout == <<<<"hardware_type", 2>>, <<"protocol_type", 2>>, <<"hardware_address_size", 1>>,
               <<"protocol_address_size", 1>>, <<"opcode", 2>>,
               <<"sender_ethernet", 6>>, <<"sender_ip", 4>>,
               <<"target_ethernet", 6>>, <<"target_ip", 4>>>>
OPCODE_REQUEST == 1
OPCODE_REPLY == 2

supported(arp) == /\ arp.hardware_type = 1 /\ arp.protocol_type = TYPE_IPv4
                  /\ arp.hardware_address_size = 6 /\ arp.protocol_address_size = 4
                  /\ arp.opcode \in {OPCODE_REQUEST, OPCODE_REPLY}

ARPMessage_parse(buffer) ==
    IF Len(buffer) < 28 THEN [result |-> "PacketTooShort"]
    ELSE Then(ParseFields(NewParser(buffer), ARPLayout), LAMBDA got :
            IF ~supported(got.fields) THEN [result |-> "Unsupported"]
            ELSE [result |-> got.parser.error, message |-> got.fields])

ARPMessage_serialize(arp) == UnparseFields(arp, ARPLayout)
=============================================================================
