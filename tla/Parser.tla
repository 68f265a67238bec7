-------------------------------- MODULE Parser --------------------------------
(***************************************************************************)
(* parse_packet_with_timestamp: one frame, header by header, in the order  *)
(* in which parser.c tests a length and then reads what it tested.  A      *)
(* frame is its captured length and the fields the parser looks at, which  *)
(* may hold anything: nothing relates the lengths a frame states to the    *)
(* bytes that were captured.  Every read is recorded with its place.       *)
(***************************************************************************)
EXTENDS Naturals

CONSTANT Frames      \* the frames that may be captured

Protocols == {"TCP", "UDP", "ICMP"}

MaxU16 == 65535      \* UINT16_MAX

FrameType ==
    [null : BOOLEAN,                      \* packet is NULL
     len : Nat,                           \* packet_len, the captured length
     ip : BOOLEAN,                        \* EtherType is ETH_P_IP
     v4 : BOOLEAN,                        \* the version field is 4
     ihl : 0..15,                         \* IPv4 header length in words
     total : 0..MaxU16,                    \* IPv4 total length
     proto : Protocols \cup {"other"},    \* IPv4 protocol
     doff : 0..15,                        \* TCP header length in words
     udpLen : 0..MaxU16]                   \* UDP length

ASSUME FrameAssumption == Frames \subseteq FrameType

EthernetHeader == 14
IpHeader       == 20
TcpHeader      == 20
UdpHeader      == 8
IcmpHeader     == 8

VARIABLES
    frame,       \* the frame at hand
    pc,          \* the header the parser is about to test
    reads,       \* every read so far: its header, its first byte, the byte behind it
    info         \* the PacketInfo that will be returned

parserVars == <<frame, pc, reads, info>>

InfoType ==
    [protocol : Protocols \cup {"none"}, valid : BOOLEAN,
     frameLen : 0..MaxU16, headerLen : 0..60, ipLen : 0..MaxU16]

Blank == [protocol |-> "none", valid |-> FALSE, frameLen |-> 0, headerLen |-> 0, ipLen |-> 0]

Bytes(layer, first, size) == [layer |-> layer, from |-> first, to |-> first + size]

-----------------------------------------------------------------------------
\* Mutant of HasBytes: off by one at the end of the buffer.
HasBytesOrOneLess(end, offset, needed) == offset <= end /\ needed <= end - offset + 1

\* has_bytes
HasBytes(end, offset, needed) == offset <= end /\ needed <= end - offset

\* Mutant of Clamped: the length is cast to uint16_t.
Wrapped(len) == len % (MaxU16 + 1)

\* empty_packet_info: frame_len is a uint16_t.
Clamped(len) == IF len > MaxU16 THEN MaxU16 ELSE len

HeaderLen(f) == 4 * f.ihl
Transport(f) == EthernetHeader + HeaderLen(f)

\* Mutant of TransportEnd: the transport headers are looked for in all of the
\* captured frame.
TransportEndOfFrame(f) == f.len

\* ip_end: what lies behind the datagram is padding of the link layer.
TransportEnd(f) == EthernetHeader + f.total

\* Mutant of LengthsGood: a header shorter than 20 bytes is accepted.
LengthsGoodAnyHeader(f) ==
    /\ f.v4
    /\ f.total >= HeaderLen(f)
    /\ HasBytes(f.len, EthernetHeader, f.total)

\* The tests of the version, of both lengths and of the captured bytes.
LengthsGood(f) ==
    /\ f.v4
    /\ HeaderLen(f) >= IpHeader
    /\ f.total >= HeaderLen(f)
    /\ HasBytes(f.len, EthernetHeader, f.total)

\* The shortest header of the protocol, which must lie within the datagram.
Shortest(proto) ==
    CASE proto = "TCP"  -> TcpHeader
      [] proto = "UDP"  -> UdpHeader
      [] proto = "ICMP" -> IcmpHeader

-----------------------------------------------------------------------------
ParserInit ==
    /\ frame \in Frames
    /\ pc = "enter"
    /\ reads = {}
    /\ info = Blank

\* The bytes are read, and the parser goes on to the next test.
Look(read, next) ==
    /\ reads' = reads \cup read
    /\ pc' = next
    /\ UNCHANGED frame

\* An early return: info stays as far as it got, valid = 0.
Refuse == pc' = "left" /\ UNCHANGED <<frame, reads, info>>

Enter ==
    /\ pc = "enter"
    /\ info' = [Blank EXCEPT !.frameLen = Clamped(frame.len)]
    /\ pc' = IF frame.null THEN "left" ELSE "ethernet"
    /\ UNCHANGED <<frame, reads>>

ShortEthernet == pc = "ethernet" /\ ~HasBytes(frame.len, 0, EthernetHeader) /\ Refuse

ReadEthernet ==
    /\ pc = "ethernet" /\ HasBytes(frame.len, 0, EthernetHeader)
    /\ Look({Bytes("link", 12, 2)}, IF frame.ip THEN "network" ELSE "left")
    /\ UNCHANGED info

ShortIp ==
    pc = "network" /\ ~HasBytes(frame.len, EthernetHeader, IpHeader) /\ Refuse

\* Version and header length, and the total length.
ReadLengths ==
    /\ pc = "network" /\ HasBytes(frame.len, EthernetHeader, IpHeader)
    /\ Look({Bytes("network", 14, 1), Bytes("network", 16, 2)}, "lengths")
    /\ UNCHANGED info

BadLengths == pc = "lengths" /\ ~LengthsGood(frame) /\ Refuse

\* Time to live, protocol and addresses.  The protocol is set before its
\* header is looked at.
ReadIp ==
    /\ pc = "lengths" /\ LengthsGood(frame)
    /\ info' = [protocol |-> IF frame.proto = "other" THEN "none" ELSE frame.proto,
                valid |-> FALSE, frameLen |-> info.frameLen,
                headerLen |-> HeaderLen(frame), ipLen |-> frame.total]
    /\ Look({Bytes("network", 22, 2), Bytes("network", 26, 8)},
            IF frame.proto = "other" THEN "left" ELSE "transport")

ShortTransport ==
    /\ pc = "transport"
    /\ ~HasBytes(TransportEnd(frame), Transport(frame), Shortest(frame.proto))
    /\ Refuse

\* parse_tcp reads its header's length, parse_udp the length of the datagram.
ReadTransport ==
    /\ pc = "transport"
    /\ HasBytes(TransportEnd(frame), Transport(frame), Shortest(frame.proto))
    /\ \/ /\ frame.proto = "TCP"
          /\ Look({Bytes("transport", Transport(frame) + 12, 1)}, "tcp")
       \/ /\ frame.proto = "UDP"
          /\ Look({Bytes("transport", Transport(frame) + 4, 2)}, "udp")
       \/ frame.proto = "ICMP" /\ Look({}, "icmp")
    /\ UNCHANGED info

TcpLengthGood ==
    /\ 4 * frame.doff >= TcpHeader
    /\ HasBytes(TransportEnd(frame), Transport(frame), 4 * frame.doff)

BadTransportLength ==
    /\ \/ pc = "tcp" /\ ~TcpLengthGood
       \/ pc = "udp" /\ frame.udpLen < UdpHeader
    /\ Refuse

\* Ports and flags, ports, or type and code.
Accept(read) ==
    /\ info' = [info EXCEPT !.valid = TRUE]
    /\ Look(read, "left")

AcceptTcp ==
    /\ pc = "tcp" /\ TcpLengthGood
    /\ Accept({Bytes("transport", Transport(frame), 4),
               Bytes("transport", Transport(frame) + 13, 1)})

AcceptUdp ==
    /\ pc = "udp" /\ frame.udpLen >= UdpHeader
    /\ Accept({Bytes("transport", Transport(frame), 4)})

AcceptIcmp ==
    /\ pc = "icmp"
    /\ Accept({Bytes("transport", Transport(frame), 2)})

ParserNext ==
    \/ Enter \/ ShortEthernet \/ ReadEthernet
    \/ ShortIp \/ ReadLengths \/ BadLengths \/ ReadIp
    \/ ShortTransport \/ ReadTransport \/ BadTransportLength
    \/ AcceptTcp \/ AcceptUdp \/ AcceptIcmp

ParserSpec == ParserInit /\ [][ParserNext]_parserVars

-----------------------------------------------------------------------------
\* "Bounds checking matters because captured frames can be malformed or
\* truncated" (parser.c:69): no byte is read that was not captured, whatever
\* lengths the frame states.
ReadsWithinFrame == \A r \in reads : r.to <= frame.len

\* A field is taken from the header it belongs to: transport fields lie behind
\* the IPv4 header and inside the datagram, never in its options nor in the
\* padding a short frame has behind the datagram.
ReadsWithinDatagram ==
    \A r \in reads : r.layer = "transport" =>
        /\ r.from >= EthernetHeader + 4 * frame.ihl
        /\ r.to <= EthernetHeader + frame.total

\* What "valid" promises the rest of the program: an IPv4 datagram that was
\* captured whole, with the whole transport header inside it.
WellFormed(f) ==
    LET transport == EthernetHeader + 4 * f.ihl
        datagram  == EthernetHeader + f.total
    IN  /\ ~f.null /\ f.ip /\ f.v4 /\ f.ihl >= 5
        /\ datagram <= f.len
        /\ \/ f.proto = "TCP" /\ f.doff >= 5 /\ transport + 4 * f.doff <= datagram
           \/ f.proto = "UDP" /\ f.udpLen >= 8 /\ transport + 8 <= datagram
           \/ f.proto = "ICMP" /\ transport + 8 <= datagram

\* parse_packet refuses exactly the frames that break the promise: the chain
\* of early returns neither lets one of them pass nor loses a good one.
ValidMeansWellFormed ==
    pc = "left" => /\ info.valid <=> WellFormed(frame)
                   /\ info.valid => info.protocol = frame.proto

\* The lengths that are printed and logged fit together, also for frames that
\* are longer than frame_len can tell.
LengthsFit ==
    info.headerLen <= info.ipLen /\ info.ipLen <= info.frameLen /\ info.frameLen <= frame.len
=============================================================================
