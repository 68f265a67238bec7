----------------------------- MODULE ParserProofs -----------------------------
(***************************************************************************)
(* Theorems about Parser, for every frame: any captured length and any     *)
(* values of the fields.                                                   *)
(***************************************************************************)
EXTENDS Parser, TLAPS

ReadType == [layer : {"link", "network", "transport"}, from : Nat, to : Nat]

ParserTypeOK ==
    /\ frame \in FrameType
    /\ pc \in {"enter", "ethernet", "network", "lengths", "transport",
               "tcp", "udp", "icmp", "left"}
    /\ reads \subseteq ReadType
    /\ info \in InfoType

\* What has been tested when the parser arrives at a header.
Tested ==
    /\ pc \notin {"enter", "left"} => ~frame.null
    /\ pc \in {"network", "lengths", "transport", "tcp", "udp", "icmp"} =>
          frame.ip /\ HasBytes(frame.len, 0, EthernetHeader)
    /\ pc \in {"lengths", "transport", "tcp", "udp", "icmp"} =>
          HasBytes(frame.len, EthernetHeader, IpHeader)
    /\ pc \in {"transport", "tcp", "udp", "icmp"} =>
          LengthsGood(frame) /\ frame.proto \in Protocols /\ info.protocol = frame.proto
    /\ pc = "tcp"  => frame.proto = "TCP"
                      /\ HasBytes(TransportEnd(frame), Transport(frame), TcpHeader)
    /\ pc = "udp"  => frame.proto = "UDP"
                      /\ HasBytes(TransportEnd(frame), Transport(frame), UdpHeader)
    /\ pc = "icmp" => frame.proto = "ICMP"
                      /\ HasBytes(TransportEnd(frame), Transport(frame), IcmpHeader)

\* info is blank, has the length of the frame, or has all lengths.
Filled ==
    /\ info.valid => pc = "left"
    /\ pc = "enter" => info = Blank
    /\ pc # "enter" => info.frameLen = Clamped(frame.len)
    /\ pc \in {"ethernet", "network", "lengths"} => info.headerLen = 0 /\ info.ipLen = 0

IInv ==
    /\ ParserTypeOK /\ Tested /\ Filled
    /\ ReadsWithinFrame /\ ReadsWithinDatagram /\ ValidMeansWellFormed /\ LengthsFit

LEMMA MaxU16Nat == MaxU16 \in Nat
BY DEF MaxU16

\* The fields of the frame are numbers.
LEMMA FrameNumbers ==
    ASSUME frame \in FrameType
    PROVE  /\ frame.len \in Nat /\ frame.total \in 0..MaxU16 /\ frame.ihl \in 0..15
           /\ frame.doff \in 0..15 /\ frame.udpLen \in 0..MaxU16
           /\ frame.null \in BOOLEAN /\ frame.ip \in BOOLEAN /\ frame.v4 \in BOOLEAN
           /\ frame.proto \in Protocols \cup {"other"}
BY DEF FrameType

LEMMA InitGood == ParserInit => IInv
<1> SUFFICES ASSUME ParserInit PROVE IInv
  OBVIOUS
<1>1. frame \in FrameType /\ frame.len \in Nat
  BY FrameAssumption DEF ParserInit, FrameType
<1>2. Blank \in InfoType
  BY MaxU16Nat DEF Blank, InfoType
<1>3. ParserTypeOK /\ Tested /\ Filled
  BY <1>1, <1>2 DEF ParserInit, ParserTypeOK, Tested, Filled, Blank
<1>4. ReadsWithinFrame /\ ReadsWithinDatagram /\ ValidMeansWellFormed /\ LengthsFit
  BY <1>1 DEF ParserInit, ReadsWithinFrame, ReadsWithinDatagram, ValidMeansWellFormed,
              LengthsFit, Blank
<1> QED BY <1>3, <1>4 DEF IInv

\* An early return reads nothing and keeps info: it remains to show that the
\* frame at hand is not well-formed.
LEMMA RefuseGood ==
    ASSUME IInv, Refuse, UNCHANGED info, ~WellFormed(frame), pc \notin {"enter", "left"}
    PROVE  IInv'
<1>1. ParserTypeOK' /\ Tested' /\ Filled'
  BY DEF IInv, Refuse, ParserTypeOK, Tested, Filled
<1>2. ReadsWithinFrame' /\ ReadsWithinDatagram' /\ LengthsFit'
  BY DEF IInv, Refuse, ReadsWithinFrame, ReadsWithinDatagram, LengthsFit
<1>3. ~info.valid
  BY DEF IInv, Filled
<1>4. WellFormed(frame)' <=> WellFormed(frame)
  BY DEF Refuse, WellFormed
<1>5. ValidMeansWellFormed'
  BY <1>3, <1>4 DEF Refuse, ValidMeansWellFormed
<1> QED BY <1>1, <1>2, <1>5 DEF IInv

-----------------------------------------------------------------------------
(* The early returns.                                                      *)

LEMMA ShortEthernetGood == IInv /\ ShortEthernet => IInv'
<1> SUFFICES ASSUME IInv, ShortEthernet PROVE IInv'
  OBVIOUS
<1>1. frame \in FrameType
  BY DEF IInv, ParserTypeOK
<1>2. ~WellFormed(frame)
  BY <1>1, FrameNumbers
     DEF ShortEthernet, HasBytes, WellFormed, EthernetHeader
<1> QED BY <1>2, RefuseGood DEF ShortEthernet, Refuse

LEMMA ShortIpGood == IInv /\ ShortIp => IInv'
<1> SUFFICES ASSUME IInv, ShortIp PROVE IInv'
  OBVIOUS
<1>1. frame \in FrameType
  BY DEF IInv, ParserTypeOK
<1>2. ~WellFormed(frame)
  BY <1>1, FrameNumbers
     DEF ShortIp, HasBytes, WellFormed, EthernetHeader, IpHeader
<1> QED BY <1>2, RefuseGood DEF ShortIp, Refuse

LEMMA BadLengthsGood == IInv /\ BadLengths => IInv'
<1> SUFFICES ASSUME IInv, BadLengths PROVE IInv'
  OBVIOUS
<1>1. frame \in FrameType
  BY DEF IInv, ParserTypeOK
<1>2. ~WellFormed(frame)
  BY <1>1, FrameNumbers
     DEF BadLengths, LengthsGood, HasBytes, WellFormed, EthernetHeader, HeaderLen, IpHeader
<1> QED BY <1>2, RefuseGood DEF BadLengths, Refuse

LEMMA ShortTransportGood == IInv /\ ShortTransport => IInv'
<1> SUFFICES ASSUME IInv, ShortTransport PROVE IInv'
  OBVIOUS
<1>1. frame \in FrameType /\ LengthsGood(frame) /\ frame.proto \in Protocols
  BY DEF IInv, ParserTypeOK, Tested, ShortTransport
<1>2. ~WellFormed(frame)
  BY <1>1, FrameNumbers
     DEF ShortTransport, HasBytes, WellFormed, EthernetHeader, HeaderLen, Transport,
         TransportEnd, Shortest, TcpHeader, UdpHeader, IcmpHeader, Protocols, LengthsGood
<1> QED BY <1>2, RefuseGood DEF ShortTransport, Refuse

LEMMA BadTransportGood == IInv /\ BadTransportLength => IInv'
<1> SUFFICES ASSUME IInv, BadTransportLength PROVE IInv'
  OBVIOUS
<1>1. frame \in FrameType /\ LengthsGood(frame)
  BY DEF IInv, ParserTypeOK, Tested, BadTransportLength
<1>2. CASE pc = "tcp" /\ ~TcpLengthGood
  <2>1. frame.proto = "TCP"
    BY <1>2 DEF IInv, Tested
  <2>2. ~WellFormed(frame)
    BY <1>1, <1>2, <2>1, FrameNumbers
       DEF TcpLengthGood, HasBytes, WellFormed, EthernetHeader, HeaderLen, Transport,
           TransportEnd, TcpHeader, LengthsGood
  <2> QED BY <1>2, <2>2, RefuseGood DEF BadTransportLength, Refuse
<1>3. CASE pc = "udp" /\ frame.udpLen < UdpHeader
  <2>1. frame.proto = "UDP"
    BY <1>3 DEF IInv, Tested
  <2>2. ~WellFormed(frame)
    BY <1>1, <1>3, <2>1, FrameNumbers DEF WellFormed, UdpHeader
  <2> QED BY <1>3, <2>2, RefuseGood DEF BadTransportLength, Refuse
<1> QED BY <1>2, <1>3 DEF BadTransportLength

-----------------------------------------------------------------------------
(* The steps that read.                                                    *)

\* What is read must have been captured and must belong to its header.
LEMMA ReadsGood ==
    ASSUME IInv, NEW read \in SUBSET ReadType, NEW next, Look(read, next),
           \A r \in read : r.to <= frame.len,
           \A r \in read : r.layer = "transport" =>
               r.from >= EthernetHeader + 4 * frame.ihl /\ r.to <= EthernetHeader + frame.total
    PROVE  /\ frame' = frame /\ pc' = next /\ reads' \subseteq ReadType
           /\ ReadsWithinFrame' /\ ReadsWithinDatagram'
<1>1. frame' = frame /\ pc' = next /\ reads' = reads \cup read
  BY DEF Look
<1>2. reads' \subseteq ReadType
  BY <1>1 DEF IInv, ParserTypeOK
<1>3. \A r \in reads' : r.to <= frame.len
  BY <1>1 DEF IInv, ReadsWithinFrame
<1>4. \A r \in reads' : r.layer = "transport" =>
          r.from >= EthernetHeader + 4 * frame.ihl /\ r.to <= EthernetHeader + frame.total
  BY <1>1 DEF IInv, ReadsWithinDatagram
<1> QED BY <1>1, <1>2, <1>3, <1>4 DEF ReadsWithinFrame, ReadsWithinDatagram

LEMMA EnterGood == IInv /\ Enter => IInv'
<1> SUFFICES ASSUME IInv, Enter PROVE IInv'
  OBVIOUS
<1>1. /\ frame \in FrameType /\ frame.len \in Nat /\ frame.null \in BOOLEAN
      /\ frame' = frame /\ reads' = reads
  BY FrameNumbers DEF IInv, ParserTypeOK, Enter
<1>2. Clamped(frame.len) \in 0..MaxU16 /\ Clamped(frame.len) <= frame.len
  BY <1>1, MaxU16Nat DEF Clamped
<1>3. /\ info' \in InfoType /\ ~info'.valid /\ info'.frameLen = Clamped(frame.len)
      /\ info'.headerLen = 0 /\ info'.ipLen = 0
  <2>1. info' = [protocol |-> "none", valid |-> FALSE, frameLen |-> Clamped(frame.len),
                 headerLen |-> 0, ipLen |-> 0]
    BY DEF Enter, Blank
  <2> QED BY <1>2, <2>1, MaxU16Nat DEF InfoType
<1>4. ParserTypeOK' /\ Tested' /\ Filled'
  BY <1>1, <1>3 DEF IInv, Enter, ParserTypeOK, Tested, Filled
<1>5. ReadsWithinFrame' /\ ReadsWithinDatagram'
  BY <1>1 DEF IInv, ReadsWithinFrame, ReadsWithinDatagram
<1>6. ValidMeansWellFormed'
  BY <1>1, <1>3 DEF Enter, ValidMeansWellFormed, WellFormed
<1>7. LengthsFit'
  BY <1>1, <1>2, <1>3 DEF LengthsFit
<1> QED BY <1>4, <1>5, <1>6, <1>7 DEF IInv

LEMMA ReadEthernetGood == IInv /\ ReadEthernet => IInv'
<1> SUFFICES ASSUME IInv, ReadEthernet PROVE IInv'
  OBVIOUS
<1> DEFINE next == IF frame.ip THEN "network" ELSE "left"
<1>1. /\ frame \in FrameType /\ info' = info /\ pc = "ethernet"
      /\ Look({Bytes("link", 12, 2)}, next) /\ frame.len >= 14 /\ frame.len \in Nat
  BY FrameNumbers DEF IInv, ParserTypeOK, ReadEthernet, HasBytes, EthernetHeader
<1>2. /\ frame' = frame /\ pc' = next /\ reads' \subseteq ReadType
      /\ ReadsWithinFrame' /\ ReadsWithinDatagram'
  <2>1. /\ Bytes("link", 12, 2) \in ReadType /\ Bytes("link", 12, 2).layer = "link"
        /\ Bytes("link", 12, 2).to = 14
    BY DEF Bytes, ReadType
  <2> QED BY <1>1, <2>1, ReadsGood
<1>3. ParserTypeOK' /\ Tested' /\ Filled'
  BY <1>1, <1>2, FrameNumbers DEF IInv, ReadEthernet, ParserTypeOK, Tested, Filled
<1>4. ValidMeansWellFormed'
  BY <1>1, <1>2 DEF IInv, Filled, ValidMeansWellFormed, WellFormed
<1>5. LengthsFit'
  BY <1>1, <1>2 DEF IInv, LengthsFit
<1> QED BY <1>2, <1>3, <1>4, <1>5 DEF IInv

LEMMA ReadLengthsGood == IInv /\ ReadLengths => IInv'
<1> SUFFICES ASSUME IInv, ReadLengths PROVE IInv'
  OBVIOUS
<1> DEFINE read == {Bytes("network", 14, 1), Bytes("network", 16, 2)}
<1>1. /\ frame \in FrameType /\ info' = info /\ pc = "network"
      /\ Look(read, "lengths") /\ frame.len >= 34 /\ frame.len \in Nat
  BY FrameNumbers DEF IInv, ParserTypeOK, ReadLengths, HasBytes, EthernetHeader, IpHeader
<1>2. /\ frame' = frame /\ pc' = "lengths" /\ reads' \subseteq ReadType
      /\ ReadsWithinFrame' /\ ReadsWithinDatagram'
  <2>1. /\ Bytes("network", 14, 1) \in ReadType /\ Bytes("network", 16, 2) \in ReadType
        /\ Bytes("network", 14, 1).layer = "network" /\ Bytes("network", 14, 1).to = 15
        /\ Bytes("network", 16, 2).layer = "network" /\ Bytes("network", 16, 2).to = 18
    BY DEF Bytes, ReadType
  <2>2. read \in SUBSET ReadType
    BY <2>1
  <2> QED BY <1>1, <2>1, <2>2, ReadsGood
<1>3. ParserTypeOK' /\ Tested' /\ Filled'
  BY <1>1, <1>2 DEF IInv, ReadLengths, ParserTypeOK, Tested, Filled
<1>4. ValidMeansWellFormed' /\ LengthsFit'
  BY <1>1, <1>2 DEF IInv, LengthsFit, ValidMeansWellFormed
<1> QED BY <1>2, <1>3, <1>4 DEF IInv

LEMMA ReadIpGood == IInv /\ ReadIp => IInv'
<1> SUFFICES ASSUME IInv, ReadIp PROVE IInv'
  OBVIOUS
<1> DEFINE read == {Bytes("network", 22, 2), Bytes("network", 26, 8)}
           next == IF frame.proto = "other" THEN "left" ELSE "transport"
<1>1. /\ frame \in FrameType /\ pc = "lengths" /\ LengthsGood(frame)
      /\ Look(read, next) /\ frame.len >= 34 /\ frame.len \in Nat
      /\ info.frameLen = Clamped(frame.len)
  BY FrameNumbers DEF IInv, ParserTypeOK, Tested, Filled, ReadIp, HasBytes, EthernetHeader, IpHeader
<1>2. /\ frame' = frame /\ pc' = next /\ reads' \subseteq ReadType
      /\ ReadsWithinFrame' /\ ReadsWithinDatagram'
  <2>1. /\ Bytes("network", 22, 2) \in ReadType /\ Bytes("network", 26, 8) \in ReadType
        /\ Bytes("network", 22, 2).layer = "network" /\ Bytes("network", 22, 2).to = 24
        /\ Bytes("network", 26, 8).layer = "network" /\ Bytes("network", 26, 8).to = 34
    BY DEF Bytes, ReadType
  <2>2. read \in SUBSET ReadType
    BY <2>1
  <2> QED BY <1>1, <2>1, <2>2, ReadsGood
<1>3. /\ HeaderLen(frame) <= frame.total /\ HeaderLen(frame) \in 0..60
      /\ frame.total \in 0..MaxU16 /\ frame.total + 14 <= frame.len
  BY <1>1, FrameNumbers, MaxU16Nat DEF LengthsGood, HeaderLen, HasBytes, EthernetHeader
<1>4. /\ frame.total <= Clamped(frame.len) /\ Clamped(frame.len) \in 0..MaxU16
      /\ Clamped(frame.len) <= frame.len
  BY <1>1, <1>3, MaxU16Nat DEF Clamped
<1>5. /\ info'.protocol = IF frame.proto = "other" THEN "none" ELSE frame.proto
      /\ ~info'.valid /\ info'.frameLen = Clamped(frame.len)
      /\ info'.headerLen = HeaderLen(frame) /\ info'.ipLen = frame.total
  BY <1>1 DEF ReadIp
<1>6. info' \in InfoType
  <2>1. (IF frame.proto = "other" THEN "none" ELSE frame.proto) \in Protocols \cup {"none"}
    BY <1>1, FrameNumbers
  <2> QED BY <1>1, <1>3, <1>4, <2>1 DEF ReadIp, InfoType
<1>7. ParserTypeOK' /\ Filled'
  BY <1>1, <1>2, <1>5, <1>6 DEF IInv, ParserTypeOK, Filled
<1>8. Tested'
  BY <1>1, <1>2, <1>5, FrameNumbers DEF IInv, Tested, Protocols
<1>9. ValidMeansWellFormed'
  BY <1>1, <1>2, <1>5 DEF ValidMeansWellFormed, WellFormed
<1>10. LengthsFit'
  BY <1>1, <1>2, <1>3, <1>4, <1>5 DEF LengthsFit
<1> QED BY <1>2, <1>7, <1>8, <1>9, <1>10 DEF IInv

\* What LengthsGood says of the numbers, and where the transport header lies.
LEMMA Places ==
    ASSUME frame \in FrameType, LengthsGood(frame)
    PROVE  /\ frame.len \in Nat /\ Transport(frame) \in Nat /\ TransportEnd(frame) \in Nat
           /\ Transport(frame) = EthernetHeader + 4 * frame.ihl
           /\ TransportEnd(frame) = EthernetHeader + frame.total
           /\ TransportEnd(frame) <= frame.len
           /\ frame.ihl >= 5 /\ frame.v4
BY FrameNumbers, MaxU16Nat
   DEF LengthsGood, HasBytes, HeaderLen, Transport, TransportEnd, EthernetHeader, IpHeader

\* A read inside the part of the transport header that was tested.
LEMMA TransportRead ==
    ASSUME frame \in FrameType, LengthsGood(frame),
           NEW needed \in Nat, HasBytes(TransportEnd(frame), Transport(frame), needed),
           NEW at \in Nat, NEW size \in Nat, at + size <= needed
    PROVE  /\ Bytes("transport", Transport(frame) + at, size) \in ReadType
           /\ Bytes("transport", Transport(frame) + at, size).to <= frame.len
           /\ Bytes("transport", Transport(frame) + at, size).from
                 >= EthernetHeader + 4 * frame.ihl
           /\ Bytes("transport", Transport(frame) + at, size).to
                 <= EthernetHeader + frame.total
<1> DEFINE read == Bytes("transport", Transport(frame) + at, size)
<1>1. /\ read.from = Transport(frame) + at /\ read.to = Transport(frame) + at + size
      /\ Transport(frame) \in Nat
  BY Places DEF Bytes
<1>2. read \in ReadType
  BY <1>1 DEF Bytes, ReadType
<1>3. Transport(frame) + at + size <= TransportEnd(frame)
  BY Places DEF HasBytes
<1>4. /\ read.to <= frame.len /\ read.from >= EthernetHeader + 4 * frame.ihl
      /\ read.to <= EthernetHeader + frame.total
  <2> HIDE DEF read
  <2> QED BY <1>1, <1>3, Places
<1> QED BY <1>2, <1>4

LEMMA ReadTransportGood == IInv /\ ReadTransport => IInv'
<1> SUFFICES ASSUME IInv, ReadTransport PROVE IInv'
  OBVIOUS
<1>1. /\ frame \in FrameType /\ LengthsGood(frame) /\ info' = info /\ pc = "transport"
      /\ HasBytes(TransportEnd(frame), Transport(frame), Shortest(frame.proto))
  BY DEF IInv, ParserTypeOK, Tested, ReadTransport
<1>2. ASSUME NEW read \in SUBSET ReadType, NEW next \in {"tcp", "udp", "icmp"},
             Look(read, next), Tested',
             \A r \in read : r.to <= frame.len,
             \A r \in read : r.layer = "transport" =>
                 r.from >= EthernetHeader + 4 * frame.ihl /\ r.to <= EthernetHeader + frame.total
      PROVE  IInv'
  <2>1. /\ frame' = frame /\ pc' = next /\ reads' \subseteq ReadType
        /\ ReadsWithinFrame' /\ ReadsWithinDatagram'
    BY <1>2, ReadsGood
  <2>2. ParserTypeOK' /\ Filled'
    BY <1>1, <2>1 DEF IInv, ParserTypeOK, Filled
  <2>3. ValidMeansWellFormed' /\ LengthsFit'
    BY <1>1, <2>1 DEF IInv, LengthsFit, ValidMeansWellFormed
  <2> QED BY <1>2, <2>1, <2>2, <2>3 DEF IInv
<1>3. CASE frame.proto = "TCP" /\ Look({Bytes("transport", Transport(frame) + 12, 1)}, "tcp")
  <2>1. HasBytes(TransportEnd(frame), Transport(frame), 20) /\ TcpHeader = 20
    BY <1>1, <1>3 DEF Shortest, TcpHeader
  <2> DEFINE read == Bytes("transport", Transport(frame) + 12, 1)
  <2>2. /\ read \in ReadType /\ read.to <= frame.len
        /\ read.from >= EthernetHeader + 4 * frame.ihl /\ read.to <= EthernetHeader + frame.total
    BY <1>1, <2>1, TransportRead
  <2>3. Tested'
    BY <1>1, <1>3, <2>1 DEF IInv, Tested, Look
  <2> HIDE DEF read
  <2>4. {read} \in SUBSET ReadType
    BY <2>2
  <2>5. Look({read}, "tcp")
    BY <1>3 DEF read
  <2> QED BY <1>2, <2>2, <2>3, <2>4, <2>5
<1>4. CASE frame.proto = "UDP" /\ Look({Bytes("transport", Transport(frame) + 4, 2)}, "udp")
  <2>1. HasBytes(TransportEnd(frame), Transport(frame), 8) /\ UdpHeader = 8
    BY <1>1, <1>4 DEF Shortest, UdpHeader
  <2> DEFINE read == Bytes("transport", Transport(frame) + 4, 2)
  <2>2. /\ read \in ReadType /\ read.to <= frame.len
        /\ read.from >= EthernetHeader + 4 * frame.ihl /\ read.to <= EthernetHeader + frame.total
    BY <1>1, <2>1, TransportRead
  <2>3. Tested'
    BY <1>1, <1>4, <2>1 DEF IInv, Tested, Look
  <2> HIDE DEF read
  <2>4. {read} \in SUBSET ReadType
    BY <2>2
  <2>5. Look({read}, "udp")
    BY <1>4 DEF read
  <2> QED BY <1>2, <2>2, <2>3, <2>4, <2>5
<1>5. CASE frame.proto = "ICMP" /\ Look({}, "icmp")
  <2>1. HasBytes(TransportEnd(frame), Transport(frame), IcmpHeader)
    BY <1>1, <1>5 DEF Shortest
  <2>2. Tested'
    BY <1>1, <1>5, <2>1 DEF IInv, Tested, Look
  <2> QED BY <1>2, <1>5, <2>2
<1> QED BY <1>3, <1>4, <1>5 DEF ReadTransport

\* valid = 1 is set for a well-formed frame, after reads that were tested.
LEMMA AcceptGood ==
    ASSUME IInv, NEW read \in SUBSET ReadType, Accept(read),
           pc \in {"tcp", "udp", "icmp"}, WellFormed(frame),
           \A r \in read : r.to <= frame.len,
           \A r \in read : r.layer = "transport" =>
               r.from >= EthernetHeader + 4 * frame.ihl /\ r.to <= EthernetHeader + frame.total
    PROVE  IInv'
<1>1. /\ frame' = frame /\ pc' = "left" /\ reads' \subseteq ReadType
      /\ ReadsWithinFrame' /\ ReadsWithinDatagram'
  BY ReadsGood DEF Accept
<1>2. info \in InfoType /\ frame \in FrameType /\ info.protocol = frame.proto
      /\ info.frameLen = Clamped(frame.len)
  BY DEF IInv, ParserTypeOK, Tested, Filled
<1>3. /\ info' \in InfoType /\ info'.valid /\ info'.protocol = info.protocol
      /\ info'.frameLen = info.frameLen /\ info'.headerLen = info.headerLen
      /\ info'.ipLen = info.ipLen
  BY <1>2 DEF Accept, InfoType
<1>4. ParserTypeOK' /\ Tested' /\ Filled'
  BY <1>1, <1>2, <1>3 DEF ParserTypeOK, Tested, Filled
<1>5. ValidMeansWellFormed'
  BY <1>1, <1>2, <1>3 DEF ValidMeansWellFormed, WellFormed
<1>6. LengthsFit'
  BY <1>1, <1>3 DEF IInv, LengthsFit
<1> QED BY <1>1, <1>4, <1>5, <1>6 DEF IInv

LEMMA AcceptTcpGood == IInv /\ AcceptTcp => IInv'
<1> SUFFICES ASSUME IInv, AcceptTcp PROVE IInv'
  OBVIOUS
<1>1. /\ frame \in FrameType /\ LengthsGood(frame) /\ pc = "tcp" /\ frame.proto = "TCP"
      /\ HasBytes(TransportEnd(frame), Transport(frame), 20)
      /\ TcpLengthGood /\ ~frame.null /\ frame.ip
  BY DEF IInv, ParserTypeOK, Tested, AcceptTcp, TcpHeader
<1> DEFINE first  == Bytes("transport", Transport(frame) + 0, 4)
           second == Bytes("transport", Transport(frame) + 13, 1)
<1>2. /\ first \in ReadType /\ first.to <= frame.len
      /\ first.from >= EthernetHeader + 4 * frame.ihl /\ first.to <= EthernetHeader + frame.total
  BY <1>1, TransportRead
<1>3. /\ second \in ReadType /\ second.to <= frame.len
      /\ second.from >= EthernetHeader + 4 * frame.ihl /\ second.to <= EthernetHeader + frame.total
  BY <1>1, TransportRead
<1>4. Accept({first, second})
  <2>1. Transport(frame) + 0 = Transport(frame)
    BY <1>1, Places
  <2> QED BY <2>1 DEF AcceptTcp
<1>5. WellFormed(frame)
  BY <1>1, Places, FrameNumbers DEF WellFormed, TcpLengthGood, HasBytes, TcpHeader
<1> HIDE DEF first, second
<1>6. {first, second} \in SUBSET ReadType
  BY <1>2, <1>3
<1> QED BY <1>1, <1>2, <1>3, <1>4, <1>5, <1>6, AcceptGood

LEMMA AcceptUdpGood == IInv /\ AcceptUdp => IInv'
<1> SUFFICES ASSUME IInv, AcceptUdp PROVE IInv'
  OBVIOUS
<1>1. /\ frame \in FrameType /\ LengthsGood(frame) /\ pc = "udp" /\ frame.proto = "UDP"
      /\ HasBytes(TransportEnd(frame), Transport(frame), 8)
      /\ frame.udpLen >= 8 /\ ~frame.null /\ frame.ip
  BY DEF IInv, ParserTypeOK, Tested, AcceptUdp, UdpHeader
<1> DEFINE first == Bytes("transport", Transport(frame) + 0, 4)
<1>2. /\ first \in ReadType /\ first.to <= frame.len
      /\ first.from >= EthernetHeader + 4 * frame.ihl /\ first.to <= EthernetHeader + frame.total
  BY <1>1, TransportRead
<1>3. Accept({first})
  <2>1. Transport(frame) + 0 = Transport(frame)
    BY <1>1, Places
  <2> QED BY <2>1 DEF AcceptUdp
<1>4. WellFormed(frame)
  BY <1>1, Places, FrameNumbers DEF WellFormed, HasBytes
<1> HIDE DEF first
<1>5. {first} \in SUBSET ReadType
  BY <1>2
<1> QED BY <1>1, <1>2, <1>3, <1>4, <1>5, AcceptGood

LEMMA AcceptIcmpGood == IInv /\ AcceptIcmp => IInv'
<1> SUFFICES ASSUME IInv, AcceptIcmp PROVE IInv'
  OBVIOUS
<1>1. /\ frame \in FrameType /\ LengthsGood(frame) /\ pc = "icmp" /\ frame.proto = "ICMP"
      /\ HasBytes(TransportEnd(frame), Transport(frame), 8)
      /\ ~frame.null /\ frame.ip
  BY DEF IInv, ParserTypeOK, Tested, AcceptIcmp, IcmpHeader
<1> DEFINE first == Bytes("transport", Transport(frame) + 0, 2)
<1>2. /\ first \in ReadType /\ first.to <= frame.len
      /\ first.from >= EthernetHeader + 4 * frame.ihl /\ first.to <= EthernetHeader + frame.total
  BY <1>1, TransportRead
<1>3. Accept({first})
  <2>1. Transport(frame) + 0 = Transport(frame)
    BY <1>1, Places
  <2> QED BY <2>1 DEF AcceptIcmp
<1>4. WellFormed(frame)
  BY <1>1, Places, FrameNumbers DEF WellFormed, HasBytes
<1> HIDE DEF first
<1>5. {first} \in SUBSET ReadType
  BY <1>2
<1> QED BY <1>1, <1>2, <1>3, <1>4, <1>5, AcceptGood

-----------------------------------------------------------------------------
\* The strengthened invariant is inductive: a field is read only behind the
\* test of its place.
THEOREM ParserInvariant == ParserSpec => []IInv
<1>1. IInv /\ UNCHANGED parserVars => IInv'
  BY DEF IInv, parserVars, ParserTypeOK, Tested, Filled, ReadsWithinFrame,
         ReadsWithinDatagram, ValidMeansWellFormed, LengthsFit
<1>2. IInv /\ [ParserNext]_parserVars => IInv'
  BY <1>1, EnterGood, ShortEthernetGood, ReadEthernetGood, ShortIpGood, ReadLengthsGood,
     BadLengthsGood, ReadIpGood, ShortTransportGood, ReadTransportGood, BadTransportGood,
     AcceptTcpGood, AcceptUdpGood, AcceptIcmpGood
  DEF ParserNext
<1> QED BY InitGood, <1>2, PTL DEF ParserSpec

\* No frame, of any length and with any fields, makes the parser read a byte
\* that was not captured.
THEOREM NoReadBeyondCapture == ParserSpec => []ReadsWithinFrame
<1>1. IInv => ReadsWithinFrame
  BY DEF IInv
<1> QED BY ParserInvariant, <1>1, PTL

\* Transport fields come from inside the datagram, behind its IPv4 header.
THEOREM NoReadOfPadding == ParserSpec => []ReadsWithinDatagram
<1>1. IInv => ReadsWithinDatagram
  BY DEF IInv
<1> QED BY ParserInvariant, <1>1, PTL

\* The parser calls a frame valid exactly when it is a whole datagram with a
\* whole transport header.
THEOREM ValidIsWellFormed == ParserSpec => []ValidMeansWellFormed
<1>1. IInv => ValidMeansWellFormed
  BY DEF IInv
<1> QED BY ParserInvariant, <1>1, PTL

\* Header, datagram and frame length are ordered, in 16 bits and in the frame.
THEOREM LengthsAlwaysFit == ParserSpec => []LengthsFit
<1>1. IInv => LengthsFit
  BY DEF IInv
<1> QED BY ParserInvariant, <1>1, PTL
=============================================================================
