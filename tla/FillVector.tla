------------------------------ MODULE FillVector ------------------------------
(***************************************************************************)
(* fillVector() of mp2/src/sender_main.cpp and packet::populate() of       *)
(* mp2/src/shared.hpp: the file is cut into the packets of the transfer.   *)
(*                                                                         *)
(* The vector built here is the one that Sender transmits: N is its        *)
(* length, and DataPackets the positions whose packet has the DATA bit.    *)
(***************************************************************************)
EXTENDS Integers, Sequences

CONSTANTS
  PacketSize,   \* MAX_PACKET_SIZE
  MaxFile,      \* bound: the largest file considered, in bytes
  MaxRequest    \* bound: the largest bytesToTransfer considered

ASSUME PacketSizeAssumption == PacketSize \in Nat \ {0}
ASSUME BoundsAssumption == MaxFile \in Nat /\ MaxRequest \in Nat

VARIABLES
  fileSize,      \* the bytes in the file
  request,       \* bytesToTransfer, from the command line
  bytesToSend,   \* what fillVector() still has to pack
  unread,        \* the bytes of the file behind the read position
  eof,           \* the end-of-file indicator of the FILE
  packets,       \* the vector
  fpc            \* "fill" in the loop, "done" after it

fillVars == <<fileSize, request, bytesToSend, unread, eof, packets, fpc>>

Lesser(a, b) == IF a <= b THEN a ELSE b

FillInit ==
  /\ fileSize \in 0 .. MaxFile
  /\ request \in 0 .. MaxRequest
  /\ bytesToSend = request
  /\ unread = fileSize
  /\ eof = FALSE
  /\ packets = <<>>
  /\ fpc = "fill"

\* The value of feof() at the end of a file: nonzero, 1 in the C libraries of
\* Linux and macOS.
FeofValue == 1

\* The size that fillVector() asks populate() for, and what fread() finds.
Wanted == Lesser(bytesToSend, PacketSize)
Found == Lesser(Wanted, unread)

\* fread() sets the end-of-file indicator when it finds less than it was asked
\* for: a read that empties the file exactly leaves it clear.
EndsFile == Found < Wanted

\* Mutant of DataSize: a packet counts for what was asked, not read.
DataSizeWanted == Wanted

DataSize == Found

\* populate() reads data.
ReadPacket ==
  /\ fpc = "fill" /\ bytesToSend > 0
  /\ ~eof
  /\ Found > 0
  /\ eof' = EndsFile
  /\ unread' = unread - Found
  /\ bytesToSend' = bytesToSend - DataSize
  /\ packets' = Append(packets, [type |-> {"DATA"}, data_sz |-> DataSize])
  /\ UNCHANGED <<fileSize, request, fpc>>

\* The file ends at a packet boundary: fread() finds nothing, and the loop
\* breaks without the packet.
ReadNothing ==
  /\ fpc = "fill" /\ bytesToSend > 0
  /\ ~eof
  /\ Found = 0
  /\ eof' = TRUE
  /\ fpc' = "done"
  /\ UNCHANGED <<fileSize, request, bytesToSend, unread, packets>>

\* Mutant of NoType: the type is set before feof() is looked at.
NoTypeData == {"DATA"}

NoType == {}

\* After the end of the file populate() returns feof(), a positive number, and
\* leaves the packet as the constructor made it: no type and no data.
EmptyPacket ==
  /\ fpc = "fill" /\ bytesToSend > 0
  /\ eof
  /\ bytesToSend' = bytesToSend - FeofValue
  /\ packets' = Append(packets, [type |-> NoType, data_sz |-> 0])
  /\ UNCHANGED <<fileSize, request, unread, eof, fpc>>

Filled ==
  /\ fpc = "fill" /\ bytesToSend = 0
  /\ fpc' = "done"
  /\ UNCHANGED <<fileSize, request, bytesToSend, unread, eof, packets>>

FillNext == ReadPacket \/ ReadNothing \/ EmptyPacket \/ Filled

FillSpec == FillInit /\ [][FillNext]_fillVars

------------------------------------------------------------------------------

\* The sum of the sizes.
BytesIn(seq) ==
  LET sum[k \in 0 .. Len(seq)] == IF k = 0 THEN 0 ELSE sum[k - 1] + seq[k].data_sz
  IN  sum[Len(seq)]

\* The vector carries exactly the bytes that were asked for and that the file
\* has, whichever way the loop ends and whether or not the file ends on a packet
\* boundary.
CarriesTheRequest ==
  fpc = "done" => BytesIn(packets) = Lesser(request, fileSize)

\* The data packets come first and in one piece, and all of them but the last
\* are full: the receiver writes the file by following sequence numbers.
DataComesFirst ==
  \A i \in DOMAIN packets :
    packets[i].type = {"DATA"} =>
      \A j \in 1 .. i-1 : packets[j] = [type |-> {"DATA"}, data_sz |-> PacketSize]

==============================================================================
