----------------------------- MODULE Checksums -----------------------------
(***************************************************************************)
(* The checksums of tcp_socket.c and the fields read from a header:        *)
(* get_ipv4_checksumm, get_tcp_checksumm, get_seq_num, get_payload_len.    *)
(* Memory is a sequence of bytes; len is how many of them are meant.       *)
(***************************************************************************)
EXTENDS Integers, Sequences

Word16 == 65536

(* The loops of the code.  With an odd length, the last round takes the    *)
(* byte behind the data as well.                                           *)
SumOfWords(data, len) ==
  LET sum[n \in 0 .. (len + 1) \div 2] ==
        IF n = 0 THEN 0 ELSE sum[n - 1] + 256 * data[2 * n - 1] + data[2 * n]
  IN sum[(len + 1) \div 2]

Folded[sum \in Nat] ==
  IF sum < Word16 THEN sum ELSE Folded[(sum % Word16) + (sum \div Word16)]

(* ~sum, with the two bytes exchanged for the processor's byte order.      *)
Complement(sum) == Word16 - 1 - Folded[sum]
Exchanged(w) == (w \div 256) + 256 * (w % 256)

get_ipv4_checksumm(data, len) == Exchanged(Complement(SumOfWords(data, len)))

get_tcp_checksumm(source_ip, dest_ip, tcp_data, len) ==
  Exchanged(Complement(SumOfWords(source_ip, 4) + SumOfWords(dest_ip, 4)
                       + 6 + len + SumOfWords(tcp_data, len)))

(* The structures of tcp_socket.h keep a short with its low byte first.    *)
Stored(short) == <<short % 256, short \div 256>>

(* tcp_send puts a checksum where a zero was: place is its first byte.     *)
WithChecksum(data, place, sum) ==
  [data EXCEPT ![place] = Stored(sum)[1], ![place + 1] = Stored(sum)[2]]

(* Big-endian fields.  A sequence number is four bytes: here two halves,   *)
(* to stay within the numbers that can be checked.                         *)
get_seq_num(b) == [high |-> 256 * b[1] + b[2], low |-> 256 * b[3] + b[4]]
get_payload_len(total_len, header_len, ver_ihl) ==
  total_len[2] + 256 * total_len[1] - (header_len \div 16) * 4 - (ver_ihl % 16) * 4

-----------------------------------------------------------------------------
(* What a receiver finds that adds up all the words it gets.               *)
Verifies(sum) == Folded[sum] = Word16 - 1

(* A header with its checksum verifies.                                    *)
HeaderVerifies(data, place, len) ==
  Verifies(SumOfWords(WithChecksum(data, place, get_ipv4_checksumm(data, len)), len))

(* A segment with its pseudo header; a receiver takes the byte behind a    *)
(* segment of odd length for zero, whatever was there when it was sent.    *)
SegmentVerifies(source_ip, dest_ip, data, place, len) ==
  LET sum == get_tcp_checksumm(source_ip, dest_ip, data, len)
      sent == WithChecksum(data, place, sum)
      received == IF len % 2 = 0 THEN sent ELSE [sent EXCEPT ![len + 1] = 0]
  IN Verifies(SumOfWords(source_ip, 4) + SumOfWords(dest_ip, 4) + 6 + len
              + SumOfWords(received, len))

SomeBytes == {0, 1, 127, 255}
SomeData == SomeBytes \X SomeBytes \X SomeBytes \X SomeBytes
SomeIps == {<<169, 254, 229, 14>>, <<255, 255, 255, 255>>, <<0, 0, 0, 0>>}

ASSUME Ipv4ChecksumVerifies ==
  \A d \in SomeData : /\ HeaderVerifies(<<0, 0>> \o d, 1, 6)
                       /\ HeaderVerifies(<<d[1], d[2], 0, 0, d[3], d[4]>>, 3, 6)

(* A segment does if its length is even or the byte behind it is zero: the *)
(* page is of odd length, and nothing is ever written behind it in         *)
(* tx_frame.  With any other byte there, it does not.                      *)
ASSUME TcpChecksumVerifies ==
  \A d \in SomeData, ip \in SomeIps, len \in 5 .. 6 :
    SegmentVerifies(ip, ip, <<0, 0>> \o d, 1, len) <=> len = 6 \/ d[4] = 0

ASSUME PayloadLength ==
  /\ get_payload_len(<<0, 52>>, \h80, \h45) = 0
  /\ get_payload_len(<<2, 0>>, \h50, \h45) = 472
=============================================================================
