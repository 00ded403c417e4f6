-------------------------------- MODULE Codec ---------------------------------
(***************************************************************************)
(* The packet codec, src/utils/rawpacket.py, and the length of the fake    *)
(* ClientHello, src/utils/packet_templates.py: where a captured datagram   *)
(* and its payload end, what to_bytes() writes into the length fields, and *)
(* the checksum.  Lengths are in bytes.                                    *)
(***************************************************************************)
EXTENDS Naturals, Sequences

TCP == 6

\* What is known of a frame: the bytes captured, and the IP version and the lengths that
\* stand in its headers.
Lengths == [version : 0 .. 15, cap : Nat, ihl : Nat, total_len : Nat, data_off : Nat]

(***************************************************************************)
(* IPv4TCPPacket                                                           *)
(***************************************************************************)
\* (A plausible bug: the padding of a short Ethernet frame is taken for data.)
WholeBuffer(s) == s.cap

\* Trailing padding is cut off; a total length of 0 says nothing.
DatagramEnd(s) == IF 0 < s.total_len /\ s.total_len <= s.cap THEN s.total_len ELSE s.cap

\* parse() does not return None.
Parses(proto, s) ==
  /\ s.version = 4
  /\ s.cap >= 20 /\ s.ihl >= 20 /\ s.cap >= s.ihl
  /\ proto = TCP
  /\ DatagramEnd(s) >= s.ihl + 20
  /\ s.data_off >= 20 /\ DatagramEnd(s) - s.ihl >= s.data_off

parse(s) ==
  [ip_options |-> s.ihl - 20, tcp_options |-> s.data_off - 20,
   payload |-> DatagramEnd(s) - s.ihl - s.data_off]

\* (A plausible bug: the options of the captured ACK are left out of the lengths.)
to_bytes_no_options(p) ==
  [version |-> 4, cap |-> 40 + p.ip_options + p.tcp_options + p.payload, ihl |-> 20 + p.ip_options,
   total_len |-> 40 + p.payload, data_off |-> 20]

\* Every length field is computed from the content; packet_len is never stored.
to_bytes(p) ==
  LET data_off_words == (20 + p.tcp_options) \div 4
      ihl_words      == (20 + p.ip_options) \div 4
      tcp_segment    == 20 + p.tcp_options + p.payload
  IN [version |-> 4, cap |-> 20 + p.ip_options + tcp_segment, ihl |-> 4 * ihl_words,
      total_len |-> 4 * ihl_words + tcp_segment, data_off |-> 4 * data_off_words]

(***************************************************************************)
(* _checksum, over 16-bit words                                            *)
(***************************************************************************)
\* The words of data, an odd byte being the upper half of the last one.
Words(data) == (Len(data) + 1) \div 2
Word(data, i) == 256 * data[2 * i - 1] + (IF 2 * i <= Len(data) THEN data[2 * i] ELSE 0)

\* The sum of the words, which the loop adds up one after the other; the halves keep
\* TLC's recursion shallow.  sum[<<k, n>>] is that of the n words after the k-th.
WordSum(data) ==
  LET sum[p \in Nat \X (0 .. Words(data))] ==
        LET k == p[1]  n == p[2]  h == n \div 2
        IN  IF n = 0 THEN 0 ELSE IF n = 1 THEN Word(data, k + 1)
            ELSE sum[<<k, h>>] + sum[<<k + h, n - h>>]
  IN sum[<<0, Words(data)>>]

Fold(total) == (total % 65536) + (total \div 65536)

\* (A plausible bug: the carry of the carry is forgotten.)
_checksum_once(total) == 65535 - (Fold(total) % 65536)

_checksum(total) == 65535 - Fold(Fold(total))

\* RFC 1071: a receiver adds up everything, the checksum included, and carries until
\* nothing is left to carry.
OnesComplement(total) == IF total = 0 THEN 0 ELSE ((total - 1) % 65535) + 1
Verifies(total, checksum) == OnesComplement(total + checksum) = 65535

(***************************************************************************)
(* ClientHelloMaker.get_client_hello_with, for a name of n bytes           *)
(***************************************************************************)
\* struct.pack("!H", 219 - n) raises for a longer name, and handle() exits the process.
MaxName == 219

\* (A plausible bug: the padding does not make up for the name.)
fixed_padding(n) == 11 + 32 + 1 + 32 + 44 + (7 + n) + 135 + 32 + 2 + (2 + MaxName - 6)

\* static1 rnd static2 sess_id static3 server_name static4 key_share static5 padding
get_client_hello_with(n) ==
  11 + 32 + 1 + 32 + 44 + (7 + n) + 135 + 32 + 2 + (2 + MaxName - n)

\* The lengths in the template: of the record, the handshake and the extensions.
RecordLength == 512
HandshakeLength == 508
ExtensionsLength == 399
===============================================================================
