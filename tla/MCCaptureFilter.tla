--------------------------- MODULE MCCaptureFilter ---------------------------
(* Every packet over three hosts, two ports and two protocols, with and      *)
(* without options, padding and data, and frames too short for their headers.*)
EXTENDS CaptureFilter

TwoProtocols == {6, 17}

MCShapes ==
  {s \in [version : {4, 6}, cap : {19, 40, 46, 60}, ihl : {16, 20, 24},
          total_len : {0, 19, 40, 41, 52, 60}, data_off : {20, 32}] : s.total_len <= s.cap}

ShortAndLong == {11, 219, 220}

\* A ClientHello of zeros, of ones, and one of each in turn: it has an odd length.
MCFills == {<<0, 0>>, <<255, 255>>, <<0, 255>>, <<255, 0>>}

\* The sums that carry never, once and twice.
MCBases == {0, 1, 255, 65535, 65536, 131070, 16 * 65536 - 1}
===============================================================================
