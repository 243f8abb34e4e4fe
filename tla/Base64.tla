------------------------------- MODULE Base64 -------------------------------
(***************************************************************************)
(* The two base64 coders of the repository: the one of                     *)
(* src/conversation/volc/ai_volc_conversation.c, which the audio of a      *)
(* conversation goes through both ways, and the one of utils/base64.c,     *)
(* which nothing calls yet and which is here as the reference decoder.     *)
(*                                                                         *)
(* A letter is its place in the encoding table, which the decoding table   *)
(* inverts; Pad is '='.  A text is taken without blanks, whole groups of   *)
(* four letters, and a decoder is described group by group.                *)
(***************************************************************************)
EXTENDS Integers, Sequences

Byte == 0 .. 255
Sextet == 0 .. 63
Pad == 64
Letter == Sextet \cup {Pad}

\* Where the data ends, zeros are read.
Octet(data, i) == IF i <= Len(data) THEN data[i] ELSE 0

\* The three bytes of group g (from 0) as one number of 24 bits.
Triple(data, g) ==
  Octet(data, 3 * g + 1) * 65536 + Octet(data, 3 * g + 2) * 256 + Octet(data, 3 * g + 3)

\* Its four letters.
Digits(t) == <<(t \div 262144) % 64, (t \div 4096) % 64, (t \div 64) % 64, t % 64>>

OutputLength(len) == 4 * ((len + 2) \div 3)

\* What is padded at the end of a text (mod_table).
Padding(len) == IF len % 3 = 0 THEN 0 ELSE 3 - (len % 3)

\* base64_encode of the plugin: all the groups, and then the padding over the
\* last letters.
Encode(data) ==
  [j \in 1 .. OutputLength(Len(data)) |->
     IF j > OutputLength(Len(data)) - Padding(Len(data))
     THEN Pad
     ELSE Digits(Triple(data, (j - 1) \div 4))[((j - 1) % 4) + 1]]

\* base64_decode of the plugin, which fills a buffer with zeros.  (The text is not
\* empty: of an empty one the code reads the characters before it.)
DecodedLength(text) ==
  LET ends(c) == IF c = Pad THEN 1 ELSE 0
  IN  (Len(text) \div 4) * 3 - ends(text[Len(text)]) - ends(text[Len(text) - 1])

Decode(text) == [i \in 1 .. DecodedLength(text) |-> 0]

\* base64_encode of utils/base64.c: i is what it has read after group g, and
\* decides whether the third and the fourth letter are padding.
UtilsEncode(data) ==
  LET i(g) == IF 3 * g + 3 <= Len(data) THEN 3 * g + 3 ELSE Len(data)
      padded(g, k) == (k = 3 /\ ~(i(g) > Len(data) + 1)) \/ (k = 4 /\ ~(i(g) > Len(data)))
  IN  [j \in 1 .. OutputLength(Len(data)) |->
         IF padded((j - 1) \div 4, ((j - 1) % 4) + 1)
         THEN Pad
         ELSE Digits(Triple(data, (j - 1) \div 4))[((j - 1) % 4) + 1]]

\* The round of base64_decode of utils/base64.c for the letters of a group: as
\* many bytes as there are letters that are no padding, less one.
UtilsDecodeGroup(q) ==
  LET value(c) == IF c = Pad THEN 0 ELSE c
      counts(c) == IF c = Pad THEN 0 ELSE 1
      triple == value(q[1]) * 262144 + value(q[2]) * 4096 + value(q[3]) * 64 + value(q[4])
      valid_count == counts(q[1]) + counts(q[2]) + counts(q[3]) + counts(q[4])
  IN  CASE valid_count < 2 -> << >>
        [] valid_count = 2 -> <<triple \div 65536>>
        [] valid_count = 3 -> <<triple \div 65536, (triple \div 256) % 256>>
        [] OTHER -> <<triple \div 65536, (triple \div 256) % 256, triple % 256>>

\* The letters of group g of a text, and the bytes of group g of the data.
Group(text, g) == <<text[4 * g + 1], text[4 * g + 2], text[4 * g + 3], text[4 * g + 4]>>

BytesOf(data, g) ==
  CASE 3 * g + 1 = Len(data) -> <<data[3 * g + 1]>>
    [] 3 * g + 2 = Len(data) -> <<data[3 * g + 1], data[3 * g + 2]>>
    [] OTHER -> <<data[3 * g + 1], data[3 * g + 2], data[3 * g + 3]>>

\* The groups of data of a given length.
Groups(len) == 0 .. (len + 2) \div 3 - 1
=============================================================================
