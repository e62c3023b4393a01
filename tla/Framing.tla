------------------------------- MODULE Framing -------------------------------
(***************************************************************************)
(* Messages cut out of a byte stream: what io_stream_send writes and what   *)
(* io_stream_on_recv_read_fn makes of it (src/channel_io_stream.cpp), with   *)
(* the variable-length integers of src/detail/buffer.cpp.                   *)
(*                                                                         *)
(* A message on the stream is a checksum, its length as a vint and its      *)
(* bytes.  Only the digits of the vint matter here: the stream is the       *)
(* sequence of messages, and places in it are counted in bytes.  The bytes   *)
(* arrive in pieces of any size.                                            *)
(***************************************************************************)
EXTENDS Naturals, Sequences, FiniteSetsExt

CONSTANTS
  Crc,        \* bytes of a checksum
  Base,       \* values of a vint's digit: 128
  HeadSize,   \* bytes of read_head.buffer
  MaxBuffer,  \* bytes read_buffers has room for
  Limit,      \* recv_buffer_limit_size
  SendLimit,  \* send_buffer_limit_size of the peer
  Lengths,    \* lengths of messages
  MaxMessages \* bound: messages on the stream

Sizes ==
  /\ {Crc, HeadSize, MaxBuffer, Limit, SendLimit, MaxMessages} \cup Lengths \subseteq Nat
  /\ Base \in Nat \ {0, 1} /\ HeadSize > 0
ASSUME SizeAssumption == Sizes

VARIABLES
  stream,     \* the messages written, [len, good], good if the checksum is
  got,        \* bytes of the stream that have been read
  head,       \* bytes in read_head
  big,        \* read_buffers: the message being read there, or none
  heard,      \* what the user has been called with
  closed      \* the stream has been disconnected

framing == <<stream, got, head, big, heard, closed>>

-----------------------------------------------------------------------------
\* A vint is written with its last digit first, and then turned round; all its
\* digits but the last are marked.
Digits(n) ==
  LET rest[m \in 0 .. n] ==
        IF m = 0 THEN <<>> ELSE Append(rest[m \div Base], [more |-> TRUE, digit |-> m % Base])
  IN Append(rest[n \div Base], [more |-> FALSE, digit |-> n % Base])

\* Mutant of WriteVint: the digits are not turned round.
WriteVintUnturned(n) == LET d == Digits(n) IN [i \in DOMAIN d |-> d[Len(d) + 1 - i]]

WriteVint(n) == Digits(n)

\* Reading stops at the first unmarked digit; without one there is no number.
NoVint == [size |-> 0, val |-> 0]
ReadVint(d) ==
  LET ends == {i \in DOMAIN d : ~d[i].more}
      val[i \in 0 .. Len(d)] == IF i = 0 THEN 0 ELSE val[i - 1] * Base + d[i].digit
  IN IF ends = {} THEN NoVint ELSE [size |-> Min(ends), val |-> val[Min(ends)]]

-----------------------------------------------------------------------------
HeaderOf(m) == Crc + Len(WriteVint(m.len))
SizeOf(m)   == HeaderOf(m) + m.len
EndIn(s, k) ==
  LET end[i \in 0 .. Len(s)] == IF i = 0 THEN 0 ELSE end[i - 1] + SizeOf(s[i])
  IN end[k]
EndOf(k)    == EndIn(stream, k)

\* A call of the user's function: the place of the bytes in the stream, how many
\* they are, and the error code.
Call(p, n, code) == [at |-> p, len |-> n, is |-> code]

\* The code for a message that is there with all its bytes.
Verdict(n, good) ==
  IF ~good THEN "BAD_DATA" ELSE IF Limit > 0 /\ n > Limit THEN "INVALID_SIZE" ELSE "SUCCESS"

\* What stands at a place of the stream, which is where a message begins as long
\* as the reader has not lost its way.
At(p) ==
  LET k == {i \in DOMAIN stream : EndOf(i - 1) = p}
  IN IF k = {} THEN [len |-> 0, good |-> FALSE] ELSE stream[Min(k)]

\* The number after the checksum at p, as far as it is among n bytes.
LengthAt(p, n) ==
  LET d == WriteVint(At(p).len)
  IN IF n <= Crc THEN NoVint
     ELSE ReadVint(IF n - Crc < Len(d) THEN SubSeq(d, 1, n - Crc) ELSE d)

\* The head has room for a checksum and the length of any message of the peer.
HeadFits == \A n \in Lengths : Crc + Len(WriteVint(n)) <= HeadSize
ASSUME HeadAssumption == HeadFits

NoBig   == [at |-> 0, len |-> 0, want |-> 0, good |-> TRUE]
Reading == big # NoBig

-----------------------------------------------------------------------------
\* io_stream_send.
SendMessage(n, good) ==
  /\ Len(stream) < MaxMessages
  /\ ~(SendLimit > 0 /\ n > SendLimit)
  /\ stream' = Append(stream, [len |-> n, good |-> good])
  /\ UNCHANGED <<got, head, big, heard, closed>>

\* The piece libuv may fill: the rest of a big message, or of the head.
Room == IF Reading THEN big.want ELSE HeadSize - head

\* What comes before a whole message at p in what is made of the bytes after it.
Whole(p, v, rest) ==
  [rest EXCEPT !.calls = <<Call(p + Crc + v.size, v.val, Verdict(v.val, At(p).good))>> \o @]

\* Mutant of Cut: what does not fit the head now is left there for later.
CutWaiting(end, n) ==
  LET cut[left \in 0 .. n] ==
        LET v == LengthAt(end - left, left)
            size == Crc + v.size + v.val
        IN IF v.size = 0 \/ left < size
             THEN [calls |-> <<>>, left |-> left, then |-> "wait", big |-> NoBig]
             ELSE Whole(end - left, v, cut[left - size])
  IN cut[n]

\* What is made of the last `left` bytes of a head that ends at `end`, if `cut` is
\* what is made of fewer.  Whole messages are handed to the user.  Of one that is
\* not whole the head gives up everything but the vint to a block of its own;
\* without room for that the header is skipped and the stream given up.
CutOne(end, cut, left) ==
  LET p == end - left
      v == LengthAt(p, left)
      size == Crc + v.size + v.val
  IN IF v.size = 0 THEN [calls |-> <<>>, left |-> left, then |-> "wait", big |-> NoBig]
     ELSE IF left >= size THEN Whole(p, v, cut[left - size])
     ELSE IF Crc + v.val <= MaxBuffer
       THEN [calls |-> <<>>, left |-> 0, then |-> "wait",
             big |-> [at |-> p + Crc + v.size, len |-> v.val, want |-> size - left, good |-> At(p).good]]
       ELSE [calls |-> <<>>, left |-> left - Crc - v.size, then |-> "free", big |-> NoBig]

\* The messages in a head of n bytes that ends at `end`.
Cut(end, n) ==
  LET cut[left \in 0 .. n] == CutOne(end, cut, left)
  IN cut[n]

\* The user may disconnect in any callback; the rest of the call goes on.
Afterwards(calls) == IF calls = <<>> THEN {FALSE} ELSE BOOLEAN

\* n bytes into the head, and everything that can be made of them.
ReadHead(n) ==
  LET r == Cut(got + n, head + n) IN
  /\ ~Reading
  /\ got' = got + n
  /\ head' = r.left
  /\ big' = r.big
  /\ IF r.then = "free"
       THEN /\ heard' = heard \o r.calls \o
                 (IF r.left > 0 THEN <<Call((got + n) - r.left, r.left, "INVALID_SIZE")>> ELSE <<>>)
            /\ closed' = TRUE
       ELSE /\ heard' = heard \o r.calls
            /\ closed' \in Afterwards(r.calls)
  /\ UNCHANGED stream

\* n bytes into the big block, which is handed over when it is full.
ReadBig(n) ==
  /\ Reading
  /\ got' = got + n
  /\ IF n = big.want
       THEN /\ big' = NoBig
            /\ heard' = Append(heard, Call(big.at, big.len, Verdict(big.len, big.good)))
            /\ closed' \in BOOLEAN
       ELSE /\ big' = [big EXCEPT !.want = @ - n]
            /\ UNCHANGED <<heard, closed>>
  /\ UNCHANGED <<stream, head>>

\* io_stream_on_recv_read_fn, called with what there is, or with an error (which
\* is also what libuv makes of having no room).
Read ==
  /\ ~closed
  /\ \E n \in 1 .. Min({Room, EndOf(Len(stream)) - got}) : ReadHead(n) \/ ReadBig(n)

ReadFails ==
  /\ ~closed
  /\ heard' = Append(heard, Call(got, 0, "READ_FAILED"))
  /\ closed' = TRUE
  /\ UNCHANGED <<stream, got, head, big>>

FramingInit ==
  /\ stream = <<>> /\ got = 0 /\ head = 0 /\ big = NoBig
  /\ heard = <<>> /\ closed = FALSE

FramingNext ==
  \/ \E n \in Lengths, good \in BOOLEAN : SendMessage(n, good)
  \/ Read \/ ReadFails

FramingSpec == FramingInit /\ [][FramingNext]_framing

-----------------------------------------------------------------------------
\* The messages all of whose bytes have been read.
Arrived == {k \in DOMAIN stream : EndOf(k) <= got}

\* However the stream is cut into pieces, the user has been called with exactly
\* the messages that have arrived, whole, in order and as soon as they were
\* there, and after them at most with the error that ended the stream.
HeardIsRead ==
  LET whole == [k \in Arrived |->
        Call(EndOf(k) - stream[k].len, stream[k].len, Verdict(stream[k].len, stream[k].good))]
  IN \/ heard = whole
     \/ /\ closed /\ heard # <<>>
        /\ SubSeq(heard, 1, Len(heard) - 1) = whole
        /\ heard[Len(heard)].is \in {"INVALID_SIZE", "READ_FAILED"}

\* libuv is never given an empty piece to read into (the comment at lines 285-288
\* argues that the head cannot be full): that would end the stream with ENOBUFS.
HeadHasRoom == ~closed => Room > 0 /\ head <= HeadSize

=============================================================================
