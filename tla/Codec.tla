-------------------------------- MODULE Codec --------------------------------
(********************************************************************************)
(* The two wire formats: ZBRT v1 (rfb-runtime/src/zeroboot_protocol.rs), with   *)
(* its frames and payload codecs, and RFB1 (rfb-runtime/src/codec.rs).  Each    *)
(* behaviour takes one input up to the bounds: a ZBRT payload that is encoded   *)
(* and decoded, a stream of ZBRT frames that is read frame by frame, or an RFB1 *)
(* frame that is written by one peer and read by another.                       *)
(*                                                                              *)
(* A number of fixed width (a length, a flag, a code, a request id) is one      *)
(* symbol of the byte string; text and data are strings of symbols, of which    *)
(* Broken is no UTF-8.                                                          *)
(********************************************************************************)
EXTENDS Integers, Sequences, SequencesExt

CONSTANTS
  MaxPayload,  \* MAX_PAYLOAD, FrameCodec.max_payload of the receiver
  MaxCount     \* u8::MAX: the longest list a payload holds

VARIABLE io  \* the input and what has been read of it

Broken == 9
Strings(S, n) == UNION {[1..k -> S] : k \in 0..n}
Malformed == [ok |-> FALSE]
Got(v, rest) == [ok |-> TRUE, v |-> v, rest |-> rest]

-----------------------------------------------------------------------------
(* Payload fields *)

\* put: a length and that many symbols.
Prefixed(b) == <<Len(b)>> \o b

\* get: both the length and the bytes it announces must be there.
Get(b) ==
  IF b = <<>> \/ Len(b) - 1 < Head(b) THEN Malformed
  ELSE Got(SubSeq(b, 2, Head(b) + 1), SubSeq(b, Head(b) + 2, Len(b)))

\* gettext: String::from_utf8 over get.
GetText(b) ==
  LET g == Get(b) IN IF g.ok /\ Broken \notin ToSet(g.v) THEN g ELSE Malformed

\* getn of a fixed-width number.
GetN(b) == IF b = <<>> THEN Malformed ELSE Got(Head(b), Tail(b))

\* getflag: any non-zero byte is true.
GetFlag(b) == IF b = <<>> THEN Malformed ELSE Got(Head(b) # 0, Tail(b))

\* Mutant of CountByte: `as u8` for u8::try_from.
CountByte8(l) == <<Len(l) % (MaxCount + 1)>>

\* u8::try_from of a list's length.
CountByte(l) == IF Len(l) > MaxCount THEN <<>> ELSE <<Len(l)>>

\* A count and that many texts; <<>> where the encoder fails.
PutTexts(l) ==
  IF CountByte(l) = <<>> THEN <<>>
  ELSE CountByte(l) \o FlattenSeq([i \in DOMAIN l |-> Prefixed(l[i])])

GetTexts(b) ==
  IF b = <<>> THEN Malformed
  ELSE LET Take(g, i) ==
             IF ~g.ok THEN g
             ELSE LET t == GetText(g.rest)
                  IN  IF t.ok THEN Got(Append(g.v, t.v), t.rest) ELSE Malformed
       IN  FoldLeft(Take, Got(<<>>, Tail(b)), [i \in 1..Head(b) |-> i])

\* Some(x) is <<x>>, None is <<>>: a flag, and the value behind it.
\* The reader is given what the value behind the flag reads as.
PutOption(x, inner) == IF x = <<>> THEN <<0>> ELSE <<1>> \o inner

GetOption(b, inner) ==
  LET f == GetFlag(b)
  IN  IF ~f.ok THEN Malformed
      ELSE IF ~f.v THEN Got(<<>>, f.rest)
      ELSE IF inner.ok THEN Got(<<inner.v>>, inner.rest) ELSE Malformed

One(x) == <<x>>

\* One field of a payload, by its kind.
PutField(kind, v) ==
  CASE kind \in {"text", "data"} -> Prefixed(v)
    [] kind = "number" -> One(v)
    [] kind = "flag" -> One(IF v THEN 1 ELSE 0)
    [] kind = "texts" -> PutTexts(v)
    [] kind = "text?" -> PutOption(v, Prefixed(v[1]))
    [] kind \in {"number?", "target?"} -> PutOption(v, One(v[1]))

GetField(kind, b) ==
  CASE kind = "text" -> GetText(b)
    [] kind = "data" -> Get(b)
    [] kind = "number" -> GetN(b)
    [] kind = "flag" -> GetFlag(b)
    [] kind = "texts" -> GetTexts(b)
    [] kind = "text?" -> GetOption(b, GetText(Tail(b)))
    [] kind = "number?" -> GetOption(b, GetN(Tail(b)))
    [] kind = "target?" -> IF b = <<>> THEN Got(<<>>, b) ELSE GetOption(b, GetN(Tail(b)))

-----------------------------------------------------------------------------
(* Payloads: the fields of each, in order *)

HelloFields == <<"text", "texts">>
HelloAckFields == <<"text", "texts">>
ExecuteFields == <<"texts", "text?", "data", "number">>
OutputFields == <<"number", "data">>
ExitFields == <<"number", "number?">>
CancelFields == <<"text?", "target?">>
FsFields == <<"number", "text", "data">>
HealthFields == <<"flag", "text?">>
ErrorFields == <<"number", "text">>

Payloads == {HelloFields, HelloAckFields, ExecuteFields, OutputFields, ExitFields,
             CancelFields, FsFields, HealthFields, ErrorFields}

Texts == Strings({0}, 1)
Values(kind) ==
  CASE kind = "text" -> Texts
    [] kind = "data" -> Strings({1, Broken}, 1)
    [] kind = "number" -> {0, 1}
    [] kind = "flag" -> BOOLEAN
    [] kind = "texts" -> Strings(Texts, MaxCount + 1)
    [] kind = "text?" -> Strings(Texts, 1)
    [] kind \in {"number?", "target?"} -> Strings({0, 1}, 1)

\* encode, over $enc; <<>> stands for "too many".
EncodePayload(fields, v) ==
  LET parts == [i \in DOMAIN fields |-> PutField(fields[i], v[i])]
  IN  IF <<>> \in ToSet(parts) THEN <<>> ELSE FlattenSeq(parts)

\* Mutant of DecodePayload: trailing bytes are ignored.
DecodeLeniently(fields, b) ==
  LET Take(g, kind) ==
        IF ~g.ok THEN g
        ELSE LET f == GetField(kind, g.rest)
             IN  IF f.ok THEN Got(Append(g.v, f.v), f.rest) ELSE Malformed
  IN  FoldLeft(Take, Got(<<>>, b), fields)

\* decode, over $dec: the fields in order, and nothing behind them.
DecodePayload(fields, b) ==
  LET Take(g, kind) ==
        IF ~g.ok THEN g
        ELSE LET f == GetField(kind, g.rest)
             IN  IF f.ok THEN Got(Append(g.v, f.v), f.rest) ELSE Malformed
      g == FoldLeft(Take, Got(<<>>, b), fields)
  IN  IF g.ok /\ g.rest # <<>> THEN Malformed ELSE g

-----------------------------------------------------------------------------
(* ZBRT frames: magic, version, kind, flags, request id, length, payload *)

HeaderLen == 6
MAGIC == 7
VERSION == 1
Kinds == 1..13

\* Frame::encode.
EncodeFrame(f) ==
  IF f.flags # 0 \/ Len(f.payload) > MaxPayload THEN <<>>
  ELSE <<MAGIC, VERSION, f.kind, f.flags, f.id, Len(f.payload)>> \o f.payload

\* Frame::decode of a buffer that holds one frame.
DecodeFrame(b) ==
  IF b[1] # MAGIC \/ b[2] # VERSION \/ b[4] # 0 \/ b[6] > MaxPayload \/ b[3] \notin Kinds
    THEN Malformed
    ELSE Got([kind |-> b[3], flags |-> b[4], id |-> b[5],
              payload |-> SubSeq(b, HeaderLen + 1, HeaderLen + b[6])], <<>>)

\* read_frame_async, read_frame_sync: the header tells how much to read.
ReadFrame(b) ==
  IF Len(b) < HeaderLen \/ b[6] > MaxPayload \/ Len(b) < HeaderLen + b[6] THEN Malformed
  ELSE LET g == DecodeFrame(SubSeq(b, 1, HeaderLen + b[6]))
       IN  IF g.ok THEN Got(g.v, SubSeq(b, HeaderLen + b[6] + 1, Len(b))) ELSE Malformed

-----------------------------------------------------------------------------
(* RFB1 frames: a length, the header and a payload that may be compressed *)

RfbHeader == 18

\* FrameCodec::encode and write_frame by a peer whose limits are max and
\* threshold; zip is the size zstd makes of the payload.
EncodeRfb(raw, zip, max, threshold) ==
  LET packed == raw >= threshold
      size == IF packed THEN zip ELSE raw
  IN  IF raw > max \/ size > max THEN Malformed
      ELSE [ok |-> TRUE, outer |-> RfbHeader + size, len |-> size, flag |-> packed, raw |-> raw,
            head |-> TRUE]

\* FrameCodec::decode of a buffer of n bytes; head: the magic, a known opcode and
\* no unknown flag.
DecodeRfb(f, n) ==
  IF ~f.head THEN "invalid"
  ELSE IF f.len > MaxPayload THEN "too large"
  ELSE CASE n < RfbHeader + f.len -> "truncated"
         [] n > RfbHeader + f.len -> "trailing"
         [] n = RfbHeader + f.len ->
              IF f.flag /\ f.raw > MaxPayload THEN "too large" ELSE "value"

\* Mutant of ReadRfb: the announced length is compared with the payload's limit.
ReadRfbShort(f) == IF f.outer > MaxPayload THEN "too large" ELSE DecodeRfb(f, f.outer)

\* read_frame, read_frame_blocking.
ReadRfb(f) == IF f.outer > RfbHeader + MaxPayload THEN "too large" ELSE DecodeRfb(f, f.outer)

-----------------------------------------------------------------------------
\* The values a payload's fields can have.
Tuples(fields) ==
  FoldLeft(LAMBDA S, kind : {Append(v, x) : v \in S, x \in Values(kind)}, {<<>>}, fields)

ZbrtFrame == [kind : {1, 13}, flags : {0, 1}, id : {5}, payload : Strings({7}, MaxPayload + 1)]

\* What can befall a frame of a stream on its way: one header field changes.
Damage(b, i, v) == [b EXCEPT ![i] = v]

CdInit ==
  \/ \E fields \in Payloads : \E v \in Tuples(fields) :
       io = [what |-> "payload", fields |-> fields, v |-> v, res |-> "?"]
  \/ \E fs \in Strings(ZbrtFrame, 2) : \E bad \in 0..Len(fs) :
       \E hit \in {<<1, 8>>, <<2, 2>>, <<3, 14>>, <<4, 1>>, <<6, MaxPayload + 1>>} :
       \E lost \in 0..2 :
         LET wire == [i \in DOMAIN fs |-> EncodeFrame(fs[i])]
             hurt == [i \in DOMAIN fs |-> IF i = bad /\ wire[i] # <<>>
                                            THEN Damage(wire[i], hit[1], hit[2]) ELSE wire[i]]
             all == FlattenSeq(hurt)
         IN  io = [what |-> "stream", fs |-> fs, bad |-> bad, lost |-> lost, read |-> <<>>,
                   buf |-> SubSeq(all, 1, Len(all) - lost), res |-> "reading"]
  \/ \E raw \in 0..MaxPayload + 2, zip \in 0..MaxPayload + 2,
        max \in {MaxPayload, MaxPayload + 1}, threshold \in 0..MaxPayload + 1,
        off \in {-1, 0, 1}, head \in BOOLEAN :
       io = [what |-> "rfb1", raw |-> raw, zip |-> zip, max |-> max, threshold |-> threshold,
             off |-> off, head |-> head, res |-> "?"]

\* A payload is encoded and decoded.
PayloadStep ==
  /\ io.what = "payload" /\ io.res = "?"
  /\ io' = [io EXCEPT !.res = IF EncodePayload(io.fields, io.v) = <<>> THEN "refused" ELSE "sent"]

\* The reader takes the next frame, or the stream is over for it.
StreamStep ==
  /\ io.what = "stream" /\ io.res = "reading"
  /\ LET g == ReadFrame(io.buf)
     IN  io' = IF g.ok THEN [io EXCEPT !.read = Append(@, g.v), !.buf = g.rest]
                       ELSE [io EXCEPT !.res = "over"]

\* A frame is written, its inner length or its header damaged, and read.
RfbStep ==
  /\ io.what = "rfb1" /\ io.res = "?"
  /\ LET f == EncodeRfb(io.raw, io.zip, io.max, io.threshold)
     IN  io' = [io EXCEPT !.res = IF ~f.ok \/ f.len + io.off < 0 THEN "refused"
                                  ELSE ReadRfb([f EXCEPT !.len = @ + io.off, !.head = io.head])]

CdNext == PayloadStep \/ StreamStep \/ RfbStep

-----------------------------------------------------------------------------
(* Properties *)

\* A payload is read back as it was written or refused by the writer; cut short
\* anywhere or lengthened, it is refused by the reader ("Payload codecs reject both
\* truncation and trailing bytes"), but for a Cancel that stops before its target,
\* which old peers send.
PayloadReadsBack ==
  io.what = "payload" /\ io.res = "sent" =>
    LET b == EncodePayload(io.fields, io.v)
        g == DecodePayload(io.fields, b)
    IN  /\ g.ok /\ g.v = io.v
        /\ \A x \in {0, 1} : ~DecodePayload(io.fields, Append(b, x)).ok
        /\ \A k \in 0..Len(b) - 1 :
             DecodePayload(io.fields, SubSeq(b, 1, k)).ok =>
               /\ io.fields = CancelFields
               /\ SubSeq(b, 1, k) = PutField("text?", io.v[1])

\* The frames read from a stream are the ones written to it, in order, up to the
\* first that is damaged or cut: no frame is read from the bytes of another.
StreamReadsBack ==
  io.what = "stream" =>
    LET sent == SelectSeq([i \in DOMAIN io.fs |-> [f |-> io.fs[i], bad |-> i = io.bad]],
                          LAMBDA s : EncodeFrame(s.f) # <<>>)
        whole == {n \in 0..Len(sent) : \A i \in 1..n :
                    /\ ~sent[i].bad
                    /\ i = Len(sent) => io.lost = 0}
        most == CHOOSE n \in whole : \A k \in whole : k <= n
    IN  /\ Len(io.read) <= most
        /\ \A i \in DOMAIN io.read : io.read[i] = sent[i].f
        /\ io.res = "over" => Len(io.read) = most

\* Peers of equal limits understand each other, up to the limit itself; a frame
\* over the receiver's limit or with a wrong length is refused, and an oversized
\* one is never called truncated.
RfbReadsBack ==
  io.what = "rfb1" /\ io.res \notin {"?", "refused"} =>
    LET size == IF io.raw >= io.threshold THEN io.zip ELSE io.raw
    IN  /\ io.off = 0 /\ io.head /\ io.max = MaxPayload => io.res = "value"
        /\ io.off # 0 \/ ~io.head => io.res # "value"
        /\ io.res = "value" => io.raw <= MaxPayload /\ size <= MaxPayload
        /\ io.off = 0 /\ io.head => io.res \in {"value", "too large"}

\* The two wire formats are read as they were written.
CodecsAgree == PayloadReadsBack /\ StreamReadsBack /\ RfbReadsBack
=============================================================================
