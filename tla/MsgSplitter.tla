---------------------------- MODULE MsgSplitter -----------------------------
(***************************************************************************)
(* msgSplitter of internal/mtproto/msgsplit.go: the client's byte stream,  *)
(* read in arbitrary chunks, is cut into MTProto messages, one for each    *)
(* WebSocket frame. The parser is modelled byte by byte in smaller units:  *)
(* a byte is a number below 2 * Half (256 in the code), a long header is   *)
(* Hdr bytes (4), abridged lengths count Unit bytes (4), and int ends at   *)
(* MaxInt (2^31 - 1 on the MIPS and ARM routers, 2^63 - 1 elsewhere). As   *)
(* in the code an int holds every length that a header can announce, but   *)
(* not always the length of the message with its header.                   *)
(***************************************************************************)
EXTENDS Integers, SequencesExt

CONSTANTS Half, Hdr, Unit, MaxInt,
  MaxInput      \* bound on the length of the stream

ASSUME SizesType == {Half, Hdr} \subseteq Nat \ {0, 1} /\ {Unit, MaxInt, MaxInput} \subseteq Nat \ {0}

Byte == 0..2 * Half - 1
Proto == {"abridged", "inter", "padded"}

\* (2 * Half)^n, and 0x80000000.
Power[n \in 0..Hdr] == IF n = 0 THEN 1 ELSE 2 * Half * Power[n - 1]
SignBit == Half * Power[Hdr - 1]

ASSUME IntType == SignBit <= MaxInt + 1 /\ Unit * Power[Hdr - 1] <= MaxInt + 1 /\ Hdr <= MaxInt

VARIABLES
  proto,      \* the client's protocol tag, "none" before it is known
  buf,        \* bytes of a message that is not complete yet
  disabled,   \* the stream is passed on as it comes
  input,      \* what was read from the client
  sent,       \* what was passed to the upstream
  ends        \* where in the stream the cut messages end

splitVars == <<proto, buf, disabled, input, sent, ends>>

SplitterType ==
  /\ proto \in Proto \cup {"none"}
  /\ buf \in Seq(Byte) /\ input \in Seq(Byte) /\ sent \in Seq(Byte)
  /\ disabled \in BOOLEAN
  /\ ends \subseteq 1..Len(input)
  /\ disabled => buf = <<>>

NoSplitter ==
  /\ proto = "none" /\ disabled = FALSE
  /\ buf = <<>> /\ input = <<>> /\ sent = <<>> /\ ends = {}

\* newMsgSplitter: AcceptObfuscated lets no other tag pass.
NewSplitter(tag) ==
  /\ proto' = tag
  /\ UNCHANGED <<buf, disabled, input, sent, ends>>

-----------------------------------------------------------------------------

Extended(b) == b % Half = Half - 1
LittleEndian(s) ==
  LET last[i \in 0..Len(s)] ==
        IF i = 0 THEN 0 ELSE s[Len(s) + 1 - i] + 2 * Half * last[i - 1]
  IN  last[Len(s)]

\* int arithmetic wraps around.
Wrap(n) == IF n > MaxInt THEN n - 2 * (MaxInt + 1) ELSE n

Whole(head, payload) == IF payload <= 0 THEN -1 ELSE Wrap(head + payload)

\* nextLen: 0 when the header is not complete ("not ok" in the code), negative
\* when it makes no sense.
NextLen(s) ==
  CASE proto = "abridged" /\ s = <<>> -> 0
    [] proto = "abridged" /\ s # <<>> /\ Extended(s[1]) ->
         IF Len(s) < Hdr THEN 0
         ELSE Whole(Hdr, LittleEndian(SubSeq(s, 2, Hdr)) * Unit)
    [] proto = "abridged" /\ s # <<>> /\ ~Extended(s[1]) -> Whole(1, (s[1] % Half) * Unit)
    [] OTHER ->
         IF Len(s) < Hdr THEN 0
         ELSE Whole(Hdr, LittleEndian(SubSeq(s, 1, Hdr)) % SignBit)

From(s, k) == SubSeq(s, k + 1, Len(s))

\* Mutant: a message that ends with the buffer is not complete.
PositionsShort(s) ==
  LET at[p \in 0..Len(s)] ==
        p = 0 \/ \E k \in 0..p - 1 : at[k] /\ p < Len(s) /\ NextLen(From(s, k)) = p - k
  IN  {p \in 0..Len(s) : at[p]}

\* The positions in the buffer that the loop of split comes to: the first, and the ends
\* of messages.
Positions(s) ==
  LET at[p \in 0..Len(s)] ==
        p = 0 \/ \E k \in 0..p - 1 : at[k] /\ NextLen(From(s, k)) = p - k
  IN  {p \in 0..Len(s) : at[p]}

\* The messages in the buffer, where the rest begins, and whether a bad header ended
\* the loop there.
Cut(s) ==
  LET at == Positions(s)
      rest == CHOOSE k \in at : \A p \in at : p <= k
  IN  [ends |-> at \ {0}, rest |-> rest, bad |-> NextLen(From(s, rest)) < 0]

PassOn(chunk) ==
  /\ disabled
  /\ sent' = sent \o chunk
  /\ UNCHANGED <<buf, disabled, ends>>

CutMessages(chunk) ==
  /\ ~disabled
  /\ LET s == buf \o chunk
         cut == Cut(s) IN
     /\ sent' = sent \o (IF cut.bad THEN s ELSE SubSeq(s, 1, cut.rest))
     /\ buf' = IF cut.bad THEN <<>> ELSE From(s, cut.rest)
     /\ disabled' = cut.bad
     /\ ends' = ends \cup {Len(sent) + e : e \in cut.ends}

\* A read returns a chunk, which is split.
Split(chunk) ==
  /\ input' = input \o chunk
  /\ PassOn(chunk) \/ CutMessages(chunk)
  /\ UNCHANGED proto

\* The stream ends: flush.
Flush ==
  /\ sent' = sent \o buf /\ buf' = <<>>
  /\ UNCHANGED <<proto, disabled, input, ends>>

-----------------------------------------------------------------------------
(* Properties. *)

\* The header at position k of a stream and the payload it announces, without an int.
HeaderAt(tag, s, k) == IF tag = "abridged" /\ ~Extended(s[k + 1]) THEN 1 ELSE Hdr
PayloadAt(tag, s, k) ==
  IF k + HeaderAt(tag, s, k) > Len(s) THEN 0
  ELSE CASE tag # "abridged" -> LittleEndian(SubSeq(s, k + 1, k + Hdr)) % SignBit
         [] tag = "abridged" /\ Extended(s[k + 1]) ->
              LittleEndian(SubSeq(s, k + 2, k + Hdr)) * Unit
         [] tag = "abridged" /\ ~Extended(s[k + 1]) -> (s[k + 1] % Half) * Unit

\* Where the stream up to there is a sequence of whole messages, each of a length that
\* an int can hold.
WholeMessages(tag, s) ==
  LET IsMessage(k, p) ==
        /\ PayloadAt(tag, s, k) > 0
        /\ p - k = HeaderAt(tag, s, k) + PayloadAt(tag, s, k) /\ p - k <= MaxInt
      whole[p \in 0..Len(s)] == p = 0 \/ \E k \in 0..p - 1 : whole[k] /\ IsMessage(k, p)
  IN  {p \in 1..Len(s) : whole[p]}

\* The frames are the messages of the stream, each complete one at once, for every
\* way the reads cut the stream into chunks.
FramesAreMessages == proto # "none" => ends = WholeMessages(proto, input)
=============================================================================
