----------------------------- MODULE ClientConn ------------------------------
(***************************************************************************)
(* A client's connection, from its ClientHello to the packets passed on:   *)
(* AcceptFakeTLSMulti, FakeTLSConn and proxyToMaskingDomain of             *)
(* internal/mtproto/faketls.go, acceptObfuscatedFrame of obfuscated2.go,   *)
(* as handleConn calls them, and the splitter behind them.                 *)
(*                                                                         *)
(* The hello is two pieces, its header and its body. A client that is      *)
(* forwarded to the masking site goes on with pieces 3, 4, ..., (or 2, 3,  *)
(* ... after a header that made no sense); the site answers with 1, 2, ... *)
(* and 0 is the ServerHello. A client that is accepted sends bytes in TLS  *)
(* records: a frame of FrameLen bytes, the last of which tells the         *)
(* protocol, and then its messages. XORing the keystream, byte by byte and *)
(* in order, is left out. Registration and revocation are in Server, the   *)
(* dial in DialRace, failures of the upstream in Relay.                    *)
(***************************************************************************)
EXTENDS MsgSplitter

CONSTANTS
  Frames,       \* the frames a client may send
  FrameLen,     \* obfuscatedFrameLen
  RelayBuf,     \* relayBufSize
  MaxRecord,    \* maxTLSRecordPayload
  MaxPieces     \* bound on what a client or the masking site sends

ASSUME FramesType ==
  FrameLen \in Nat \ {0} /\ Frames # {} /\ Frames \subseteq [1..FrameLen -> Byte]
ASSUME LimitsType == {RelayBuf, MaxRecord, MaxPieces} \subseteq Nat \ {0}

\* What the client's hello is: no TLS at all, a header or a body that makes no
\* sense, made with no key of ours, with one but long ago, or a good one.
Hello == {"nottls", "badlength", "nohello", "forged", "stale", "good"}
Side == {"client", "site"}
Other(d) == CHOOSE e \in Side : e # d

VARIABLES
  pc,         \* where the handler is
  hello,      \* the client's hello
  deadline,   \* whether the client's connection has a deadline
  initial,    \* FakeTLSVerifyError.Initial
  pieces,     \* how many pieces each side has sent
  taken,      \* how many of them were read
  held,       \* what the copy from a side has read and not written yet
  copy,       \* where the copy from each side is
  got,        \* what each side has received
  gone,       \* sides that have closed
  shut,       \* sides whose connection the proxy has closed
  frame,      \* the frame the client sends ...
  have,       \* ... and how much of it ReadFull has
  stream,     \* the payload of the records read so far
  readBuf,    \* FakeTLSConn.readBuf
  reply       \* a Write of FakeTLSConn: bytes left, written, and those in each record

maskVars == <<initial, pieces, taken, held, copy, got, gone, shut>>
streamVars == <<frame, have, stream, readBuf, reply, splitVars>>
vars == <<pc, hello, deadline, maskVars, streamVars>>

Accepting == {"hello", "verify", "greet", "frame"}
Masked == {"dialsite", "initial", "mask", "wait"}

MaskType ==
  /\ initial \in Seq(Nat) /\ pieces \in [Side -> Nat] /\ taken \in [Side -> Nat]
  /\ held \in [Side -> Seq(Nat)] /\ got \in [Side -> Seq(Nat)]
  /\ copy \in [Side -> {"off", "read", "write", "done"}]
  /\ gone \subseteq Side /\ shut \subseteq Side

StreamType ==
  /\ frame \in Frames /\ have \in Seq(Byte) /\ stream \in Seq(Byte) /\ readBuf \in Seq(Byte)
  /\ reply \in [left : Nat, total : Nat, records : Seq([first : Nat, last : Nat])]
  /\ SplitterType

TypeOK ==
  /\ pc \in Accepting \cup Masked \cup {"relay", "reply", "over"}
  /\ hello \in Hello /\ deadline \in BOOLEAN
  /\ MaskType /\ StreamType

Init ==
  /\ pc = "hello" /\ hello \in Hello /\ deadline = TRUE
  /\ initial = <<>> /\ gone = {} /\ shut = {}
  /\ pieces = [d \in Side |-> 0] /\ taken = [d \in Side |-> 0]
  /\ held = [d \in Side |-> <<>>] /\ got = [d \in Side |-> <<>>]
  /\ copy = [d \in Side |-> "off"]
  /\ frame \in IF hello = "good" THEN Frames ELSE {CHOOSE f \in Frames : TRUE}
  /\ have = <<>> /\ stream = <<>> /\ readBuf = <<>>
  /\ reply = [left |-> 0, total |-> 0, records |-> <<>>]
  /\ NoSplitter

Upto(n) == [i \in 1..n |-> i]

-----------------------------------------------------------------------------
(* The handshake. *)

\* The handler returns; its deferred Close.
Return ==
  /\ pc' = "over" /\ shut' = Side
  /\ UNCHANGED <<hello, deadline, initial, pieces, taken, held, copy, got, gone>>

\* Mutant: the record's header is not kept.
MaskBody(n) ==
  /\ initial' = SubSeq(Upto(n), 2, n)
  /\ pieces' = [pieces EXCEPT !["client"] = n]
  /\ taken' = [taken EXCEPT !["client"] = n]
  /\ pc' = "dialsite"
  /\ UNCHANGED <<hello, deadline, held, copy, got, gone, shut, streamVars>>

\* FakeTLSVerifyError with the n pieces read so far.
Mask(n) ==
  /\ initial' = Upto(n)
  /\ pieces' = [pieces EXCEPT !["client"] = n]
  /\ taken' = [taken EXCEPT !["client"] = n]
  /\ pc' = "dialsite"
  /\ UNCHANGED <<hello, deadline, held, copy, got, gone, shut, streamVars>>

\* readClientHello: the record's header, then its body.
ReadHello ==
  /\ pc = "hello"
  /\ CASE hello = "nottls" -> Return /\ UNCHANGED streamVars
       [] hello = "badlength" -> Mask(1)
       [] hello = "nohello" -> Mask(2)
       [] OTHER -> pc' = "verify"
                   /\ UNCHANGED <<hello, deadline, maskVars, streamVars>>

\* verify, against all secrets: the HMAC tells one of them, then the time is checked.
Matched == hello \in {"stale", "good"}
InTime == hello = "good"

\* The loop over the secrets: a hello is masked, too, when it matched and is stale.
Verify ==
  /\ pc = "verify"
  /\ IF Matched /\ InTime
       THEN pc' = "greet" /\ UNCHANGED <<hello, deadline, maskVars, streamVars>>
       ELSE Mask(2)

\* Mutant: the deadline is lifted with the ServerHello.
GreetLifting ==
  /\ pc = "greet" /\ pc' = "frame" /\ deadline' = FALSE
  /\ got' = [got EXCEPT !["client"] = Append(@, 0)]
  /\ UNCHANGED <<hello, initial, pieces, taken, held, copy, gone, shut, streamVars>>

\* The ServerHello is written.
Greet ==
  /\ pc = "greet" /\ pc' = "frame"
  /\ got' = [got EXCEPT !["client"] = Append(@, 0)]
  /\ UNCHANGED <<hello, deadline, initial, pieces, taken, held, copy, gone, shut,
                 streamVars>>

\* The client closes before it is accepted, or the ServerHello cannot be written.
HandshakeFails == pc \in Accepting /\ Return /\ UNCHANGED streamVars

\* The 30 s are over.
TimedOut == pc \in {"hello", "frame"} /\ deadline /\ Return /\ UNCHANGED streamVars

-----------------------------------------------------------------------------
(* FakeTLSConn.Read. *)

First(s, n) == SubSeq(s, 1, IF n < Len(s) THEN n ELSE Len(s))

\* What the payload of the next record may be: the stream begins with the frame.
Records ==
  LET missing == From(frame, Len(stream)) IN
  IF missing = <<>> THEN SeqOf(Byte, FrameLen + MaxInput - Len(stream))
  ELSE {First(missing, n) : n \in 1..Len(missing)}
         \cup {missing \o s : s \in SeqOf(Byte, MaxInput)}

\* What Read copies from: what is left of the last record, or a whole record. Records
\* of the type change cipher are skipped.
Pending == IF readBuf # <<>> THEN {readBuf} ELSE Records

\* Mutant: what did not fit is overwritten by the next record.
ReadDropping(n, b) ==
  /\ stream' = IF readBuf # <<>> THEN stream ELSE stream \o b
  /\ readBuf' = <<>>

\* Read of n bytes from b, which is pending.
Read(n, b) ==
  /\ stream' = IF readBuf # <<>> THEN stream ELSE stream \o b
  /\ readBuf' = From(b, n)

Tag(f) ==
  CASE f[FrameLen] = 0 -> "abridged" [] f[FrameLen] = 1 -> "inter"
    [] f[FrameLen] = 2 -> "padded" [] OTHER -> "invalid"

\* io.ReadFull of the frame, which may take several records; its tag is looked at
\* when it is complete. The relay begins, and the deadline is lifted. The two
\* directions share nothing: a behaviour goes on with one of them, downwards when the
\* client has sent no more than its frame.
ReadFrame(b) ==
  LET all == have \o First(b, FrameLen - Len(have)) IN
  /\ pc = "frame"
  /\ Read(FrameLen - Len(have), b)
  /\ have' = all
  /\ CASE Len(all) < FrameLen ->
            UNCHANGED <<pc, hello, deadline, maskVars, splitVars>>
       [] Len(all) = FrameLen /\ Tag(all) = "invalid" -> Return /\ UNCHANGED splitVars
       [] OTHER ->
            /\ pc' = "relay" \/ (readBuf' = <<>> /\ pc' = "reply")
            /\ deadline' = FALSE
            /\ NewSplitter(Tag(all))
            /\ UNCHANGED <<hello, maskVars>>
  /\ UNCHANGED <<frame, reply>>

\* cpSplit reads and writes the packets.
RelayUp(b) ==
  /\ pc = "relay"
  /\ Read(RelayBuf, b)
  /\ Split(First(b, RelayBuf))
  /\ UNCHANGED <<pc, hello, deadline, maskVars, frame, have, reply>>

\* Read fails, at the end of the stream, on a record of another type or on one that is
\* too large; the tail is flushed.
RelayEnds ==
  /\ pc = "relay" /\ Return /\ Flush
  /\ UNCHANGED <<frame, have, stream, readBuf, reply>>

-----------------------------------------------------------------------------
(* FakeTLSConn.Write: n bytes come from the data centre. *)

StartReply(n) ==
  /\ pc = "reply" /\ reply.left + reply.total = 0
  /\ reply' = [reply EXCEPT !.left = n]
  /\ UNCHANGED <<pc, hello, deadline, maskVars, frame, have, stream, readBuf, splitVars>>

WriteRecord ==
  LET n == IF reply.left > MaxRecord THEN MaxRecord ELSE reply.left IN
  /\ pc = "reply" /\ reply.left > 0
  /\ reply' = [left |-> reply.left - n, total |-> reply.total + n,
               records |-> Append(reply.records,
                                  [first |-> reply.total + 1, last |-> reply.total + n])]
  /\ UNCHANGED <<pc, hello, deadline, maskVars, frame, have, stream, readBuf, splitVars>>

ReplyEnds == pc = "reply" /\ Return /\ UNCHANGED streamVars

-----------------------------------------------------------------------------
(* proxyToMaskingDomain. *)

maskRest == <<hello, initial, streamVars>>

\* FakeSNI is not set, or the dial fails; or the site answers.
DialSite ==
  /\ pc = "dialsite"
  /\ \/ pc' = "initial" /\ UNCHANGED <<hello, deadline, maskVars>>
     \/ Return
  /\ UNCHANGED streamVars

\* The deadline is lifted and the two copies start; or the write fails.
WriteInitial ==
  /\ pc = "initial"
  /\ \/ /\ pc' = "mask" /\ deadline' = FALSE
        /\ got' = [got EXCEPT !["site"] = initial]
        /\ copy' = [d \in Side |-> "read"]
        /\ UNCHANGED <<hello, initial, pieces, taken, held, gone, shut>>
     \/ Return
  /\ UNCHANGED streamVars

\* The far ends send and close as they like.
FarSends(d) ==
  /\ pc \in Masked \ {"wait"} /\ d \notin gone /\ pieces[d] < MaxPieces
  /\ d = "site" => pc = "mask"
  /\ pieces' = [pieces EXCEPT ![d] = @ + 1]
  /\ UNCHANGED <<pc, deadline, taken, held, copy, got, gone, shut, maskRest>>

FarCloses(d) ==
  /\ pc \in Masked \ {"wait"} /\ d \notin gone
  /\ d = "site" => pc = "mask"
  /\ gone' = gone \cup {d}
  /\ UNCHANGED <<pc, deadline, pieces, taken, held, copy, got, shut, maskRest>>

\* io.Copy from d: a read returns what there is, or the beginning of it.
CopyRead(d) ==
  /\ copy[d] = "read" /\ d \notin shut
  /\ \E n \in taken[d] + 1..pieces[d] :
       /\ held' = [held EXCEPT ![d] = SubSeq(Upto(n), taken[d] + 1, n)]
       /\ taken' = [taken EXCEPT ![d] = n]
  /\ copy' = [copy EXCEPT ![d] = "write"]
  /\ UNCHANGED <<pc, deadline, pieces, got, gone, shut, maskRest>>

\* A read finds the end of the stream, or fails.
CopyEnds(d) ==
  /\ copy[d] = "read" /\ d \in gone \cup shut
  /\ copy' = [copy EXCEPT ![d] = "done"]
  /\ UNCHANGED <<pc, deadline, pieces, taken, held, got, gone, shut, maskRest>>

\* A write goes through, or fails after a part of it: at the latest when
\* TCP_USER_TIMEOUT is over.
CopyWrite(d) ==
  LET n == Len(held[d]) IN
  /\ copy[d] = "write"
  /\ held' = [held EXCEPT ![d] = <<>>]
  /\ \/ /\ Other(d) \notin shut
        /\ got' = [got EXCEPT ![Other(d)] = @ \o held[d]]
        /\ copy' = [copy EXCEPT ![d] = "read"]
     \/ /\ \E k \in 0..n - 1 : got' = [got EXCEPT ![Other(d)] = @ \o SubSeq(held[d], 1, k)]
        /\ copy' = [copy EXCEPT ![d] = "done"]
  /\ UNCHANGED <<pc, deadline, pieces, taken, gone, shut, maskRest>>

\* Mutant: only the site's connection is closed.
FirstDoneHalf ==
  /\ pc = "mask" /\ \E d \in Side : copy[d] = "done"
  /\ shut' = {"site"} /\ pc' = "wait"
  /\ UNCHANGED <<deadline, pieces, taken, held, copy, got, gone, maskRest>>

\* The first end of a copy closes both connections.
FirstDone ==
  /\ pc = "mask" /\ \E d \in Side : copy[d] = "done"
  /\ shut' = Side /\ pc' = "wait"
  /\ UNCHANGED <<deadline, pieces, taken, held, copy, got, gone, maskRest>>

SecondDone ==
  /\ pc = "wait" /\ \A d \in Side : copy[d] = "done"
  /\ Return /\ UNCHANGED streamVars

-----------------------------------------------------------------------------

Copies(d) == CopyRead(d) \/ CopyEnds(d) \/ CopyWrite(d)

Next ==
  \/ ReadHello \/ Verify \/ Greet \/ HandshakeFails \/ TimedOut
  \/ pc \in {"frame", "relay"} /\ \E b \in Pending : ReadFrame(b) \/ RelayUp(b)
  \/ RelayEnds
  \/ \E n \in 1..MaxInput : StartReply(n)
  \/ WriteRecord \/ ReplyEnds
  \/ DialSite \/ WriteInitial \/ FirstDone \/ SecondDone
  \/ \E d \in Side : FarSends(d) \/ FarCloses(d) \/ Copies(d)

Spec == Init /\ [][Next]_vars

\* Fair are the steps of the handler and of the two copies, and the passing of the
\* deadline: not what clients and the masking site do.
Fairness ==
  /\ WF_vars(Verify) /\ WF_vars(Greet) /\ WF_vars(TimedOut)
  /\ WF_vars(DialSite) /\ WF_vars(WriteInitial) /\ WF_vars(FirstDone) /\ WF_vars(SecondDone)
  /\ \A d \in Side : WF_vars(Copies(d))

FairSpec == Spec /\ Fairness

-----------------------------------------------------------------------------
(* Properties. *)

\* faketls.go: "no bytes are written back until a match is found", and the bytes read
\* by then go to the masking site. Whatever the hello was and wherever the copies
\* and the closes stand, the site has received the stream of an unknown client from
\* its first piece, and the client the answer of the site and nothing else.
Disguise == hello # "good" => \A d \in Side : got[d] = Upto(Len(got[d]))

\* Nothing of the payload of the records is lost, doubled or put in another order
\* between the frame, what was passed on, and what two buffers keep, however records
\* and reads cut the stream; and a Write reports what its records carry, which is what
\* it was given, in order, in records that are not too large.
StreamKept ==
  LET r == reply.records IN
  /\ stream = have \o sent \o buf \o readBuf
  /\ reply.total = IF r = <<>> THEN 0 ELSE r[Len(r)].last
  /\ \A i \in 1..Len(r) :
       /\ r[i].first = IF i = 1 THEN 1 ELSE r[i - 1].last + 1
       /\ r[i].last - r[i].first \in 0..MaxRecord - 1

\* A client that stops in its handshake does not keep its handler.
Decided == <>(pc \in {"relay", "reply", "mask", "over"})

\* A masked connection is in no registry and has no deadline: it still ends when
\* either side has closed, whatever the other side does.
MaskEnds == \A d \in Side : (pc = "mask" /\ d \in gone) ~> pc = "over"
=============================================================================
