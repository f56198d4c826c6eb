----------------------------- MODULE NoiseConn ------------------------------
(***************************************************************************)
(* How the bytes of a control connection are taken apart: the head of the  *)
(* HTTP upgrade, the Noise response, the encrypted records, the early      *)
(* payload the server may put before HTTP/2, and HTTP/2 itself             *)
(* (controlbase.rs, http1.rs, ControlClient::dial, H2Conn::process_one).   *)
(* TCP may cut the stream anywhere, every layer reads more than it needs   *)
(* or in several pieces, and a read that times out in the middle of a      *)
(* record drops the bytes it has.                                          *)
(*                                                                         *)
(* A byte is a record that says where it belongs.  A record of the wire    *)
(* carries its plaintext bytes; the authentication tag is not counted.     *)
(***************************************************************************)
EXTENDS Integers, SequencesExt, FiniteSetsExt

CONSTANTS
    HEAD,            \* bytes of the HTTP response head
    CHUNK,           \* the most read_response_head asks for at once
    HEADER_LEN, RESPONSE_LEN,
    ERROR_TEXT,      \* bytes of the text of a MSG_ERROR answer
    EARLY_HDR,       \* bytes ControlClient::dial reads to tell the early payload
    EARLY_LEN,       \* bytes of the early payload
    H2_LEN,          \* bytes of HTTP/2 the server sends
    H2_CHUNK,        \* the most process_one asks for at once
    MAX_RECORD,      \* plaintext bytes of a record at most
    MaxTimeouts      \* bound: reads that time out

ASSUME SizesAssumption ==
    /\ HEADER_LEN < RESPONSE_LEN /\ HEADER_LEN > 0 /\ EARLY_HDR <= H2_LEN
    /\ \A n \in {HEAD, CHUNK, H2_CHUNK, ERROR_TEXT, MAX_RECORD} : n > 0

VARIABLES
    answer,          \* what the server does: "refused", "error", "early" or "plain"
    stream,          \* the bytes it sends
    pos, avail,      \* how many of them were read from the socket, have arrived
    pc,              \* head, response, prefix, payload, h2; rejected, failed
    buf,             \* bytes of the head, then of the response
    leftover,        \* head.leftover, then NoiseConn::raw_pending
    header, got,     \* read_record: the header it has, the bytes it collects
    rx_n,            \* records decrypted
    plain_pending,
    hdr,             \* bytes ControlClient::dial has read of the early payload
    h2in,            \* what H2Conn got: the prefix and what it read
    message,         \* the error text dial reports
    timeouts

connVars == <<pos, avail>>
dialVars == <<buf, leftover, message>>
noiseVars == <<header, got, rx_n, plain_pending>>
vars == <<answer, stream, connVars, pc, dialVars, noiseVars, hdr, h2in, timeouts>>

Bytes(kind, n) == [j \in 1 .. n |-> [kind |-> kind, j |-> j]]

\* The plaintext after the handshake.
Plaintext(a) == (IF a = "early" THEN Bytes("ehdr", EARLY_HDR) \o Bytes("early", EARLY_LEN)
                                ELSE <<>>) \o Bytes("h2", H2_LEN)

\* Record r of the server: a header that tells the length, and the plaintext.
Record(r, plain) ==
    [j \in 1 .. HEADER_LEN |-> [kind |-> "rechdr", r |-> r, j |-> j, len |-> Len(plain)]]
      \o [j \in 1 .. Len(plain) |-> [kind |-> "rec", r |-> r, j |-> j, byte |-> plain[j]]]

\* NoiseConn::write on the server's side cuts the plaintext in records: the ways
\* to cut n bytes into pieces of at most MAX_RECORD.
Cuts(n) == {c \in UNION {[1 .. k -> 1 .. MAX_RECORD] : k \in 0 .. n} : FoldSeq(+, 0, c) = n}
Records(plain, cut) ==
    LET end(k) == FoldLeft(+, 0, SubSeq(cut, 1, k)) IN
    FlattenSeq([k \in 1 .. Len(cut) |-> Record(k, SubSeq(plain, end(k - 1) + 1, end(k)))])

Streams(a) ==
    CASE a = "refused" -> {Bytes("head", HEAD)}
      [] a = "error"   -> {Bytes("head", HEAD) \o Bytes("error", HEADER_LEN + ERROR_TEXT)}
      [] OTHER         -> {Bytes("head", HEAD) \o Bytes("resp", RESPONSE_LEN)
                             \o Records(Plaintext(a), c) : c \in Cuts(Len(Plaintext(a)))}

Init ==
    /\ answer \in {"refused", "error", "early", "plain"}
    /\ stream \in Streams(answer)
    /\ pos = 0 /\ avail = 0
    /\ pc = "head"
    /\ buf = <<>> /\ leftover = <<>> /\ message = <<>>
    /\ header = [len |-> 0] /\ got = <<>> /\ rx_n = 0 /\ plain_pending = <<>>
    /\ hdr = <<>> /\ h2in = <<>>
    /\ timeouts = 0

\* TCP delivers some more of the stream.
Arrive ==
    /\ avail' \in avail + 1 .. Len(stream)
    /\ UNCHANGED <<answer, stream, pos, pc, dialVars, noiseVars, hdr, h2in, timeouts>>

\* What a read of at most k bytes from the socket may return.
Chunks(k) == {SubSeq(stream, pos + 1, pos + n) : n \in 1 .. Min({k, avail - pos})}
Consume(bytes) == pos' = pos + Len(bytes) /\ avail' = avail

-----------------------------------------------------------------------------
(* controlbase::dial *)

\* Mutant: the bytes read past the response are not kept.
DropsLeftover ==
    /\ pc = "head"
    /\ \E bytes \in Chunks(CHUNK) :
         LET all  == buf \o bytes
             past == SubSeq(all, HEAD + 1, Len(all))
         IN /\ Consume(bytes)
            /\ IF Len(all) < HEAD
                 THEN buf' = all /\ UNCHANGED pc
                 ELSE /\ buf' = SubSeq(past, 1, Min({Len(past), RESPONSE_LEN}))
                      /\ pc' = IF answer = "refused" THEN "failed" ELSE "response"
    /\ UNCHANGED <<answer, stream, leftover, message, noiseVars, hdr, h2in, timeouts>>

\* read_response_head, and what dial does with the bytes read past the head.
ReadHead ==
    /\ pc = "head"
    /\ \E bytes \in Chunks(CHUNK) :
         LET all  == buf \o bytes
             past == SubSeq(all, HEAD + 1, Len(all))
             n    == Min({Len(past), RESPONSE_LEN})
         IN /\ Consume(bytes)
            /\ IF Len(all) < HEAD
                 THEN buf' = all /\ UNCHANGED <<pc, leftover>>
                 ELSE /\ buf' = SubSeq(past, 1, n)
                      /\ leftover' = SubSeq(past, n + 1, Len(past))
                      /\ pc' = IF answer = "refused" THEN "failed" ELSE "response"
    /\ UNCHANGED <<answer, stream, message, noiseVars, hdr, h2in, timeouts>>

IsError == buf[1].kind = "error"

\* The header of the response first, then the rest of it.
Wanted == IF Len(buf) < HEADER_LEN \/ IsError THEN HEADER_LEN ELSE RESPONSE_LEN
ReadResponse ==
    /\ pc = "response" /\ Len(buf) < Wanted
    /\ \E bytes \in Chunks(Wanted - Len(buf)) : buf' = buf \o bytes /\ Consume(bytes)
    /\ UNCHANGED <<answer, stream, pc, leftover, message, noiseVars, hdr, h2in, timeouts>>

\* MSG_ERROR: the text is taken from leftover and then from the socket, until
\* that brings no more.
Rejected ==
    /\ pc = "response" /\ Len(buf) >= HEADER_LEN /\ IsError /\ avail = Len(stream)
    /\ LET pre  == Min({Len(leftover), ERROR_TEXT})
           more == Min({ERROR_TEXT - pre, avail - pos})
       IN /\ message' = SubSeq(leftover, 1, pre) \o SubSeq(stream, pos + 1, pos + more)
          /\ pos' = pos + more
    /\ pc' = "rejected"
    /\ UNCHANGED <<answer, stream, avail, buf, leftover, noiseVars, hdr, h2in, timeouts>>

\* ClientHandshake::finish accepts the response of the server and nothing else.
Finish ==
    /\ pc = "response" /\ Len(buf) = RESPONSE_LEN /\ ~IsError
    /\ pc' = IF buf = Bytes("resp", RESPONSE_LEN) THEN "prefix" ELSE "failed"
    /\ buf' = <<>>
    /\ UNCHANGED <<answer, stream, connVars, leftover, message, noiseVars, hdr, h2in, timeouts>>

-----------------------------------------------------------------------------
(* NoiseConn::read_record *)

InRecord == pc \in {"prefix", "payload", "h2"} /\ plain_pending = <<>>
NoHeader == header.len = 0
Need == (IF NoHeader THEN HEADER_LEN ELSE header.len) - Len(got)

\* read_raw_exact: raw_pending first, the socket when it is empty.
ReadRawExact ==
    /\ InRecord /\ Need > 0
    /\ \/ /\ leftover # <<>>
          /\ LET n == Min({Need, Len(leftover)}) IN
               /\ got' = got \o SubSeq(leftover, 1, n)
               /\ leftover' = SubSeq(leftover, n + 1, Len(leftover))
          /\ UNCHANGED connVars
       \/ /\ leftover = <<>>
          /\ \E bytes \in Chunks(Need) : got' = got \o bytes /\ Consume(bytes)
          /\ UNCHANGED leftover
    /\ UNCHANGED <<answer, stream, pc, buf, message, header, rx_n, plain_pending, hdr, h2in,
                   timeouts>>

\* Bytes that are one header of the wire; anything else is read as a header too,
\* and may pass the checks on type and length.
HeaderOf(bytes) ==
    \A j \in DOMAIN bytes : bytes[j].kind = "rechdr" /\ bytes[j].j = j
HeaderDone ==
    /\ InRecord /\ NoHeader /\ Need = 0
    /\ \/ /\ HeaderOf(got)
          /\ header' = [r |-> got[1].r, len |-> got[1].len]
          /\ pc' = pc
       \/ /\ ~HeaderOf(got)
          /\ \/ \E n \in 1 .. MAX_RECORD : header' = [r |-> 0, len |-> n] /\ pc' = pc
             \/ pc' = "failed" /\ header' = header
    /\ got' = <<>>
    /\ UNCHANGED <<answer, stream, connVars, dialVars, rx_n, plain_pending, hdr, h2in, timeouts>>

\* The record is decrypted with the nonce rx_n: it must be the record of that
\* number, unchanged.
Authentic ==
    /\ header.r = rx_n + 1
    /\ \A j \in DOMAIN got : got[j].kind = "rec" /\ got[j].r = header.r /\ got[j].j = j
Decrypt ==
    /\ InRecord /\ ~NoHeader /\ Need = 0
    /\ \/ /\ Authentic
          /\ plain_pending' = [j \in DOMAIN got |-> got[j].byte]
          /\ rx_n' = rx_n + 1
          /\ pc' = pc
       \/ ~Authentic /\ pc' = "failed" /\ UNCHANGED <<plain_pending, rx_n>>
    /\ header' = [len |-> 0] /\ got' = <<>>
    /\ UNCHANGED <<answer, stream, connVars, dialVars, hdr, h2in, timeouts>>

\* A read times out.  Bytes of an unfinished record are gone.  dial gives up;
\* process_one reports TimedOut, and the map stream reads on.
TimesOut ==
    /\ timeouts < MaxTimeouts
    /\ pos = avail
    /\ \/ pc \in {"head", "response"}
       \/ InRecord /\ leftover = <<>> /\ Need > 0
    /\ timeouts' = timeouts + 1
    /\ header' = [len |-> 0] /\ got' = <<>>
    /\ pc' = IF pc = "h2" THEN pc ELSE "failed"
    /\ UNCHANGED <<answer, stream, connVars, dialVars, rx_n, plain_pending, hdr, h2in>>

-----------------------------------------------------------------------------
(* The readers of the plaintext *)

\* NoiseConn::read hands out what is left of the record.
Take(n) == plain_pending' = SubSeq(plain_pending, n + 1, Len(plain_pending))

\* Mutant: the bytes that were no early payload do not reach H2Conn.
PrefixLost ==
    /\ pc = "prefix" /\ plain_pending # <<>>
    /\ LET n == Min({EARLY_HDR - Len(hdr), Len(plain_pending)})
           all == hdr \o SubSeq(plain_pending, 1, n)
       IN /\ Take(n)
          /\ hdr' = all
          /\ pc' = IF Len(all) < EARLY_HDR THEN pc
                   ELSE IF all[1].kind = "ehdr" THEN "payload" ELSE "h2"
    /\ UNCHANGED <<answer, stream, connVars, dialVars, header, got, rx_n, h2in, timeouts>>

\* ControlClient::dial reads what may be the header of an early payload; if it
\* is not, these bytes are the first of HTTP/2.
ReadPrefix ==
    /\ pc = "prefix" /\ plain_pending # <<>>
    /\ LET n == Min({EARLY_HDR - Len(hdr), Len(plain_pending)})
           all == hdr \o SubSeq(plain_pending, 1, n)
           early == all[1].kind = "ehdr"
       IN /\ Take(n)
          /\ hdr' = all
          /\ IF Len(all) < EARLY_HDR
               THEN UNCHANGED <<pc, h2in>>
               ELSE /\ pc' = IF early THEN "payload" ELSE "h2"
                    /\ h2in' = IF early THEN <<>> ELSE all
    /\ UNCHANGED <<answer, stream, connVars, dialVars, header, got, rx_n, timeouts>>

\* The early payload is read and dropped.
ReadPayload ==
    /\ pc = "payload" /\ plain_pending # <<>>
    /\ LET n == Min({EARLY_HDR + EARLY_LEN - Len(hdr), Len(plain_pending)})
           all == hdr \o SubSeq(plain_pending, 1, n)
       IN /\ Take(n)
          /\ hdr' = all
          /\ pc' = IF Len(all) = EARLY_HDR + EARLY_LEN THEN "h2" ELSE pc
    /\ UNCHANGED <<answer, stream, connVars, dialVars, header, got, rx_n, h2in, timeouts>>

\* process_one reads into a buffer of its own size.
ReadH2 ==
    /\ pc = "h2" /\ plain_pending # <<>>
    /\ LET n == Min({H2_CHUNK, Len(plain_pending)}) IN
         Take(n) /\ h2in' = h2in \o SubSeq(plain_pending, 1, n)
    /\ UNCHANGED <<answer, stream, connVars, pc, dialVars, header, got, rx_n, hdr, timeouts>>

\* Mutant: a read that timed out counts as a keep-alive.
TimeoutIsAlive ==
    /\ pc = "h2" /\ InRecord /\ leftover = <<>> /\ Need > 0 /\ timeouts = 0
    /\ pos = Len(stream) /\ h2in # Bytes("h2", H2_LEN)
    /\ pc' = "failed"
    /\ UNCHANGED <<answer, stream, connVars, dialVars, noiseVars, hdr, h2in, timeouts>>

\* run_map_stream: no keep-alive for too long.
KeepaliveMissing ==
    /\ pc = "h2" /\ InRecord /\ leftover = <<>> /\ Need > 0
    /\ pos = Len(stream) /\ h2in # Bytes("h2", H2_LEN)
    /\ pc' = "failed"
    /\ UNCHANGED <<answer, stream, connVars, dialVars, noiseVars, hdr, h2in, timeouts>>

Client ==
    \/ ReadHead \/ ReadResponse \/ Rejected \/ Finish
    \/ ReadRawExact \/ HeaderDone \/ Decrypt
    \/ ReadPrefix \/ ReadPayload \/ ReadH2 \/ KeepaliveMissing

Next == Arrive \/ Client \/ TimesOut

\* What was sent arrives, and the thread of the control connection goes on.
Fairness == WF_vars(Arrive) /\ WF_vars(Client)

Spec == Init /\ [][Next]_vars /\ Fairness

-----------------------------------------------------------------------------
(* Properties *)

\* However the stream is cut, and also after bytes were lost in a timeout, H2Conn
\* gets the HTTP/2 bytes of the server from the first on, none twice, none left
\* out, and none of the early payload.
InOrder == IsPrefix(h2in, Bytes("h2", H2_LEN))

\* No way of cutting the stream makes dial or a read fail: only a refusal or a
\* read that timed out does.
CutsHarmless == pc = "failed" => answer = "refused" \/ timeouts > 0

\* A connection that lost step does not wait for ever: HTTP/2 arrives in full or
\* the control loop learns that the connection is of no use.
ArrivesOrFails ==
    <>(pc \in {"rejected", "failed"} \/ h2in = Bytes("h2", H2_LEN))

\* dial: "Read the header first so an unauthenticated server error can be
\* reported."  (controlbase.rs:367)
ErrorReported ==
    pc = "rejected" =>
      message = SubSeq(Bytes("error", HEADER_LEN + ERROR_TEXT), HEADER_LEN + 1,
                       HEADER_LEN + ERROR_TEXT)
=============================================================================
