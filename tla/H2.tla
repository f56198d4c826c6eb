--------------------------------- MODULE H2 ---------------------------------
(***************************************************************************)
(* The HTTP/2 client of the control connection (h2.rs) against a server:   *)
(* requests whose body waits for the server's windows, responses that are  *)
(* credited back to the server as they arrive, settings that resize the    *)
(* windows of open streams, resets, GOAWAY, and late frames of a stream    *)
(* the client has already given up.  Frames are whole: take_frame leaves a *)
(* partial one in the buffer.  A byte count stands for the bytes.          *)
(***************************************************************************)
EXTENDS Integers, SequencesExt, FiniteSetsExt

CONSTANTS
    NRequests,       \* requests made on the connection, numbered from 1
    DEFAULT_WINDOW, OUR_WINDOW, WINDOW_UPDATE_THRESHOLD, MAX_FRAME_SIZE,
    RequestSize,     \* length of a request body; bound: only the last request has one
    ResponseSize,    \* bytes of a response body
    InitialWindows,  \* values of SETTINGS_INITIAL_WINDOW_SIZE the server picks
    MaxMishaps,      \* bound: unasked frames of the server, and calls given up
    MaxFlight,       \* bound: frames under way to the client
    None

ASSUME WindowsAssumption ==
    /\ 0 < WINDOW_UPDATE_THRESHOLD /\ WINDOW_UPDATE_THRESHOLD <= OUR_WINDOW
    /\ DEFAULT_WINDOW \in 1 .. OUR_WINDOW /\ MAX_FRAME_SIZE > 0
    /\ \A w \in InitialWindows : w > 0

VARIABLES
    pc,                  \* the call in progress: request, status, body
    cur,                 \* the stream it is about
    rest,                \* bytes of the request body send_body has still to send
    streams, next_stream_id, goaway,
    conn_send_window, conn_recv_consumed, peer_initial_window,
    c2s, s2c,            \* frames under way
    srv, srv_streams,    \* the server's windows
    mishaps,             \* how many of these there were
    given, whole         \* bytes read_body returned for cur; whether it said None

clientVars == <<pc, cur, rest, streams, next_stream_id, goaway,
                conn_send_window, conn_recv_consumed, peer_initial_window>>
serverVars == <<srv, srv_streams>>
vars == <<clientVars, serverVars, c2s, s2c, mishaps, given, whole>>

Id == 1 .. NRequests

Data(i, n, pad, end) == [typ |-> "DATA", sid |-> i, n |-> n, pad |-> pad, end |-> end]
Headers(i, status, fin, end) ==
    [typ |-> "HEADERS", sid |-> i, status |-> status, fin |-> fin, end |-> end]
Continuation(i, status) == [typ |-> "CONTINUATION", sid |-> i, status |-> status]
WindowUpdate(i, n) == [typ |-> "WINDOW_UPDATE", sid |-> i, n |-> n]
Reset(i) == [typ |-> "RST_STREAM", sid |-> i]
Settings(w) == [typ |-> "SETTINGS", n |-> w]
Plain(t) == [typ |-> t]

\* The bytes a DATA frame takes from the windows: padding counts.
Size(f) == f.n + f.pad

\* Stream::default() with the send window of a new request.
NewStream(window) ==
    [status |-> 0, body |-> 0, end_stream |-> FALSE, reset |-> FALSE,
     send_window |-> window, recv_consumed |-> 0]

\* H2Conn::with_prefix: our SETTINGS and the credit that raises the window of
\* the connection to OUR_WINDOW are the first frames under way.
Init ==
    /\ pc = "idle" /\ cur = 0 /\ rest = 0
    /\ streams = [i \in Id |-> None]
    /\ next_stream_id = 1 /\ goaway = FALSE
    /\ conn_send_window = DEFAULT_WINDOW /\ conn_recv_consumed = 0
    /\ peer_initial_window = DEFAULT_WINDOW
    /\ c2s = <<Settings(OUR_WINDOW), WindowUpdate(0, OUR_WINDOW - DEFAULT_WINDOW)>>
    /\ s2c = <<>>
    /\ srv = [send |-> DEFAULT_WINDOW, recv |-> DEFAULT_WINDOW, owed |-> 0,
              stream_send |-> DEFAULT_WINDOW, stream_recv |-> DEFAULT_WINDOW,
              unacked |-> None, closing |-> FALSE]
    /\ srv_streams = [i \in Id |-> None]
    /\ mishaps = 0
    /\ given = 0 /\ whole = FALSE

-----------------------------------------------------------------------------
(* The calls of the client. *)

\* request: refused after GOAWAY, otherwise HEADERS, and send_body if there is
\* a body.
Request(len) ==
    /\ pc = "idle" /\ ~goaway /\ next_stream_id \in Id
    /\ len = IF next_stream_id = NRequests THEN RequestSize ELSE 0
    /\ cur' = next_stream_id
    /\ next_stream_id' = next_stream_id + 1
    /\ streams' = [streams EXCEPT ![next_stream_id] = NewStream(peer_initial_window)]
    /\ c2s' = Append(c2s, Headers(next_stream_id, 0, TRUE, len = 0))
    /\ rest' = len
    /\ pc' = IF len = 0 THEN "status" ELSE "sending"
    /\ given' = 0 /\ whole' = FALSE
    /\ UNCHANGED <<goaway, conn_send_window, conn_recv_consumed, peer_initial_window,
                   s2c, serverVars, mishaps>>

\* What send_body may send now.
Allowed == Max({0, Min({streams[cur].send_window, conn_send_window})})

\* send_body: one DATA frame, the last one ends the stream.
SendData ==
    /\ pc = "sending" /\ Allowed > 0
    /\ LET n == Min({rest, Allowed, MAX_FRAME_SIZE}) IN
         /\ c2s' = Append(c2s, Data(cur, n, 0, n = rest))
         /\ rest' = rest - n
         /\ conn_send_window' = conn_send_window - n
         /\ streams' = [streams EXCEPT ![cur].send_window = @ - n]
         /\ pc' = IF n = rest THEN "status" ELSE pc
    /\ UNCHANGED <<cur, next_stream_id, goaway, conn_recv_consumed,
                   peer_initial_window, s2c, serverVars, mishaps, given, whole>>

\* A call that returns; the windows stay as they are.
Return(p) ==
    /\ pc' = p
    /\ UNCHANGED <<cur, rest, next_stream_id, goaway, conn_send_window,
                   conn_recv_consumed, peer_initial_window, c2s, s2c, serverVars>>

HasStatus == streams[cur].status # 0

\* response_status: the caller goes on to the body.
StatusReady ==
    /\ pc = "status" /\ ~streams[cur].reset /\ HasStatus
    /\ Return("body")
    /\ UNCHANGED <<streams, mishaps, given, whole>>

\* response_status: reset, ended without headers, or GOAWAY.
StatusFails ==
    /\ pc = "status"
    /\ \/ streams[cur].reset
       \/ ~HasStatus /\ (streams[cur].end_stream \/ goaway)
    /\ Return("idle")
    /\ UNCHANGED <<streams, mishaps, given, whole>>

\* read_body: what has arrived is handed over before anything else is said.
ReadBody ==
    /\ pc = "body" /\ streams[cur].body > 0
    /\ given' = given + streams[cur].body
    /\ streams' = [streams EXCEPT ![cur].body = 0]
    /\ Return("body")
    /\ UNCHANGED <<mishaps, whole>>

\* Mutant: read_body looks for the end of the stream before it hands over the body.
EndsFirst ==
    /\ pc = "body" /\ ~streams[cur].reset /\ streams[cur].end_stream
    /\ whole' = TRUE
    /\ streams' = [streams EXCEPT ![cur] = None]
    /\ Return("idle")
    /\ UNCHANGED <<mishaps, given>>

\* read_body returns None; read_full_body removes the stream.
BodyEnds ==
    /\ pc = "body" /\ streams[cur].body = 0
    /\ ~streams[cur].reset /\ streams[cur].end_stream
    /\ whole' = TRUE
    /\ streams' = [streams EXCEPT ![cur] = None]
    /\ Return("idle")
    /\ UNCHANGED <<mishaps, given>>

\* read_body: reset or GOAWAY.
BodyFails ==
    /\ pc = "body" /\ streams[cur].body = 0
    /\ streams[cur].reset \/ (~streams[cur].end_stream /\ goaway)
    /\ Return("idle")
    /\ UNCHANGED <<streams, mishaps, given, whole>>

Mishap == mishaps < MaxMishaps /\ mishaps' = mishaps + 1

\* read_full_body: the body exceeds its maximum, the stream stays behind; or
\* forget_stream.
Abandon(forget) ==
    /\ pc = "body" /\ given > 0 /\ Mishap
    /\ streams' = IF forget THEN [streams EXCEPT ![cur] = None] ELSE streams
    /\ Return("idle")
    /\ UNCHANGED <<given, whole>>

\* A call has nothing to say yet and reads a frame.
Waiting ==
    \/ pc = "sending" /\ Allowed = 0
    \/ /\ pc = "status" /\ ~streams[cur].reset /\ ~HasStatus
       /\ ~streams[cur].end_stream /\ ~goaway
    \/ /\ pc = "body" /\ streams[cur].body = 0 /\ ~streams[cur].reset
       /\ ~streams[cur].end_stream /\ ~goaway

\* process_one times out.  A server that is closing may say nothing more.
TimesOut ==
    /\ Waiting /\ s2c = <<>>
    /\ Mishap \/ (srv.closing /\ UNCHANGED mishaps)
    /\ Return("idle")
    /\ UNCHANGED <<streams, given, whole>>

-----------------------------------------------------------------------------
(* handle_frame *)

IsKnown(i) == i \in Id /\ streams[i] # None

\* Mutant: the credit is the threshold, not what was consumed.
CreditsThreshold(consumed) ==
    IF consumed >= WINDOW_UPDATE_THRESHOLD
      THEN <<WindowUpdate(0, WINDOW_UPDATE_THRESHOLD)>> ELSE <<>>

\* maybe_window_update: the credits due after a DATA frame, with the stream as
\* it is then.
ConnUpdate(consumed) ==
    IF consumed >= WINDOW_UPDATE_THRESHOLD THEN <<WindowUpdate(0, consumed)>> ELSE <<>>
StreamUpdateDue(s) == s.recv_consumed >= WINDOW_UPDATE_THRESHOLD /\ ~s.end_stream

\* DATA of an unknown stream counts for the connection only.
HandleData(f) ==
    LET consumed == conn_recv_consumed + Size(f)
        s == [streams[f.sid] EXCEPT !.body = @ + f.n,
                                    !.end_stream = @ \/ f.end,
                                    !.recv_consumed = @ + Size(f)]
        credit == IF IsKnown(f.sid) /\ StreamUpdateDue(s)
                    THEN <<WindowUpdate(f.sid, s.recv_consumed)>>
                    ELSE <<>>
    IN /\ conn_recv_consumed' = IF consumed >= WINDOW_UPDATE_THRESHOLD THEN 0 ELSE consumed
       /\ streams' = IF IsKnown(f.sid)
                       THEN [streams EXCEPT ![f.sid] =
                               IF StreamUpdateDue(s) THEN [s EXCEPT !.recv_consumed = 0] ELSE s]
                       ELSE streams
       /\ c2s' = c2s \o ConnUpdate(consumed) \o credit
       /\ UNCHANGED <<goaway, conn_send_window, peer_initial_window>>

\* entry(sid).or_default(): headers make an unknown stream known again.
StreamOf(i) == IF IsKnown(i) THEN streams[i] ELSE NewStream(0)

\* finish_headers: a final status replaces an informational one, and trailers
\* (no status) replace nothing.
Finished(s, status) ==
    [s EXCEPT !.status = IF status >= 200 \/ (s.status = 0 /\ status # 0) THEN status ELSE @]

\* HEADERS: END_STREAM counts at once, the block when it is complete.
HandleHeaders(f) ==
    LET s == [StreamOf(f.sid) EXCEPT !.end_stream = @ \/ f.end] IN
    /\ streams' = [streams EXCEPT ![f.sid] =
                     IF f.fin THEN Finished(s, f.status) ELSE s]
    /\ UNCHANGED <<goaway, conn_send_window, conn_recv_consumed, peer_initial_window, c2s>>

HandleContinuation(f) ==
    /\ streams' = [streams EXCEPT ![f.sid] = Finished(StreamOf(f.sid), f.status)]
    /\ UNCHANGED <<goaway, conn_send_window, conn_recv_consumed, peer_initial_window, c2s>>

HandleReset(f) ==
    /\ streams' = IF IsKnown(f.sid) THEN [streams EXCEPT ![f.sid].reset = TRUE] ELSE streams
    /\ UNCHANGED <<goaway, conn_send_window, conn_recv_consumed, peer_initial_window, c2s>>

\* Mutant: the new initial window is for new streams only.
SettingsForNew(f) ==
    /\ peer_initial_window' = f.n
    /\ c2s' = Append(c2s, Plain("SETTINGS_ACK"))
    /\ UNCHANGED <<streams, goaway, conn_send_window, conn_recv_consumed>>

\* SETTINGS: every open stream moves by the difference, also below zero.
HandleSettings(f) ==
    /\ peer_initial_window' = f.n
    /\ streams' = [i \in Id |->
                     IF streams[i] = None
                       THEN None
                       ELSE [streams[i] EXCEPT !.send_window = @ + (f.n - peer_initial_window)]]
    /\ c2s' = Append(c2s, Plain("SETTINGS_ACK"))
    /\ UNCHANGED <<goaway, conn_send_window, conn_recv_consumed>>

HandlePing ==
    /\ c2s' = Append(c2s, Plain("PING_ACK"))
    /\ UNCHANGED <<streams, goaway, conn_send_window, conn_recv_consumed, peer_initial_window>>

HandleGoaway ==
    /\ goaway' = TRUE
    /\ UNCHANGED <<streams, conn_send_window, conn_recv_consumed, peer_initial_window, c2s>>

\* Mutant: the credit of the connection is taken for that of a stream.
CreditsStreamsOnly(f) ==
    /\ streams' = IF IsKnown(f.sid)
                    THEN [streams EXCEPT ![f.sid].send_window = @ + f.n]
                    ELSE streams
    /\ UNCHANGED <<goaway, conn_send_window, conn_recv_consumed, peer_initial_window, c2s>>

HandleWindowUpdate(f) ==
    /\ conn_send_window' = IF f.sid = 0 THEN conn_send_window + f.n ELSE conn_send_window
    /\ streams' = IF IsKnown(f.sid)
                    THEN [streams EXCEPT ![f.sid].send_window = @ + f.n]
                    ELSE streams
    /\ UNCHANGED <<goaway, conn_recv_consumed, peer_initial_window, c2s>>

HandleFrame(f) ==
    \/ f.typ = "DATA" /\ HandleData(f)
    \/ f.typ = "HEADERS" /\ HandleHeaders(f)
    \/ f.typ = "CONTINUATION" /\ HandleContinuation(f)
    \/ f.typ = "RST_STREAM" /\ HandleReset(f)
    \/ f.typ = "SETTINGS" /\ HandleSettings(f)
    \/ f.typ = "PING" /\ HandlePing
    \/ f.typ = "GOAWAY" /\ HandleGoaway
    \/ f.typ = "WINDOW_UPDATE" /\ HandleWindowUpdate(f)

\* process_one on the next frame.  send_body looks for a reset after it, and
\* for nothing else.
ProcessOne ==
    /\ Waiting /\ s2c # <<>> /\ Head(s2c).typ # "PUSH_PROMISE"
    /\ HandleFrame(Head(s2c))
    /\ s2c' = Tail(s2c)
    /\ pc' = IF pc = "sending" /\ streams'[cur].reset THEN "idle" ELSE pc
    /\ UNCHANGED <<cur, rest, next_stream_id, serverVars, mishaps, given, whole>>

Fails ==
    /\ pc' = "failed"
    /\ UNCHANGED <<cur, rest, streams, next_stream_id, goaway, conn_send_window,
                   conn_recv_consumed, peer_initial_window, c2s, s2c, serverVars,
                   mishaps, given, whole>>

\* A frame that handle_frame does not accept ends the connection.
BadFrame == Waiting /\ s2c # <<>> /\ Head(s2c).typ = "PUSH_PROMISE" /\ Fails

\* process_one reads the end of the transport.
TransportEnds == Waiting /\ s2c = <<>> /\ Fails

-----------------------------------------------------------------------------
(* The server, as RFC 9113 has it: external. *)

\* Nothing comes between HEADERS and its CONTINUATION.
ServerSend(f) ==
    /\ pc # "failed" /\ Len(s2c) < MaxFlight
    /\ f.typ # "CONTINUATION"
         => \A i \in Id : srv_streams[i] # None => srv_streams[i].headers # "part"
    /\ s2c' = Append(s2c, f)

\* Streams of the server that it has not ended or reset.
Open(i) == srv_streams[i] # None /\ ~srv_streams[i].ended

\* The server takes the next frame of the client.  A new limit for request
\* bodies holds from its acknowledgement on.
ServerReceives ==
    /\ pc # "failed" /\ c2s # <<>>
    /\ c2s' = Tail(c2s)
    /\ LET f == Head(c2s) IN
         \/ /\ f.typ = "SETTINGS"
            /\ srv' = [srv EXCEPT !.stream_send = f.n]
            /\ UNCHANGED srv_streams
         \/ /\ f.typ = "HEADERS"
            /\ srv_streams' = [srv_streams EXCEPT ![f.sid] =
                 [send |-> srv.stream_send, recv |-> srv.stream_recv, owed |-> 0,
                  headers |-> "none", left |-> ResponseSize, ended |-> srv.closing]]
            /\ UNCHANGED srv
         \/ /\ f.typ = "DATA"
            /\ srv' = [srv EXCEPT !.recv = @ - f.n, !.owed = @ + f.n]
            /\ srv_streams' = [srv_streams EXCEPT ![f.sid].recv = @ - f.n,
                                                  ![f.sid].owed = @ + f.n]
         \/ /\ f.typ = "WINDOW_UPDATE" /\ f.sid = 0
            /\ srv' = [srv EXCEPT !.send = @ + f.n]
            /\ UNCHANGED srv_streams
         \/ /\ f.typ = "WINDOW_UPDATE" /\ f.sid # 0
            /\ srv_streams' = [srv_streams EXCEPT ![f.sid].send = @ + f.n]
            /\ UNCHANGED srv
         \/ /\ f.typ = "SETTINGS_ACK"
            /\ srv' = [srv EXCEPT !.stream_recv = srv.unacked, !.unacked = None]
            /\ srv_streams' = [i \in Id |->
                 IF srv_streams[i] = None
                   THEN None
                   ELSE [srv_streams[i] EXCEPT !.recv = @ + (srv.unacked - srv.stream_recv)]]
         \/ /\ f.typ = "PING_ACK"
            /\ UNCHANGED <<srv, srv_streams>>
    /\ UNCHANGED <<clientVars, s2c, mishaps, given, whole>>

ServerUnchanged == UNCHANGED <<clientVars, c2s, given, whole>>

\* The server credits what it has taken of the request bodies.
ServerCredits ==
    \/ /\ srv.owed > 0
       /\ ServerSend(WindowUpdate(0, srv.owed))
       /\ srv' = [srv EXCEPT !.recv = @ + srv.owed, !.owed = 0]
       /\ UNCHANGED <<srv_streams, mishaps>> /\ ServerUnchanged
    \/ \E i \in Id :
         /\ srv_streams[i] # None /\ srv_streams[i].owed > 0
         /\ ServerSend(WindowUpdate(i, srv_streams[i].owed))
         /\ srv_streams' = [srv_streams EXCEPT ![i].recv = @ + srv_streams[i].owed,
                                               ![i].owed = 0]
         /\ UNCHANGED <<srv, mishaps>> /\ ServerUnchanged

\* The response: headers, in one frame or two, then the body.  To bound the
\* interleavings a response waits for the one before it, unless that one has
\* run out of its window.
Blocked(i) == srv_streams[i].left > 0 /\ srv_streams[i].send = 0
Turn(i) == Open(i) /\ \A j \in 1 .. i - 1 : Open(j) => Blocked(j)

ServerHeaders(i) ==
    /\ \/ /\ Turn(i) /\ srv_streams[i].headers = "none"
          /\ \E fin, end \in BOOLEAN :
               /\ ServerSend(Headers(i, IF fin THEN 200 ELSE 0, fin, end))
               /\ srv_streams' = [srv_streams EXCEPT ![i].headers = IF fin THEN "all" ELSE "part",
                                                     ![i].ended = end]
       \/ /\ srv_streams[i] # None /\ srv_streams[i].headers = "part"
          /\ ServerSend(Continuation(i, 200))
          /\ srv_streams' = [srv_streams EXCEPT ![i].headers = "all"]
    /\ UNCHANGED <<srv, mishaps>> /\ ServerUnchanged

ServerData(i) ==
    /\ Turn(i) /\ srv_streams[i].headers = "all" /\ srv_streams[i].left > 0
    /\ \E n \in 1 .. MAX_FRAME_SIZE, pad \in 0 .. 1 :
         /\ n <= srv_streams[i].left
         /\ n + pad <= Min({MAX_FRAME_SIZE, srv.send, srv_streams[i].send})
         /\ \E end \in {FALSE, n = srv_streams[i].left} :
              /\ ServerSend(Data(i, n, pad, end))
              /\ srv_streams' = [srv_streams EXCEPT ![i].left = @ - n,
                                                    ![i].send = @ - (n + pad),
                                                    ![i].ended = end]
         /\ srv' = [srv EXCEPT !.send = @ - (n + pad)]
    /\ UNCHANGED mishaps /\ ServerUnchanged

\* Trailers end a stream whose last DATA frame did not.
ServerTrailers(i) ==
    /\ Turn(i) /\ srv_streams[i].headers = "all" /\ srv_streams[i].left = 0
    /\ ServerSend(Headers(i, 0, TRUE, TRUE))
    /\ srv_streams' = [srv_streams EXCEPT ![i].ended = TRUE]
    /\ UNCHANGED <<srv, mishaps>> /\ ServerUnchanged

\* Frames no request asked for.
ServerExtra ==
    /\ Mishap
    /\ \/ /\ srv.unacked = None
          /\ \E w \in InitialWindows \ {srv.stream_recv} :
               /\ ServerSend(Settings(w))
               /\ srv' = [srv EXCEPT !.unacked = w]
          /\ UNCHANGED srv_streams
       \/ /\ ~srv.closing /\ ServerSend(Plain("GOAWAY"))
          /\ srv' = [srv EXCEPT !.closing = TRUE]
          /\ UNCHANGED srv_streams
       \/ /\ \E t \in {"PING", "PUSH_PROMISE"} : ServerSend(Plain(t))
          /\ UNCHANGED <<srv, srv_streams>>
       \/ \E i \in Id :
            /\ Open(i)
            /\ \/ /\ srv_streams[i].headers = "none"
                  /\ ServerSend(Headers(i, 103, TRUE, FALSE))
                  /\ UNCHANGED srv_streams
               \/ /\ ServerSend(Reset(i))
                  /\ srv_streams' = [srv_streams EXCEPT ![i].ended = TRUE]
            /\ UNCHANGED srv
    /\ ServerUnchanged

ServerStep ==
    \/ ServerCredits
    \/ \E i \in Id : ServerHeaders(i) \/ ServerData(i) \/ ServerTrailers(i)

Client ==
    \/ SendData \/ StatusReady \/ StatusFails \/ ReadBody \/ BodyEnds \/ BodyFails
    \/ ProcessOne \/ BadFrame \/ TimesOut

Next ==
    \/ \E len \in {0, RequestSize} : Request(len)
    \/ Client
    \/ \E forget \in BOOLEAN : Abandon(forget)
    \/ TransportEnds
    \/ ServerReceives \/ ServerStep \/ ServerExtra

\* The client's thread goes on: a read that brings nothing times out.  The
\* server reads what it is sent, answers and gives credit.
Fairness ==
    /\ WF_vars(Client)
    /\ WF_vars(ServerReceives)
    /\ WF_vars(ServerStep)

Spec == Init /\ [][Next]_vars /\ Fairness

-----------------------------------------------------------------------------
(* Properties *)

Sum(chan, P(_), size(_)) ==
    FoldLeft(LAMBDA n, f : IF P(f) THEN n + size(f) ELSE n, 0, chan)

DataOf(chan, i) == Sum(chan, LAMBDA f : f.typ = "DATA" /\ (i = 0 \/ f.sid = i), Size)
CreditOf(chan, i) ==
    Sum(chan, LAMBDA f : f.typ = "WINDOW_UPDATE" /\ f.sid = i, LAMBDA f : f.n)

\* handle_frame and maybe_window_update lose no window: what the server may still
\* send, what is under way, what the client has not credited yet and the credits
\* under way make up OUR_WINDOW, for the connection whatever became of its
\* streams, and for each stream until its end has arrived.
RecvWindowsExact ==
    /\ srv.send + DataOf(s2c, 0) + conn_recv_consumed + CreditOf(c2s, 0) = OUR_WINDOW
    /\ \A i \in Id :
         (srv_streams[i] # None /\ streams[i] # None /\ ~streams[i].end_stream
            /\ i >= cur)
           => srv_streams[i].send + DataOf(s2c, i) + streams[i].recv_consumed
                + CreditOf(c2s, i) = OUR_WINDOW

\* send_body spends exactly what the server granted: its windows and the server's
\* differ by what is under way, also while a SETTINGS frame that shrinks the
\* windows of open streams crosses DATA frames sent under the old one.
SendWindowsExact ==
    /\ conn_send_window + DataOf(c2s, 0) + CreditOf(s2c, 0) = srv.recv
    /\ \A i \in Id :
         (srv_streams[i] # None /\ streams[i] # None /\ i >= cur)
           => streams[i].send_window + DataOf(c2s, i) + CreditOf(s2c, i)
                = srv_streams[i].recv
                    + (IF \E k \in DOMAIN c2s : c2s[k].typ = "SETTINGS_ACK"
                         THEN srv.unacked - srv.stream_recv ELSE 0)

\* read_body says None only after the server has ended the response and every
\* byte of it was handed over.
ResponseWhole ==
    whole => srv_streams[cur].ended /\ given = ResponseSize - srv_streams[cur].left

\* finish_headers: "Ignore 1xx informational responses."  (h2.rs:548)
InformationalIgnored ==
    pc = "body" => streams[cur].status >= 200

\* Every call returns: a request whose body is larger than the windows, and a
\* response that is larger than OUR_WINDOW.
CallsEnd == (pc \in {"sending", "status", "body"}) ~> (pc \in {"idle", "failed"})
=============================================================================
