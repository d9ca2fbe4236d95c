--------------------------- MODULE TerminalSession ---------------------------
(***************************************************************************)
(* One terminal: the client process (`service --terminal`, TerminalClient) *)
(* and the Terminal the service is given for it (TerminalServer,           *)
(* TerminalPrivate, Terminal), at the two ends of a local socket.          *)
(*                                                                         *)
(* The socket carries bytes, in order, and hands them over in chunks of    *)
(* any size: `up` and `down` are in flight, `sbuf` and `cbuf` are what the *)
(* sockets' buffers hold.  Each end is one thread with an event loop.      *)
(* The modes without requests (ReadOnly, WriteOnly, ReadWritePassive)      *)
(* differ only in which calls are open; "passive" stands for them.         *)
(***************************************************************************)
EXTENDS TerminalFraming

CONSTANTS Modes,     \* modes the client may ask for
          Args,      \* its arguments
          Input,     \* what the user types
          Text,      \* what the service writes
          Newline,   \* the byte that ends a line
          Requests,  \* request types the service uses
          Num,       \* the argument of its requestChars
          MaxOps     \* bound: bytes written and requests made by the service

ASSUME TypesAssumption == /\ Modes \subseteq {"active", "passive"}
                          /\ Requests \subseteq RequestTypes
                          /\ Num \in 1..255 /\ MaxOps \in Nat
                          /\ {Args, Input, Text} \subseteq Seq(0..255)

\* What TerminalFraming can count in one byte.
ASSUME SizesAssumption == Len(Args) < 256 /\ Len(Text) < 256

VARIABLES
    mode,      \* TerminalClient::_mode
    cstate,    \* the client: "connecting", "open", "loop" (in socketReady), "closed"
    cause,     \* why: "none", "disconnected", "broken" (write failed), "quit", "error"
    typing,    \* what the user is still to type
    stdin,     \* typed, and not yet read by the client
    stdout,    \* what the client has printed
    cbuf, posted,  \* its socket's buffer; a call of socketReady is queued
    up, down,  \* bytes in flight to the service and to the client
    sstate,    \* the terminal: "loading" (or not accepted yet), "open", "gone"
    sbuf,      \* its socket's buffer
    await,     \* the request type of the awaitable that waits for input, or 0
    presented, \* the mode and command the service was given, once it was
    received,  \* history: what the service has read
    written,   \* history: what the service has written
    asked,     \* history: how many requests the service has made
    answered   \* history: how many the client has answered

clientVars == <<cstate, cause, typing, stdin, stdout, cbuf, posted, answered>>
serviceVars == <<sstate, sbuf, await, presented, received, written, asked>>
vars == <<mode, clientVars, up, down, serviceVars>>

ModeCode == [active |-> 3, passive |-> 2]   \* Service::TerminalMode

TypeOK == /\ mode \in Modes
          /\ cstate \in {"connecting", "open", "loop", "closed"}
          /\ cause \in {"none", "disconnected", "broken", "quit", "error"}
          /\ posted \in BOOLEAN
          /\ sstate \in {"loading", "open", "gone"}
          /\ await \in Requests \cup {0}
          /\ \A s \in {typing, stdin, stdout, cbuf, up, down, sbuf, received, written} :
                s \in Seq(0..255)
          /\ asked \in 0..MaxOps /\ answered \in 0..MaxOps

Init == /\ mode \in Modes
        /\ cstate = "connecting" /\ cause = "none"
        /\ typing = Input /\ stdin = <<>> /\ stdout = <<>>
        /\ cbuf = <<>> /\ posted = FALSE
        /\ up = <<>> /\ down = <<>>
        /\ sstate = "loading" /\ sbuf = <<>> /\ await = 0
        /\ presented = <<>>
        /\ received = <<>> /\ written = <<>>
        /\ asked = 0 /\ answered = 0

-----------------------------------------------------------------------------
(* The user and the client process                                          *)

Type == /\ typing # <<>>
        /\ stdin' = Append(stdin, Head(typing)) /\ typing' = Tail(typing)
        /\ UNCHANGED <<mode, cstate, cause, stdout, cbuf, posted, answered,
                       up, down, serviceVars>>

\* connected(): the handshake is written, in the passive mode followed at once
\* by whatever is on stdin.
Connected ==
    /\ cstate = "connecting"
    /\ cstate' = "open"
    /\ IF mode = "passive"
       THEN up' = Handshake(ModeCode[mode], Args) \o stdin /\ stdin' = <<>>
       ELSE up' = Handshake(ModeCode[mode], Args) /\ UNCHANGED stdin
    /\ UNCHANGED <<mode, cause, typing, stdout, cbuf, posted, answered, down,
                   serviceVars>>

\* The connection is refused, or the console cannot be opened.
ConnectFails ==
    /\ cstate = "connecting"
    /\ cstate' = "closed" /\ cause' = "error"
    /\ UNCHANGED <<mode, typing, stdin, stdout, cbuf, posted, answered, up, down,
                   serviceVars>>

ConsoleReadyInAllModes ==
    /\ cstate = "open" /\ stdin # <<>>
    /\ up' = up \o stdin /\ stdin' = <<>>
    /\ UNCHANGED <<mode, cstate, cause, typing, stdout, cbuf, posted, answered,
                   down, serviceVars>>

\* consoleReady(), connected in the passive mode only.
ConsoleReady ==
    /\ cstate = "open" /\ mode = "passive" /\ stdin # <<>>
    /\ up' = up \o stdin /\ stdin' = <<>>
    /\ UNCHANGED <<mode, cstate, cause, typing, stdout, cbuf, posted, answered,
                   down, serviceVars>>

\* The client's socket reads what has arrived; socketReady is connected queued.
ClientArrive ==
    /\ cstate = "open"
    /\ \E n \in 1..Len(down) :
          cbuf' = cbuf \o SubSeq(down, 1, n) /\ down' = Drop(down, n)
    /\ posted' = TRUE
    /\ UNCHANGED <<mode, cstate, cause, typing, stdin, stdout, answered, up,
                   serviceVars>>

SocketReadyUnframed ==
    /\ cstate = "open" /\ posted
    /\ posted' = FALSE
    /\ stdout' = stdout \o cbuf /\ cbuf' = <<>>
    /\ UNCHANGED <<mode, cstate, cause, typing, stdin, answered, up, down, serviceVars>>

\* socketReady(): in the passive mode everything goes to stdout.
SocketReady ==
    /\ cstate = "open" /\ posted
    /\ posted' = FALSE
    /\ IF mode = "passive"
       THEN stdout' = stdout \o cbuf /\ cbuf' = <<>> /\ UNCHANGED cstate
       ELSE cstate' = "loop" /\ UNCHANGED <<stdout, cbuf>>
    /\ UNCHANGED <<mode, cause, typing, stdin, answered, up, down, serviceVars>>

\* In the active mode it loops over the frames.  A frame of data:
LoopData ==
    /\ cstate = "loop" /\ FrameSize(cbuf) > 0 /\ ~IsRequest(cbuf)
    /\ stdout' = stdout \o SubSeq(cbuf, 6, FrameSize(cbuf))
    /\ cbuf' = Drop(cbuf, FrameSize(cbuf))
    /\ UNCHANGED <<mode, cstate, cause, typing, stdin, posted, answered, up, down,
                   serviceVars>>

LineEnd(s) == {n \in DOMAIN s : s[n] = Newline /\ \A i \in 1..(n - 1) : s[i] # Newline}

\* How much of stdin a request takes, as far as it can be served now: reading
\* blocks the whole client until then.
Takes(s) ==
    IF RequestType(s) = LineRequest
    THEN LineEnd(stdin)
    ELSE IF RequestNum(s) = 0 THEN {0}
    ELSE {n \in DOMAIN stdin : n <= RequestNum(s)}

\* A request: the input is read synchronously and sent back; nothing is sent
\* when nothing was read.  `rest` is what is left in the buffer, `next` what the
\* client does then.
Serve(rest, next) ==
    /\ cstate = "loop" /\ FrameSize(cbuf) > 0 /\ IsRequest(cbuf)
    /\ cbuf' = rest
    /\ cstate' = next
    /\ \E n \in Takes(cbuf) :
          /\ up' = up \o SubSeq(stdin, 1, n)
          /\ stdin' = Drop(stdin, n)
          /\ answered' = IF n > 0 THEN answered + 1 ELSE answered
    /\ UNCHANGED <<mode, cause, typing, stdout, posted, down, serviceVars>>

LoopRequestRollsBack == Serve(cbuf, "loop")
LoopRequestLeavesLoop == Serve(Drop(cbuf, FrameSize(cbuf)), "open")

LoopRequest == Serve(Drop(cbuf, FrameSize(cbuf)), "loop")

\* Input that is sent to a service that has disconnected may break the socket:
\* the client then exits, and what it had not read yet is lost.
SendFails ==
    /\ sstate = "gone"
    /\ \/ cstate = "open" /\ mode = "passive" /\ stdin # <<>>
       \/ /\ cstate = "loop" /\ FrameSize(cbuf) > 0 /\ IsRequest(cbuf)
          /\ \E n \in Takes(cbuf) : n > 0
    /\ cstate' = "closed" /\ cause' = "broken"
    /\ UNCHANGED <<mode, typing, stdin, stdout, cbuf, posted, answered, up, down,
                   serviceVars>>

\* The buffer is empty, or its last frame is not complete yet.
LoopEnd ==
    /\ cstate = "loop" /\ FrameSize(cbuf) = 0
    /\ cstate' = "open"
    /\ UNCHANGED <<mode, cause, typing, stdin, stdout, cbuf, posted, answered, up,
                   down, serviceVars>>

DisconnectedAtOnce ==
    /\ cstate = "open" /\ sstate = "gone" /\ down = <<>>
    /\ cstate' = "closed" /\ cause' = "disconnected"
    /\ UNCHANGED <<mode, typing, stdin, stdout, cbuf, posted, answered, up, down,
                   serviceVars>>

\* disconnected(): the service has closed, and the socket has been read to its
\* end.  A queued socketReady comes first: it was posted in an earlier iteration.
Disconnected ==
    /\ cstate = "open" /\ sstate = "gone" /\ down = <<>> /\ ~posted
    /\ cstate' = "closed" /\ cause' = "disconnected"
    /\ UNCHANGED <<mode, typing, stdin, stdout, cbuf, posted, answered, up, down,
                   serviceVars>>

\* A signal, or the end of stdin, ends the client.
Quit ==
    /\ cstate \in {"connecting", "open"}
    /\ cstate' = "closed" /\ cause' = "quit"
    /\ UNCHANGED <<mode, typing, stdin, stdout, cbuf, posted, answered, up, down,
                   serviceVars>>

-----------------------------------------------------------------------------
(* The service                                                              *)

BehindHandshakeDropped(s) == <<>>

\* The handshake is read in a transaction of its own size.
BehindHandshake(s) == Drop(s, HandshakeSize(s))

\* How much the service reads of s: all there is, or what its awaitable waits
\* for, which leaves the buffer alone until it is complete.
Reads(s) ==
    IF await = 0 THEN {Len(s)}
    ELSE IF await = LineRequest THEN LineEnd(s)
    ELSE {n \in DOMAIN s : n = IF await = CharRequest THEN 1 ELSE Num}

\* The socket reads what has arrived and emits readyRead.  While loading,
\* TerminalPrivate::readyRead looks for the handshake; once it has it, the
\* Terminal is created and handed to the service.  The slots connected during
\* that emission are not called for it, so what came behind the handshake stays
\* in the buffer.  Later, the service's slot is called.
ServiceArrive ==
    /\ sstate # "gone"
    /\ \E n \in 1..Len(up) :
          /\ up' = Drop(up, n)
          /\ LET s == sbuf \o SubSeq(up, 1, n)
             IN  IF sstate = "open"
                 THEN /\ IF Reads(s) = {} THEN sbuf' = s /\ UNCHANGED <<received, await>>
                         ELSE \E r \in Reads(s) :
                                 /\ received' = received \o SubSeq(s, 1, r)
                                 /\ sbuf' = Drop(s, r) /\ await' = 0
                      /\ UNCHANGED <<sstate, presented>>
                 ELSE IF HandshakeSize(s) = 0
                 THEN sbuf' = s /\ UNCHANGED <<sstate, await, presented, received>>
                 ELSE /\ sstate' = "open"
                      /\ presented' = SubSeq(s, 1, HandshakeSize(s))
                      /\ sbuf' = BehindHandshake(s)
                      /\ UNCHANGED <<received, await>>
    /\ UNCHANGED <<mode, clientVars, down, written, asked>>

\* Terminal::write of what comes next in the text, so many bytes of it.
Write ==
    /\ sstate = "open"
    /\ \E n \in (Len(written) + 1)..Len(Text) :
          LET bytes == SubSeq(Text, Len(written) + 1, n)
          IN  /\ n + asked <= MaxOps
              /\ written' = written \o bytes
              /\ down' = down \o (IF mode = "active" THEN DataFrame(bytes) ELSE bytes)
    /\ UNCHANGED <<mode, clientVars, up, sstate, sbuf, await, presented, received, asked>>

\* Terminal::requestChar, requestChars, requestLine
Request(type) ==
    /\ sstate = "open" /\ mode = "active" /\ Len(written) + asked < MaxOps
    /\ asked' = asked + 1
    /\ down' = down \o RequestFrame(type, Num)
    /\ UNCHANGED <<mode, clientVars, up, sstate, sbuf, presented, received, written>>

\* Awaitable::prepare: the awaitable is connected to readyRead before it asks,
\* and does not look at what is in the buffer already.
Prepare(type) == await = 0 /\ await' = type /\ Request(type)

\* disconnectTerminal(): what was written is sent first, and the terminal is
\* auto-deleted.
DisconnectTerminal ==
    /\ sstate = "open"
    /\ sstate' = "gone"
    /\ UNCHANGED <<mode, clientVars, up, down, sbuf, await, presented, received, written,
                   asked>>

PeerGoneWhenOpen ==
    /\ sstate = "open" /\ cstate = "closed" /\ up = <<>>
    /\ sstate' = "gone"
    /\ UNCHANGED <<mode, clientVars, up, down, sbuf, await, presented, received, written,
                   asked>>

\* The client has gone: TerminalPrivate::disconnected.  A terminal that was
\* still loading is dropped, an open one is auto-deleted.
PeerGone ==
    /\ sstate # "gone" /\ cstate = "closed" /\ up = <<>>
    /\ sstate' = "gone"
    /\ UNCHANGED <<mode, clientVars, up, down, sbuf, await, presented, received, written,
                   asked>>

-----------------------------------------------------------------------------

Client == \/ Connected \/ ConnectFails \/ ConsoleReady \/ ClientArrive \/ SocketReady
          \/ LoopData \/ LoopRequest \/ LoopEnd \/ SendFails \/ Disconnected

Next == \/ Type \/ Client \/ Quit
        \/ ServiceArrive \/ Write \/ DisconnectTerminal \/ PeerGone
        \/ \E type \in Requests : (Request(type) /\ UNCHANGED await) \/ Prepare(type)

Spec == Init /\ [][Next]_vars

\* The user types, and both event loops run.  Nobody has to quit, and the
\* service need not write, ask or disconnect.
FairSpec == /\ Spec
            /\ WF_vars(Type)
            /\ WF_vars(Client)
            /\ WF_vars(ServiceArrive)
            /\ WF_vars(PeerGone)

-----------------------------------------------------------------------------
(* Properties                                                               *)

\* However the bytes are cut into chunks, what the client prints is what the
\* service wrote, in order: no request leaks into it, no frame is read twice.
OutputFaithful == IsPrefix(stdout, written)

\* No byte the user types is lost, duplicated or overtaken on its way: what the
\* service has read, what is in its buffer, on the wire and still to be sent add
\* up to the input, and the handshake is no part of it.
InputFaithful ==
    sstate = "open" => received \o sbuf \o up \o stdin \o typing = Input

\* The service is given the mode and the arguments the client started with, even
\* when they arrive in pieces.
HandshakeFaithful == sstate = "open" => presented = Handshake(ModeCode[mode], Args)

\* In the active mode the client takes input for the service's requests only:
\* each request is served at most once, and before the first one nothing is read.
InputOnDemand ==
    mode = "active" => /\ answered <= asked
                       /\ answered = 0 => stdin \o typing = Input

\* disconnectTerminal() "closes the network connection after flushing the
\* remaining data": a client that sees the end of the connection has printed
\* everything, although socketReady is connected queued and disconnected is not.
DisconnectFlushes == cause = "disconnected" => stdout = written

\* Every request is answered once the user has typed what it asks for, and an
\* awaitable is resumed, whatever was in the buffer before it asked.
Starved == cstate = "loop" /\ typing = <<>> /\ FrameSize(cbuf) > 0
              /\ IsRequest(cbuf) /\ Takes(cbuf) = {}

RequestsAnswered ==
    /\ \A k \in 1..MaxOps :
          asked >= k ~> answered >= k \/ cstate = "closed" \/ Starved
    /\ await # 0 ~> await = 0 \/ cstate = "closed" \/ Starved \/ sstate = "gone"

\* A terminal whose client has gone is deleted, in whatever state it was.
NoOrphanTerminal == cstate = "closed" ~> sstate = "gone"

-----------------------------------------------------------------------------
(* Statements of the sources that the code does not keep                    *)

\* terminal.dox:163: requestChars "will send a request to the client telling it
\* to read `num` bytes of data": the client that has read such a request has
\* read that number.
RequestNumArrives ==
    cstate = "loop" /\ FrameSize(cbuf) > 0 /\ IsRequest(cbuf)
       /\ RequestType(cbuf) = MultiCharRequest
    => RequestNum(cbuf) = Num

\* tst_terminalservice.cpp:48-51: what the user types in the passive mode reaches
\* the slot the service has connected to readyRead.
InputAnnounced == sstate = "open" /\ sbuf # <<>> ~> sbuf = <<>> \/ sstate = "gone"
=============================================================================
