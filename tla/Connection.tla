----------------------------- MODULE Connection -----------------------------
(* ServerNetworkConnection, ClientNetworkConnection and NetworkHelpers: the *)
(* length-prefixed messages on the TCP streams between the clients and the  *)
(* server, asio's pending operations, and the sockets they refer to.        *)
(*                                                                         *)
(* A stream is a sequence of cells. A message is a header of two cells (the *)
(* 32 characters of its length; the second cell holds the digits) and one   *)
(* cell per unit of its compressed text. Everything the asio thread of the  *)
(* server runs is one action per completion handler.                        *)
EXTENDS Integers, Sequences, FiniteSets, SequencesExt

CONSTANTS
  Client,        \* the clients, one connection each
  Length,        \* compressed size of a client's k-th message, by direction
  MaxSent,       \* bound on the messages of a client, by direction
  BufferSize,    \* ReceiveBuffer::data
  Pieces,        \* TCP may write and deliver less than was asked for
  Leaving        \* clients that may close their connection

Direction == {"up", "down"}     \* up: from a client to the server

LengthAssumption ==
  /\ MaxSent \in [Direction -> [Client -> Nat]]
  /\ \A d \in Direction, c \in Client : \A k \in 1..MaxSent[d][c] :
       Length[d][c][k] \in Nat \ {0}
FaultAssumption == Pieces \in BOOLEAN /\ Leaving \subseteq Client

VARIABLES
  \* both ends: messages sent, write operations under way, cells on the wire,
  \* and the messages whose handler ran
  sent, out, wire, handled,
  \* the server
  up,            \* the server program runs
  sockets,       \* m_sockets
  isOpen,        \* sockets that are open at the server
  awaiting,      \* sockets with a pending async_receive
  completed,     \* completion handlers asio still has to call, in order
  size,          \* m_buffer->size
  reading,       \* the blocking read of a payload
  \* the clients
  connection,    \* state of m_socket: "none", "backlog", "open" or "closed"
  received,      \* part of a header that async_read has collected
  expected,      \* length of the payload it reads, -1 while it awaits a header
  \* history
  overlapped,    \* directions of clients on which two writes were mixed
  split,         \* clients whose header the server took in parts
  overwritten,   \* the server's length was overwritten before its use
  misread,       \* directions of clients on which a wrong header was used
  dangling       \* destroyed sockets that a callback used

stream == <<sent, out, wire, handled>>
asio   == <<sockets, isOpen, awaiting, completed, size, reading>>
peer   == <<connection, received, expected>>
history == <<overlapped, split, overwritten, misread, dangling>>
vars   == <<stream, up, asio, peer, history>>

-----------------------------------------------------------------------------
(* Messages *)

NoCell == [c |-> "none", k |-> 0, i |-> 0]
NoRead == [c |-> "none", n |-> -1]
HeaderCells == 2

\* freeSendString: the length, at a fixed width, and the text.
Header(c, k) == [i \in 1..HeaderCells |-> [c |-> c, k |-> k, i |-> i]]
Payload(d, c, k) ==
  [i \in 1..Length[d][c][k] |-> [c |-> c, k |-> k, i |-> HeaderCells + i]]
Text(d, c, k) == Header(c, k) \o Payload(d, c, k)

LengthOfAny(d) ==
  UNION {{Length[d][c][k] : k \in 1..MaxSent[d][c]} : c \in Client}
Longest(d) == Max(LengthOfAny(d))

\* std::stoul of the header: the length for a whole header; what is left of
\* other cells may be any number or none at all, which throws (-1).
Stoul(d, header) ==
  IF \E c \in Client : \E k \in 1..MaxSent[d][c] : header = Header(c, k)
  THEN {Length[d][header[1].c][header[1].k]}
  ELSE -1 .. Longest(d)

\* Mutant: the text is not checked.
DecodeAnything(d, c, text) == IF text = <<>> THEN 0 ELSE text[1].k

\* decompress and the JSON parser take a whole message at the beginning of the
\* text and ignore what follows it; they throw (0) for anything else.
Decode(d, c, text) ==
  IF text # <<>> /\ text[1] \in {Payload(d, c, k)[1] : k \in 1..MaxSent[d][c]}
     /\ IsPrefix(Payload(d, c, text[1].k), text)
  THEN text[1].k ELSE 0

\* The message a direction has to deliver next.
Due(d, c) == IF handled[d][c] = <<>> THEN 1 ELSE Last(handled[d][c]) + 1

\* History: a header or a text that is not the one of the message due.
Misread(d, c, cells, whole) ==
  misread' = IF Due(d, c) <= MaxSent[d][c] /\ cells = whole
             THEN misread ELSE misread \cup {<<d, c>>}

\* Mutant: one unit of the text stays behind.
RestTooLong(cells, n) == SubSeq(cells, IF n = 0 THEN 1 ELSE n, Len(cells))

\* asio::read of a payload takes n units off the stream.
Rest(cells, n) == SubSeq(cells, n + 1, Len(cells))

-----------------------------------------------------------------------------
(* Writing *)

\* freeSendString starts an asynchronous write; the caller goes on.
Enqueue(d, cs, k) ==
  out' = [out EXCEPT ![d] =
    [c \in Client |-> IF c \in cs THEN Append(@[c], Text(d, c, k[c])) ELSE @[c]]]

Send(d, cs) ==
  /\ \A c \in cs : sent[d][c] < MaxSent[d][c]
  /\ Enqueue(d, cs, [c \in Client |-> sent[d][c] + 1])
  /\ sent' = [sent EXCEPT ![d] =
                [c \in Client |-> IF c \in cs THEN @[c] + 1 ELSE @[c]]]

\* The thread of asio is not inside a blocking read.
AsioFree(d, c) == IF d = "up" THEN expected[c] = -1 ELSE reading = NoRead

\* One async_write_some of the oldest operation; what is left of it continues
\* behind the operations that were started in the meantime. The thread that
\* starts an operation tries the first write, the thread of asio the others.
Write(d, c) ==
  /\ out[d][c] # <<>>
  /\ IF d = "up" THEN connection[c] \in {"backlog", "open"} ELSE up
  /\ AsioFree(d, c) \/ (Len(out[d][c]) = 1 /\ out[d][c][1][1].i = 1)
  /\ \E n \in IF Pieces THEN 1 .. Len(out[d][c][1]) ELSE {Len(out[d][c][1])} :
       LET op == out[d][c][1]
           rest == SubSeq(op, n + 1, Len(op))
       IN  /\ wire' = [wire EXCEPT ![d][c] = @ \o SubSeq(op, 1, n)]
           /\ out' = [out EXCEPT ![d][c] =
                        Tail(@) \o (IF rest = <<>> THEN <<>> ELSE <<rest>>)]
           /\ overlapped' = IF rest # <<>> /\ Len(out[d][c]) > 1
                            THEN overlapped \cup {<<d, c>>} ELSE overlapped
  /\ UNCHANGED <<sent, handled, up, asio, peer, split, overwritten, misread,
                 dangling>>

-----------------------------------------------------------------------------
(* The server *)

\* handleAccept: the socket is listed and its first length awaited.
HandleAccept(c) ==
  /\ up /\ reading = NoRead
  /\ connection[c] = "backlog"
  /\ connection' = [connection EXCEPT ![c] = "open"]
  /\ sockets' = Append(sockets, c)
  /\ isOpen' = isOpen \cup {c}
  /\ awaiting' = awaiting \cup {c}
  /\ UNCHANGED <<stream, up, completed, size, reading, received, expected,
                 history>>

\* asio receives into the one buffer of the server and lists the handler.
Receive(c) ==
  /\ up /\ reading = NoRead
  /\ c \in awaiting /\ wire["up"][c] # <<>>
  /\ \E n \in IF Pieces THEN 1 .. HeaderCells ELSE {HeaderCells} :
       /\ n <= Len(wire["up"][c])
       /\ size' = SubSeq(wire["up"][c], 1, n) \o SubSeq(size, n + 1, HeaderCells)
       /\ wire' = [wire EXCEPT !["up"][c] = SubSeq(@, n + 1, Len(@))]
       /\ split' = IF n < HeaderCells THEN split \cup {c} ELSE split
  /\ awaiting' = awaiting \ {c}
  /\ completed' = Append(completed, [c |-> c, what |-> "data"])
  /\ overwritten' = overwritten \cup {h.c : h \in
       {h \in ToSet(completed) : h.what = "data"}}
  /\ UNCHANGED <<sent, out, handled, up, sockets, isOpen, reading, peer,
                 overlapped, misread, dangling>>

\* The end of a stream, or its reset.
ReceiveEnd(c) ==
  /\ up /\ reading = NoRead
  /\ c \in awaiting /\ wire["up"][c] = <<>> /\ connection[c] = "closed"
  /\ awaiting' = awaiting \ {c}
  /\ completed' = Append(completed, [c |-> c, what |-> "error"])
  /\ UNCHANGED <<stream, up, sockets, isOpen, size, reading, peer, history>>

\* Mutant: the operation that failed completes a second time.
AbortedAgain(c) == <<[c |-> c, what |-> "error"]>>

\* socket.close(): the operations that are pending complete with an error.
Aborted(c) ==
  (IF c \in awaiting THEN <<[c |-> c, what |-> "error"]>> ELSE <<>>)
  \o [w \in 1..Len(out["down"][c]) |-> [c |-> c, what |-> "error"]]

Close(c, rest) ==
  /\ isOpen' = isOpen \ {c}
  /\ awaiting' = awaiting \ {c}
  /\ completed' = rest \o (IF c \in isOpen THEN Aborted(c) ELSE <<>>)
  /\ out' = [out EXCEPT !["down"][c] = <<>>]
  /\ wire' = [wire EXCEPT !["up"][c] = <<>>]

\* An exception leaves io_context::run() or the main loop: the program ends.
ServerEnds == up' = FALSE

\* A completion handler that got an error closes its socket, which update()
\* may have destroyed.
HandleError ==
  /\ up /\ reading = NoRead
  /\ completed # <<>> /\ Head(completed).what = "error"
  /\ LET c == Head(completed).c IN
       /\ Close(c, Tail(completed))
       /\ dangling' = IF c \in ToSet(sockets) THEN dangling ELSE dangling \cup {c}
  /\ UNCHANGED <<sent, handled, up, sockets, size, reading, peer, overlapped,
                 split, overwritten, misread>>

\* freeHandleReceive, up to the blocking read of the payload.
HandleReceive ==
  /\ up /\ reading = NoRead
  /\ completed # <<>> /\ Head(completed).what = "data"
  /\ completed' = Tail(completed)
  /\ LET c == Head(completed).c IN
       /\ \E n \in Stoul("up", size) :
            IF n = -1 \/ n > BufferSize THEN ServerEnds /\ UNCHANGED reading
            ELSE reading' = [c |-> c, n |-> n] /\ UNCHANGED up
       /\ Misread("up", c, size, Header(c, Due("up", c)))
  /\ UNCHANGED <<stream, sockets, isOpen, awaiting, size, peer, overlapped,
                 split, overwritten, dangling>>

\* Sockets that sendMessageToAll reaches: those before the first closed one.
Reached ==
  {sockets[i] : i \in {i \in 1..Len(sockets) :
                         \A j \in 1..i : sockets[j] \in isOpen}}

\* Mutant: the next message is not awaited.
AwaitNoMessage(c) == awaiting' = awaiting

AwaitNextMessage(c) == awaiting' = awaiting \cup {c}

\* The payload is there: the handler of the game runs, which may answer one
\* client or all of them, and the next length is awaited.
HandlePayload ==
  /\ up /\ reading # NoRead
  /\ LET c == reading.c
         text == SubSeq(wire["up"][c], 1, reading.n)
         k == Decode("up", c, text)
     IN  /\ Len(wire["up"][c]) >= reading.n
         /\ wire' = [wire EXCEPT !["up"][c] = Rest(@, reading.n)]
         /\ Misread("up", c, text, Payload("up", c, Due("up", c)))
         /\ \/ /\ k = 0 \/ connection[c] = "closed"
               /\ ServerEnds
               /\ UNCHANGED <<awaiting, handled, sent, out>>
            \/ /\ k # 0
               /\ handled' = [handled EXCEPT !["up"][c] = Append(@, k)]
               /\ AwaitNextMessage(c)
               /\ \/ UNCHANGED <<sent, out>>
                  \/ Send("down", {c})
                  \/ Send("down", Reached)
               /\ up' = up
  /\ reading' = NoRead
  /\ UNCHANGED <<sockets, isOpen, completed, size, peer, overlapped, split,
                 overwritten, dangling>>

\* The stream ends before the payload does.
HandleShortPayload ==
  /\ up /\ reading # NoRead
  /\ LET c == reading.c IN
       /\ connection[c] = "closed" /\ Len(wire["up"][c]) < reading.n
       /\ Close(c, completed)
  /\ reading' = NoRead
  /\ UNCHANGED <<sent, handled, up, sockets, size, peer, history>>

\* The results of a round, from the main thread.
SendMessageToAll ==
  /\ up /\ Reached # {}
  /\ Send("down", Reached)
  /\ UNCHANGED <<wire, handled, up, asio, peer, history>>

\* A write to a client that is gone.
WriteFails(c) ==
  /\ up /\ reading = NoRead
  /\ connection[c] = "closed" /\ out["down"][c] # <<>>
  /\ out' = [out EXCEPT !["down"][c] = Tail(@)]
  /\ completed' = Append(completed, [c |-> c, what |-> "error"])
  /\ UNCHANGED <<sent, wire, handled, up, sockets, isOpen, awaiting, size,
                 reading, peer, history>>

\* update() destroys the closed sockets.
Update ==
  /\ up
  /\ sockets' = SelectSeq(sockets, LAMBDA c : c \in isOpen)
  /\ sockets' # sockets
  /\ UNCHANGED <<stream, up, isOpen, awaiting, completed, size, reading, peer,
                 history>>

-----------------------------------------------------------------------------
(* The clients *)

\* establishConnection; a second attempt is discarded.
EstablishConnection(c) ==
  /\ connection[c] = "none" /\ up
  /\ connection' = [connection EXCEPT ![c] = "backlog"]
  /\ UNCHANGED <<stream, up, asio, received, expected, history>>

ClientSend(c) ==
  /\ connection[c] \in {"backlog", "open"}
  /\ Send("up", {c})
  /\ UNCHANGED <<wire, handled, up, asio, peer, history>>

\* async_read collects a whole header before it calls the handler.
ClientReceive(c) ==
  /\ connection[c] = "open" /\ expected[c] = -1
  /\ wire["down"][c] # <<>>
  /\ wire' = [wire EXCEPT !["down"][c] = Tail(@)]
  /\ LET header == Append(received[c], Head(wire["down"][c])) IN
       IF Len(header) < HeaderCells
       THEN /\ received' = [received EXCEPT ![c] = header]
            /\ UNCHANGED <<connection, expected, misread>>
       ELSE /\ received' = [received EXCEPT ![c] = <<>>]
            /\ Misread("down", c, header, Header(c, Due("down", c)))
            /\ \E n \in Stoul("down", header) :
                 IF n = -1 \/ n > BufferSize
                 THEN /\ connection' = [connection EXCEPT ![c] = "closed"]
                      /\ UNCHANGED expected
                 ELSE /\ expected' = [expected EXCEPT ![c] = n]
                      /\ UNCHANGED connection
  /\ UNCHANGED <<sent, out, handled, up, asio, overlapped, split, overwritten,
                 dangling>>

\* The blocking read of the payload, the handler of the game, the next await;
\* an exception ends the client.
ClientHandle(c) ==
  /\ connection[c] = "open" /\ expected[c] # -1
  /\ Len(wire["down"][c]) >= expected[c]
  /\ LET text == SubSeq(wire["down"][c], 1, expected[c])
         k == Decode("down", c, text)
     IN  /\ Misread("down", c, text, Payload("down", c, Due("down", c)))
         /\ IF k = 0
            THEN /\ connection' = [connection EXCEPT ![c] = "closed"]
                 /\ UNCHANGED handled
            ELSE /\ handled' = [handled EXCEPT !["down"][c] = Append(@, k)]
                 /\ UNCHANGED connection
  /\ wire' = [wire EXCEPT !["down"][c] = Rest(@, expected[c])]
  /\ expected' = [expected EXCEPT ![c] = -1]
  /\ UNCHANGED <<sent, out, up, asio, received, overlapped, split, overwritten,
                 dangling>>

\* The server closed the connection or ended: a read, of a length or of a
\* payload, fails, or a write does.
ClientDisconnected(c) ==
  /\ connection[c] \in {"backlog", "open"}
  /\ ~up \/ (connection[c] = "open" /\ c \notin isOpen)
  /\ wire["down"][c] = <<>> \/ Len(wire["down"][c]) < expected[c]
  /\ connection' = [connection EXCEPT ![c] = "closed"]
  /\ UNCHANGED <<stream, up, asio, received, expected, history>>

\* The destructor. What was written may still be on the wire.
ClientLeave(c) ==
  /\ c \in Leaving /\ connection[c] = "open"
  /\ connection' = [connection EXCEPT ![c] = "closed"]
  /\ UNCHANGED <<stream, up, asio, received, expected, history>>

-----------------------------------------------------------------------------
Init ==
  /\ sent = [d \in Direction |-> [c \in Client |-> 0]]
  /\ out = [d \in Direction |-> [c \in Client |-> <<>>]]
  /\ wire = out
  /\ handled = out
  /\ up = TRUE
  /\ sockets = <<>> /\ isOpen = {} /\ awaiting = {} /\ completed = <<>>
  /\ size = [i \in 1..HeaderCells |-> NoCell]
  /\ reading = NoRead
  /\ connection = [c \in Client |-> "none"]
  /\ received = [c \in Client |-> <<>>]
  /\ expected = [c \in Client |-> -1]
  /\ overlapped = {} /\ split = {} /\ overwritten = {} /\ misread = {}
  /\ dangling = {}

Server ==
  \/ HandleError \/ HandleReceive \/ HandlePayload \/ HandleShortPayload
  \/ Update
  \/ \E c \in Client : HandleAccept(c) \/ Receive(c) \/ ReceiveEnd(c)
                       \/ Write("down", c) \/ WriteFails(c)

Delivery(c) == ClientReceive(c) \/ ClientHandle(c) \/ ClientDisconnected(c)

Next ==
  \/ Server \/ SendMessageToAll
  \/ \E c \in Client : EstablishConnection(c) \/ ClientSend(c) \/ Write("up", c)
                       \/ Delivery(c) \/ ClientLeave(c)

\* Both threads of asio and the main loop of the server go on for ever; what
\* the players do needs no fairness.
Fairness ==
  /\ WF_vars(Server)
  /\ \A c \in Client : WF_vars(Write("up", c)) /\ WF_vars(Delivery(c))

Spec == Init /\ [][Next]_vars /\ Fairness

-----------------------------------------------------------------------------
(* Properties *)

Number(d, c) == 0 .. MaxSent[d][c]

TypeOK ==
  /\ sent \in [Direction -> [Client -> Nat]]
  /\ \A d \in Direction, c \in Client :
       /\ sent[d][c] \in Number(d, c)
       /\ \A i \in 1..Len(handled[d][c]) : handled[d][c][i] \in Number(d, c)
  /\ up \in BOOLEAN
  /\ ToSet(sockets) \subseteq Client /\ isOpen \subseteq Client
  /\ awaiting \subseteq isOpen
  /\ \A i \in 1..Len(completed) :
       completed[i].c \in Client /\ completed[i].what \in {"data", "error"}
  /\ Len(size) = HeaderCells
  /\ reading = NoRead \/ reading.c \in Client
  /\ connection \in [Client -> {"none", "backlog", "open", "closed"}]
  /\ \A c \in Client : Len(received[c]) < HeaderCells /\ expected[c] \in Int

\* However writes mix, receives overwrite each other and lengths are misread:
\* a message whose handler runs was sent, it is not handled twice, and it comes
\* after all those that were handled before it. Two mistakes together can break
\* the order: a length of another client skips the rest of a message that was
\* written in parts, and a later message is taken before an earlier one.
Straight(d, c) == <<d, c>> \notin overlapped \/ d = "down" \/ c \notin overwritten
HandledInOrder ==
  \A d \in Direction, c \in Client :
    /\ \A i \in 1..Len(handled[d][c]) : handled[d][c][i] <= sent[d][c]
    /\ \A i, j \in 1..Len(handled[d][c]) :
         i < j => IF Straight(d, c) THEN handled[d][c][i] < handled[d][c][j]
                                    ELSE handled[d][c][i] # handled[d][c][j]

\* A client takes every message for what it is unless the server wrote two of
\* them to it at the same time: async_read makes pieces harmless.
ClientReadsWhole ==
  \A c \in Client : <<"down", c>> \in misread => <<"down", c>> \in overlapped

\* The server does so unless it took a header in parts, unless a client's
\* writes were mixed, or unless the length of one client was overwritten by
\* that of another one before its handler ran.
ServerReadsWhole ==
  \A c \in Client :
    <<"up", c>> \in misread =>
      c \in split \/ c \in overwritten \/ <<"up", c>> \in overlapped

\* A callback uses a destroyed socket only if something was sent to its client:
\* with a receive alone no operation outlives the close.
DanglingNeedsSend == \A c \in dangling : sent["down"][c] > 0

\* These are the only ways to lose a message: otherwise a message that was
\* sent is handled in the end, unless its sender leaves or the server ends.
Undisturbed == split = {} /\ overwritten = {} /\ overlapped = {}
AllHandled ==
  \A c \in Client : \A k \in 1..sent["up"][c] :
    k \in ToSet(handled["up"][c]) \/ connection[c] = "closed" \/ ~up \/ ~Undisturbed
NothingLostQuietly == []<>AllHandled
=============================================================================
