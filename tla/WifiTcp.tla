------------------------------ MODULE WifiTcp ------------------------------
(***************************************************************************)
(* The firmware's WiFi transport (firmware/src/wifi_tcp.rs) and the block  *)
(* of the main loop that drives it, with the radio, the TCP socket and a   *)
(* sequence of clients around them.                                        *)
(*                                                                         *)
(* One iteration of the main loop is one action: the flags that remember   *)
(* a session, the pending event, then poll in whatever state it is, then   *)
(* the answer to the one message poll may return.  What the message does   *)
(* to the session on the knob is KnobDevice's.                             *)
(***************************************************************************)
EXTENDS Codec

CONSTANTS
    Chunk,        \* pieces one poll reads: 256 bytes in the code
    MaxFrames,    \* bound: frames the clients write altogether
    MaxSessions,  \* bound: clients, one after the other
    MaxEvents     \* bound: events of the user that go to a client

ASSUME ChunkAssumption == Chunk \in Nat \ {0}
ASSUME BoundsAssumption == {MaxFrames, MaxSessions, MaxEvents} \subseteq Nat

VARIABLES
    state,            \* WifiTcpState
    connected_ip,     \* Option: is there an address
    pending_event,    \* Option: is there a WifiStatus for the USB host
    decoder,
    wifi_ready_sent, wifi_was_active,   \* locals of main
    associated,       \* radio: joined to the access point
    lease,            \* the DHCP socket's next event
    sock,             \* the TCP socket: closed, listen, established, closewait
    rx, tx,           \* received and not read; sent to the present client
    client,           \* "away" or "open"
    spent,            \* what is used of the bounds
    handled           \* history: the messages poll returned

device == <<state, connected_ip, pending_event, decoder, wifi_ready_sent,
            wifi_was_active, handled>>
radio == <<associated, lease>>
tcp == <<sock, rx, tx>>
wifiVars == <<device, radio, tcp, client, spent>>

WifiInit ==
    /\ state = "Connecting"
    /\ connected_ip = FALSE /\ pending_event = FALSE
    /\ decoder = <<>>
    /\ wifi_ready_sent = FALSE /\ wifi_was_active = FALSE
    /\ associated = FALSE
    /\ lease \in {"none", "deconfigured"}
    /\ sock = "closed" /\ rx = <<>> /\ tx = <<>>
    /\ client = "away"
    /\ spent = [frames |-> 0, sessions |-> 0, events |-> 0]
    /\ handled = <<>>

IsActive == state = "Active"

\* Socket::is_active: a connection whose peer has closed its side counts.
SocketActive == sock \in {"established", "closewait"}

-----------------------------------------------------------------------------
(* One iteration                                                           *)

\* Mutant: the end of a session is not remembered.
ReadyStillKept == wifi_ready_sent

\* wifi_ready_sent after the flags have been brought up to date.
ReadyStill == wifi_ready_sent /\ ~ (wifi_was_active /\ ~ IsActive)

\* Everything before poll: the flags, and the event goes to the USB host.
Flags == wifi_was_active' = IsActive

NoAnswer == wifi_ready_sent' = ReadyStill /\ UNCHANGED <<handled, tx>>

Quiet == NoAnswer /\ UNCHANGED decoder

\* connect() is called again every 10 s until the radio has joined.
PollConnecting ==
    /\ state = "Connecting"
    /\ state' = IF associated THEN "WaitingForIp" ELSE state
    /\ pending_event' = FALSE
    /\ Quiet
    /\ UNCHANGED <<connected_ip, lease, sock, rx>>

\* A lease, the loss of one, or 15 s without either.
PollWaitingForIp ==
    /\ state = "WaitingForIp"
    /\ CASE lease = "configured" ->
              state' = "Listening" /\ connected_ip' = TRUE /\ pending_event' = TRUE
         [] lease = "deconfigured" ->
              state' = "Connecting" /\ connected_ip' = FALSE /\ pending_event' = FALSE
         [] OTHER ->
              /\ state' \in {"WaitingForIp", "Connecting"}
              /\ pending_event' = FALSE /\ UNCHANGED connected_ip
    /\ lease' = "none"
    /\ Quiet
    /\ UNCHANGED <<sock, rx>>

PollListening ==
    /\ state = "Listening"
    /\ sock' = IF sock = "closed" THEN "listen" ELSE sock
    /\ state' = IF SocketActive THEN "Active" ELSE state
    /\ pending_event' = FALSE
    /\ Quiet
    /\ UNCHANGED <<connected_ip, lease, rx>>

\* Mutant: an ended connection is aborted and nothing else.
PollEndedStays ==
    /\ IsActive /\ ~ SocketActive
    /\ sock' = "closed"
    /\ UNCHANGED <<state, connected_ip, lease, rx>>
    /\ pending_event' = FALSE
    /\ Quiet

PollEnded ==
    /\ IsActive /\ ~ SocketActive
    /\ state' = "Listening"
    /\ sock' = "closed"
    /\ pending_event' = FALSE
    /\ Quiet
    /\ UNCHANGED <<connected_ip, lease, rx>>

\* Ready goes before the answer to the first message of a session.
Answer(msg) ==
    /\ tx' = tx \o (IF ReadyStill THEN <<>> ELSE <<"Ready">>) \o <<"Reply">>
    /\ wifi_ready_sent' = TRUE
    /\ handled' = Append(handled, msg)

\* At most one chunk is read, and at most one frame decoded: none when nothing
\* was read.
PollActive ==
    /\ IsActive /\ SocketActive
    /\ IF rx = <<>>
          THEN Quiet /\ UNCHANGED rx
          ELSE \E n \in 1 .. Len(rx) :
                  LET next == NextFrame(Push(decoder, SubSeq(rx, 1, n))) IN
                  /\ n <= Chunk
                  /\ rx' = SubSeq(rx, n + 1, Len(rx))
                  /\ decoder' = next.rest
                  /\ IF next.msg = NoMessage
                        THEN NoAnswer
                        ELSE Answer(next.msg)
    /\ pending_event' = FALSE
    /\ UNCHANGED <<state, connected_ip, lease, sock>>

Iteration ==
    /\ Flags
    /\ PollConnecting \/ PollWaitingForIp \/ PollListening \/ PollEnded \/ PollActive
    /\ UNCHANGED <<associated, client, spent>>

\* A turn, a tap or a swipe, sent while a client counts as connected.
SendEvent ==
    /\ IsActive
    /\ spent.events < MaxEvents
    /\ spent' = [spent EXCEPT !.events = @ + 1]
    /\ tx' = IF SocketActive THEN Append(tx, "Event") ELSE tx
    /\ UNCHANGED <<state, connected_ip, pending_event, decoder, wifi_ready_sent,
                   wifi_was_active, handled, radio, sock, rx, client>>

-----------------------------------------------------------------------------
(* The radio and the clients                                               *)

RadioChanges ==
    /\ \/ associated' \in BOOLEAN /\ lease' = lease
       \/ associated /\ lease' \in {"configured", "deconfigured"} /\ UNCHANGED associated
    /\ UNCHANGED <<device, tcp, client, spent>>

\* A listening socket's buffers are empty.
ClientConnects ==
    /\ client = "away" /\ sock = "listen" /\ associated
    /\ spent.sessions < MaxSessions
    /\ spent' = [spent EXCEPT !.sessions = @ + 1]
    /\ client' = "open" /\ sock' = "established"
    /\ rx' = <<>> /\ tx' = <<>>
    /\ UNCHANGED <<device, radio>>

\* Frames are numbered in the order they are written.
ClientSends ==
    /\ client = "open" /\ associated
    /\ spent.frames < MaxFrames
    /\ spent' = [spent EXCEPT !.frames = @ + 1]
    /\ rx' = rx \o Encode(spent.frames + 1)
    /\ UNCHANGED <<device, radio, sock, tx, client>>

\* The program ends, perhaps inside a frame, and its side of the connection is
\* closed.
ClientLeaves ==
    /\ client = "open" /\ associated
    /\ client' = "away" /\ sock' = "closewait" /\ tx' = <<>>
    /\ \/ UNCHANGED <<rx, spent>>
       \/ /\ spent.frames < MaxFrames
          /\ spent' = [spent EXCEPT !.frames = @ + 1]
          /\ rx' = Append(rx, spent.frames + 1)
    /\ UNCHANGED <<device, radio>>

\* The host falls asleep or out of reach, and the device is told nothing.
ClientVanishes ==
    /\ client = "open"
    /\ client' = "away" /\ tx' = <<>>
    /\ UNCHANGED <<device, radio, sock, rx, spent>>

Closed == client' = "away" /\ sock' = "closed" /\ rx' = <<>> /\ tx' = <<>>

\* The client breaks the connection instead of closing its side.
Reset ==
    /\ client = "open"
    /\ Closed
    /\ UNCHANGED <<device, radio, spent>>

\* What the device sends to a client that is gone is answered with a reset.
Refused ==
    /\ SocketActive /\ client = "away" /\ tx # <<>> /\ associated
    /\ Closed
    /\ UNCHANGED <<device, radio, spent>>

WifiNext ==
    \/ Iteration
    \/ SendEvent
    \/ RadioChanges
    \/ ClientConnects
    \/ ClientSends
    \/ ClientLeaves
    \/ ClientVanishes
    \/ Reset
    \/ Refused

WifiSpec == WifiInit /\ [][WifiNext]_wifiVars

\* The main loop runs for ever.  The clients and the radio owe nothing.
FairWifiSpec ==
    /\ WifiSpec
    /\ WF_wifiVars(Iteration)

-----------------------------------------------------------------------------
(* Properties                                                              *)

Pieces == Seq(0 .. MaxFrames)

WifiTypeOK ==
    /\ state \in {"Connecting", "WaitingForIp", "Listening", "Active"}
    /\ {connected_ip, pending_event, wifi_ready_sent, wifi_was_active, associated}
          \subseteq BOOLEAN
    /\ decoder \in Pieces /\ Len(decoder) <= MaxPieces
    /\ handled \in Pieces
    /\ lease \in {"none", "configured", "deconfigured"}
    /\ sock \in {"closed", "listen", "established", "closewait"}
    /\ rx \in Pieces /\ tx \in Seq({"Ready", "Reply", "Event"})
    /\ client \in {"away", "open"}
    /\ spent \in [frames : 0 .. MaxFrames, sessions : 0 .. MaxSessions,
                  events : 0 .. MaxEvents]

\* Every client is greeted with Ready before it gets an answer, although the
\* flag lives in main and the session in WifiTcp, and a session may end and the
\* next begin between two looks at it (main.rs wifi_ready_sent).
ReadyBeforeReplies ==
    client = "open" =>
        \A i \in DOMAIN tx : tx[i] = "Reply" => \E j \in 1 .. i - 1 : tx[j] = "Ready"

\* Frames are handled in the order they were written and at most once each,
\* however reads cut the stream and whatever fragments clients leave (codec.rs
\* next_frame, push; wifi_tcp.rs poll).  A frame may go missing: one behind a
\* fragment of an earlier client, or one that overflows the decoder.
HandledInOrder ==
    \A i, j \in DOMAIN handled : i < j => handled[i] < handled[j]

\* A connection that was reset makes way for the next client: the socket
\* listens again (wifi_tcp.rs Active, Listening).
ListensAgain == (sock = "closed" /\ connected_ip) ~> (sock # "closed")

\* poll "returns None on every tick where no incoming frame is ready": a frame
\* that has arrived is taken without waiting for another (wifi_tcp.rs poll).
FrameIsHandled ==
    \A m \in 1 .. MaxFrames :
        (IsActive /\ \E i \in DOMAIN decoder : decoder[i] = m /\ HasFrame(decoder))
            ~> (~ IsActive \/ ~ \E i \in DOMAIN decoder : decoder[i] = m)
=============================================================================
