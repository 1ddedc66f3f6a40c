----------------------------- MODULE Connection -----------------------------
(***************************************************************************)
(* The SSH tunnel of the main process and the backend URL of the window.   *)
(* The main process keeps one tunnel: an ssh client, the local server that *)
(* forwards to it, and the port of that server.  Every change of status is *)
(* sent to the window, which shows it and points the backend URL at the    *)
(* port; the window keeps its last URL in the local storage and asks for   *)
(* the status when it is loaded.                                           *)
(*                                                                         *)
(* The clients are numbered in the order they are made, and a tunnel's     *)
(* server and port carry the number of its client: 0 is none.  An ended    *)
(* client reports nothing but its end and its close, and a closed server   *)
(* never reports that it listens.                                          *)
(***************************************************************************)
EXTENDS Naturals, Sequences

CONSTANTS MaxClients,   \* bound: ssh clients made in a behaviour
          MaxInbox     \* bound: messages to the window under way

ASSUME ConnectionBounds == MaxClients \in Nat /\ MaxInbox \in Nat

VARIABLES
    tunnel,     \* status, client, server and port of the main process
    clients,    \* what each ssh client does: "idle", "connecting", "ready", "ended", "gone"
    inbox,     \* messages to the window: changes of status and one reply
    window,     \* what the window shows: up, asking, status and url
    stored,     \* the URL of the local storage, or "none"
    typed       \* the URL is the user's or the storage's: no status has set it since

tunnelVars == <<tunnel, clients>>
windowVars == <<window, stored, typed>>
connVars == <<tunnel, clients, inbox, window, stored, typed>>

NoTunnel == [status |-> "disconnected", client |-> 0, server |-> 0, port |-> 0]
Default == "default"

\* A URL of the window: the default one, one the user typed, or a tunnel's
TunnelUrl(port) == <<"port", port>>
Fixed(url) == <<url, 0>>

-----------------------------------------------------------------------------
(* The main process.                                                       *)

UpdateStatus(t, status) == [t EXCEPT !.status = status]

\* Closes the server and ends the client, whoever asks
Destroyed == NoTunnel
EndClient(i) == IF i > 0 /\ clients[i] \in {"connecting", "ready"} THEN [clients EXCEPT ![i] = "ended"] ELSE clients

\* destroyTunnel tells the window only when the status was another one
Disconnects(t) == IF t.status # "disconnected" THEN <<"disconnected">> ELSE <<>>

StatusMessage(kind, status, port) == [kind |-> kind, status |-> status, port |-> port]

\* A change of status reaches a window that listens; one that loads misses it
Send(statuses, port) ==
    inbox' = IF window.up THEN inbox \o [i \in 1 .. Len(statuses) |-> StatusMessage("change", statuses[i], port)] ELSE inbox

\* createTunnel tears the current tunnel down first
ConnectTunnel(outcome) ==
    LET made == Len(clients) + 1
        torn == EndClient(tunnel.client)
        told == Disconnects(tunnel) \o <<"connecting">>
    IN  \/ /\ outcome = "no_key"
           /\ tunnel' = UpdateStatus(Destroyed, "error")
           /\ clients' = torn
           /\ Send(told \o <<"error">>, 0)
        \/ /\ outcome = "throws"
           /\ tunnel' = [UpdateStatus(Destroyed, "error") EXCEPT !.client = made]
           /\ clients' = Append(torn, "idle")
           /\ Send(told \o <<"error">>, 0)
        \/ /\ outcome = "starts"
           /\ tunnel' = [UpdateStatus(Destroyed, "connecting") EXCEPT !.client = made]
           /\ clients' = Append(torn, "connecting")
           /\ Send(told, 0)

\* Mutant: the current tunnel is left as it is
KeepTunnel ==
    /\ window.up /\ window.status \notin {"connected", "connecting"}
    /\ Len(clients) < MaxClients /\ Len(inbox) < MaxInbox
    /\ tunnel' = [tunnel EXCEPT !.status = "connecting", !.client = Len(clients) + 1]
    /\ clients' = Append(clients, "connecting")
    /\ Send(<<"connecting">>, 0)
    /\ UNCHANGED windowVars

\* The button is disabled while the window shows a connection under way
CreateTunnel ==
    /\ window.up /\ window.status \notin {"connected", "connecting"}
    /\ Len(clients) < MaxClients /\ Len(inbox) < MaxInbox
    /\ \E outcome \in {"no_key", "throws", "starts"} : ConnectTunnel(outcome)
    /\ UNCHANGED windowVars

DestroyTunnel(ended) ==
    /\ tunnel' = Destroyed
    /\ clients' = ended
    /\ Send(Disconnects(tunnel), 0)

Disconnect ==
    /\ window.up /\ window.status = "connected" /\ Len(inbox) < MaxInbox
    /\ DestroyTunnel(EndClient(tunnel.client))
    /\ UNCHANGED windowVars

\* The ssh session is up: the local server is made and starts to listen
ClientReady(i) ==
    /\ clients[i] = "connecting"
    /\ clients' = [clients EXCEPT ![i] = "ready"]
    /\ tunnel' = [tunnel EXCEPT !.server = i]
    /\ UNCHANGED <<inbox, windowVars>>

ServerListens ==
    /\ tunnel.server > 0 /\ tunnel.port = 0
    /\ tunnel' = UpdateStatus([tunnel EXCEPT !.port = tunnel.server], "connected")
    /\ Send(<<"connected">>, tunnel.server)
    /\ UNCHANGED <<clients, windowVars>>

\* An error is told, and the teardown that follows it tells "disconnected"
ServerFails ==
    /\ tunnel.server > 0
    /\ tunnel' = Destroyed
    /\ clients' = EndClient(tunnel.client)
    /\ Send(<<"error", "disconnected">>, 0)
    /\ UNCHANGED windowVars

ClientFails(i) ==
    /\ clients[i] \in {"connecting", "ready"}
    /\ tunnel' = Destroyed
    /\ clients' = [EndClient(tunnel.client) EXCEPT ![i] = "ended"]
    /\ Send(<<"error", "disconnected">>, 0)
    /\ UNCHANGED windowVars

\* The end and the close of any client destroy the tunnel of that moment,
\* the one of a later client too
ClientCloses(i) ==
    /\ clients[i] \in {"ready", "ended"}
    /\ DestroyTunnel([EndClient(tunnel.client) EXCEPT ![i] = "gone"])
    /\ UNCHANGED windowVars

TunnelStatus ==
    /\ window.asking
    /\ inbox' = Append(inbox, StatusMessage("reply", tunnel.status, tunnel.port))
    /\ window' = [window EXCEPT !.asking = FALSE]
    /\ UNCHANGED <<tunnelVars, stored, typed>>

-----------------------------------------------------------------------------
(* The window.                                                             *)

\* The reply to the first question sets the URL of a tunnel that is up and no other
ShowStatus ==
    /\ inbox # <<>> /\ window.up
    /\ LET e == Head(inbox)
           up == e.status = "connected" /\ e.port > 0
           down == e.kind = "change" /\ e.status \in {"disconnected", "error"}
       IN  /\ window' = [window EXCEPT !.status = e.status,
                                       !.url = IF up THEN TunnelUrl(e.port) ELSE IF down THEN Fixed(Default) ELSE @]
           /\ typed' = (typed /\ ~up /\ ~down)
    /\ inbox' = Tail(inbox)
    /\ UNCHANGED <<tunnelVars, stored>>

SetBackendUrl ==
    /\ window.up /\ window.url # Fixed("custom")
    /\ window' = [window EXCEPT !.url = Fixed("custom")]
    /\ typed' = TRUE
    /\ UNCHANGED <<tunnelVars, inbox, stored>>

\* An idle callback writes the state of the last render
Persist ==
    /\ window.up /\ stored # window.url
    /\ stored' = window.url
    /\ UNCHANGED <<tunnelVars, inbox, window, typed>>

\* The stores' first values, the stored URL over them, and the first question
Mount ==
    /\ ~window.up
    /\ LET url == IF stored = Fixed("none") THEN Fixed(Default) ELSE stored
       IN  /\ window' = [up |-> TRUE, asking |-> TRUE, status |-> "disconnected", url |-> url]
           /\ typed' = (url # Fixed(Default))
    /\ UNCHANGED <<tunnelVars, inbox, stored>>

Unload ==
    /\ window.up
    /\ window' = [window EXCEPT !.up = FALSE, !.asking = FALSE]
    /\ inbox' = <<>>
    /\ UNCHANGED <<tunnelVars, stored, typed>>

\* The application quits: the tunnel's connections end with it
Quit ==
    /\ window.up
    /\ window' = [window EXCEPT !.up = FALSE, !.asking = FALSE]
    /\ inbox' = <<>>
    /\ tunnel' = NoTunnel
    /\ clients' = [i \in 1 .. Len(clients) |-> "gone"]
    /\ UNCHANGED <<stored, typed>>

ConnInit ==
    /\ tunnel = NoTunnel
    /\ clients = <<>>
    /\ inbox = <<>>
    /\ window = [up |-> FALSE, asking |-> FALSE, status |-> "disconnected", url |-> Fixed(Default)]
    /\ stored = Fixed("none")
    /\ typed = FALSE

ConnNext ==
    \/ CreateTunnel \/ Disconnect \/ ServerListens \/ ServerFails \/ TunnelStatus
    \/ \E i \in 1 .. Len(clients) : ClientReady(i) \/ ClientFails(i) \/ ClientCloses(i)
    \/ ShowStatus \/ SetBackendUrl \/ Persist \/ Mount \/ Unload \/ Quit

ConnSpec == ConnInit /\ [][ConnNext]_connVars

-----------------------------------------------------------------------------
(* Properties.                                                             *)

\* The parts of the tunnel agree with its status in every state the callbacks
\* can interleave to: a connected tunnel has its own client, server and port,
\* one that connects has a client that may still answer, a disconnected one
\* holds nothing, and no other client is left connected.
TunnelWhole ==
    /\ tunnel.status = "connected" =>
         /\ tunnel.client > 0 /\ tunnel.server = tunnel.client /\ tunnel.port = tunnel.client
         /\ clients[tunnel.client] = "ready"
    /\ tunnel.status = "connecting" =>
         /\ tunnel.client > 0 /\ tunnel.port = 0
         /\ clients[tunnel.client] = (IF tunnel.server = 0 THEN "connecting" ELSE "ready")
    /\ tunnel.status = "disconnected" => tunnel = NoTunnel
    /\ tunnel.status = "error" => tunnel.server = 0 /\ tunnel.port = 0
    /\ \A i \in 1 .. Len(clients) : clients[i] \in {"connecting", "ready"} => i = tunnel.client

\* Once the window has every message, it shows the status of the tunnel and
\* its requests go where the tunnel is: through its port when it is up, to the
\* default address when it is not, unless the URL is one the user typed or the
\* window found in its storage.
UrlFollowsTunnel ==
    window.up /\ ~window.asking /\ inbox = <<>> =>
        /\ window.status = tunnel.status
        /\ ~typed => window.url = IF tunnel.status = "connected" THEN TunnelUrl(tunnel.port) ELSE Fixed(Default)

\* The tunnel is whole and the window follows it, however the callbacks of old
\* and new ssh clients, a reload of the window and the user's clicks interleave.
TunnelSound == TunnelWhole /\ UrlFollowsTunnel
=============================================================================
