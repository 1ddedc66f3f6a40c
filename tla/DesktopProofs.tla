--------------------------- MODULE DesktopProofs ---------------------------
(***************************************************************************)
(* Four parts of the desktop stay sound whatever the user, the server and  *)
(* the operating system do, for every value of their constants: the tunnel *)
(* of the main process (TunnelSound), the approval sheet (SheetSound), the *)
(* palette and the lists (NavigationSound), and the environment of new     *)
(* conversations (WorktreesSound).  The parts share no variable; each has  *)
(* its inductive invariant and one lemma for each of its steps.            *)
(***************************************************************************)
EXTENDS Connection, ApprovalSheet, Navigation, Environment, SequenceTheorems, FiniteSetTheorems,
        WellFoundedInduction, TLAPS

-----------------------------------------------------------------------------
(* Lists.                                                                   *)

LEMMA OneTo == ASSUME NEW n \in Nat PROVE IsFiniteSet(1 .. n) /\ Cardinality(1 .. n) = n
  BY FS_Interval

\* The place of an index among those kept
PlaceIn(kept, i) == Cardinality({j \in kept : j <= i})

\* The places of the members of a set of numbers are 1, 2, ...
LEMMA PlacesFill ==
    ASSUME NEW kept \in SUBSET Nat, IsFiniteSet(kept)
    PROVE  /\ \A i \in kept : PlaceIn(kept, i) \in 1 .. Cardinality(kept)
           /\ \A i, j \in kept : PlaceIn(kept, i) = PlaceIn(kept, j) => i = j
           /\ \A k \in 1 .. Cardinality(kept) : \E i \in kept : PlaceIn(kept, i) = k
  <1> DEFINE Upto(i) == {j \in kept : j <= i}
             N == Cardinality(kept)
             at == [i \in kept |-> PlaceIn(kept, i)]
  <1>0. N \in Nat  BY FS_CardinalityType
  <1>1. ASSUME NEW i \in kept PROVE IsFiniteSet(Upto(i)) /\ PlaceIn(kept, i) = Cardinality(Upto(i)) /\ PlaceIn(kept, i) \in 1 .. N
    <2>1. Upto(i) \in SUBSET kept /\ i \in Upto(i)  OBVIOUS
    <2>2. IsFiniteSet(Upto(i)) /\ Cardinality(Upto(i)) <= N  BY <2>1, FS_Subset
    <2>3. Cardinality(Upto(i)) \in Nat  BY <2>2, FS_CardinalityType
    <2>4. Cardinality(Upto(i)) # 0
      <3>1. Cardinality(Upto(i)) = 0 => Upto(i) = {}  BY <2>2, FS_EmptySet
      <3> QED  BY <2>1, <3>1
    <2> QED  BY <1>0, <2>2, <2>3, <2>4 DEF PlaceIn
  <1>2. ASSUME NEW i \in kept, NEW j \in kept, PlaceIn(kept, i) = PlaceIn(kept, j), i < j PROVE FALSE
    <2>0. \A l \in kept : l \in Nat  OBVIOUS
    <2>1. Upto(i) \in SUBSET Upto(j) /\ j \in Upto(j) /\ j \notin Upto(i)
      <3>1. \A l \in kept : l <= i => l <= j  BY <1>2, <2>0
      <3>2. j <= j /\ ~(j <= i)  BY <1>2, <2>0
      <3> QED  BY <3>1, <3>2
    <2>2. IsFiniteSet(Upto(j)) /\ Cardinality(Upto(i)) = Cardinality(Upto(j))  BY <1>1, <1>2
    <2>3. Upto(i) = Upto(j)  BY <2>1, <2>2, FS_Subset
    <2> QED  BY <2>1, <2>3
  <1>3. \A i, j \in kept : PlaceIn(kept, i) = PlaceIn(kept, j) => i = j
    <2> SUFFICES ASSUME NEW i \in kept, NEW j \in kept, PlaceIn(kept, i) = PlaceIn(kept, j), i # j PROVE FALSE
        OBVIOUS
    <2>1. i \in Nat /\ j \in Nat  OBVIOUS
    <2>2. i < j \/ j < i  BY <2>1
    <2> QED  BY <1>2, <2>2
  <1>4. at \in Injection(kept, 1 .. N)
    <2>1. at \in [kept -> 1 .. N]  BY <1>1
    <2> QED  BY <1>3, <2>1 DEF Injection, IsInjective
  <1>5. at \in Surjection(kept, 1 .. N)
    <2>1. IsFiniteSet(1 .. N) /\ Cardinality(1 .. N) = N  BY <1>0, OneTo
    <2> HIDE DEF at, N
    <2>2. Cardinality(kept) = Cardinality(1 .. N)  BY <2>1 DEF N
    <2> QED  BY <1>4, <2>1, <2>2, FS_Injection
  <1>6. \A k \in 1 .. N : \E i \in kept : PlaceIn(kept, i) = k  BY <1>5 DEF Surjection
  <1> QED  BY <1>1, <1>3, <1>6

\* What filter returns: the elements of the list that belong to the set, and the list
\* has none of them twice if it had none before.
LEMMA OnlyKeeps ==
    ASSUME NEW S, NEW list \in Seq(S), NEW set
    PROVE  /\ Only(list, set) \in Seq(S)
           /\ \A x : (\E k \in 1 .. Len(Only(list, set)) : Only(list, set)[k] = x)
                       <=> x \in set /\ \E i \in 1 .. Len(list) : list[i] = x
  <1>1. PICK kept : kept = {i \in DOMAIN list : list[i] \in set}  OBVIOUS
  <1>2. DOMAIN list = 1 .. Len(list) /\ Len(list) \in Nat  OBVIOUS
  <1>3. kept \in SUBSET Nat /\ IsFiniteSet(kept)
    <2>1. kept \in SUBSET (1 .. Len(list))  BY <1>1, <1>2
    <2>2. IsFiniteSet(1 .. Len(list))  BY <1>2, OneTo
    <2>3. IsFiniteSet(kept)  BY <2>1, <2>2, FS_Subset
    <2> QED  BY <2>1, <2>3
  <1>4. PICK N : N = Cardinality(kept)  OBVIOUS
  <1>5. N \in Nat  BY <1>3, <1>4, FS_CardinalityType
  <1> DEFINE Nth(k) == CHOOSE i \in kept : PlaceIn(kept, i) = k
  <1>6. Only(list, set) = [k \in 1 .. N |-> list[Nth(k)]]  BY <1>1, <1>4 DEF Only, PlaceIn
  <1>7. \A k \in 1 .. N : Nth(k) \in kept  BY <1>3, <1>4, PlacesFill
  <1>8. \A i \in kept : PlaceIn(kept, i) \in 1 .. N /\ Nth(PlaceIn(kept, i)) = i
    <2> TAKE i \in kept
    <2>1. PlaceIn(kept, i) \in 1 .. N  BY <1>3, <1>4, PlacesFill
    <2>2. PlaceIn(kept, Nth(PlaceIn(kept, i))) = PlaceIn(kept, i) /\ Nth(PlaceIn(kept, i)) \in kept  OBVIOUS
    <2> QED  BY <1>3, <2>1, <2>2, PlacesFill
  <1> HIDE DEF Nth
  <1>9. \A k \in 1 .. N : list[Nth(k)] \in S /\ list[Nth(k)] \in set /\ Nth(k) \in 1 .. Len(list)
      BY <1>1, <1>2, <1>7
  <1>10. Only(list, set) \in Seq(S) /\ Len(Only(list, set)) = N
      BY <1>5, <1>6, <1>9
  <1> QED
    <2> SUFFICES ASSUME NEW x
                 PROVE  (\E k \in 1 .. N : Only(list, set)[k] = x)
                            <=> x \in set /\ \E i \in 1 .. Len(list) : list[i] = x
        BY <1>10
    <2>1. ASSUME NEW k \in 1 .. N, Only(list, set)[k] = x PROVE x \in set /\ \E i \in 1 .. Len(list) : list[i] = x
        BY <1>6, <1>9, <2>1
    <2>2. ASSUME NEW i \in 1 .. Len(list), list[i] = x, x \in set PROVE \E k \in 1 .. N : Only(list, set)[k] = x
      <3>1. i \in kept  BY <1>1, <1>2, <2>2
      <3> QED  BY <1>6, <1>8, <2>2, <3>1
    <2> QED  BY <2>1, <2>2

-----------------------------------------------------------------------------
(* The connection to the server.                                            *)

Statuses == {"disconnected", "connecting", "connected", "error"}
ClientStates == {"idle", "connecting", "ready", "ended", "gone"}
Urls == {Fixed(Default), Fixed("custom"), Fixed("none")} \cup {TunnelUrl(port) : port \in Nat}
Message == [kind : {"change", "reply"}, status : Statuses, port : Nat]

Types ==
    /\ clients \in Seq(ClientStates)
    /\ tunnel \in [status : Statuses, client : 0 .. Len(clients), server : Nat, port : Nat]
    /\ inbox \in Seq(Message)
    /\ window \in [up : BOOLEAN, asking : BOOLEAN, status : Statuses, url : Urls]
    /\ stored \in Urls
    /\ typed \in BOOLEAN

-----------------------------------------------------------------------------
(* The inductive invariant. *)

\* A tunnel in error has no client that may still report, and the server of one that
\* connects is its client's.
Handed ==
    /\ tunnel.status = "error" => \A i \in 1 .. Len(clients) : clients[i] \notin {"connecting", "ready"}
    /\ tunnel.status = "connecting" => tunnel.server \in {0, tunnel.client}

\* Nothing is sent to a window that is not up.
Unheard == ~window.up => inbox = <<>> /\ ~window.asking

\* The last message has the status of the tunnel and its port.
Delivered ==
    inbox # <<>> => /\ inbox[Len(inbox)].status = tunnel.status
                    /\ inbox[Len(inbox)].port = tunnel.port

\* What may follow a status shown: after "connected" only a message that sets the URL.
Follows(before, e) ==
    /\ e.status = "connected" => e.port > 0
    /\ before = "connected" => e.status = "connected" \/ (e.kind = "change" /\ e.status \in {"disconnected", "error"})

\* Each message may follow the one before it, and the first what the window shows.
Chained ==
    \A k \in 1 .. Len(inbox) : Follows(IF k = 1 THEN window.status ELSE inbox[k - 1].status, inbox[k])

\* A window that does not show "connected" has no tunnel's URL.
ShownFixed == window.up /\ ~typed /\ window.status # "connected" => window.url = Fixed(Default)

\* A window with no message left shows the tunnel, or has not been told yet.
Synced ==
    window.up /\ inbox = <<>> =>
        \/ /\ window.status = tunnel.status
           /\ ~typed /\ tunnel.status = "connected" => window.url = TunnelUrl(tunnel.port)
        \/ window.asking /\ window.status = "disconnected"

ConnInv ==
    Types /\ TunnelWhole /\ Handed /\ Unheard /\ Delivered /\ Chained /\ ShownFixed /\ Synced

-----------------------------------------------------------------------------
(* Messages. *)

Sent(told, port) == inbox \o [i \in 1 .. Len(told) |-> StatusMessage("change", told[i], port)]

\* What Send appends: one change for each status, with the port.
LEMMA SentChanges ==
    ASSUME NEW told \in Seq(Statuses), NEW port \in Nat, inbox \in Seq(Message)
    PROVE  /\ Sent(told, port) \in Seq(Message)
           /\ Len(Sent(told, port)) = Len(inbox) + Len(told)
           /\ \A k \in 1 .. Len(inbox) : Sent(told, port)[k] = inbox[k]
           /\ \A k \in 1 .. Len(told) : /\ Sent(told, port)[Len(inbox) + k].kind = "change"
                                        /\ Sent(told, port)[Len(inbox) + k].status = told[k]
                                        /\ Sent(told, port)[Len(inbox) + k].port = port
<1> DEFINE added == [i \in 1 .. Len(told) |-> StatusMessage("change", told[i], port)]
<1>1. added \in Seq(Message) /\ Len(added) = Len(told)
  <2>1. \A i \in 1 .. Len(told) : StatusMessage("change", told[i], port) \in Message
    BY DEF StatusMessage, Message
  <2> QED
    BY <2>1
<1>2. \A k \in 1 .. Len(told) : added[k].kind = "change" /\ added[k].status = told[k] /\ added[k].port = port
  BY DEF StatusMessage
<1> QED
  BY <1>1, <1>2 DEF Sent

\* The messages of a change of status keep what the window will show in step: none of
\* them is "connected" unless it is the only one, the last one is the new status, and a
\* tunnel that was up is first reported down.
LEMMA SendKeeps ==
    ASSUME Types, Unheard, Delivered, Chained, ShownFixed, Synced,
           NEW told \in Seq(Statuses), NEW port \in Nat, Send(told, port), UNCHANGED <<window, typed>>,
           told # <<>>, told[Len(told)] = tunnel'.status, port = tunnel'.port,
           \A k \in 1 .. Len(told) : told[k] = "connected" => Len(told) = 1 /\ port > 0,
           tunnel.status = "connected" => told[1] \in {"disconnected", "error"}
    PROVE  inbox' \in Seq(Message) /\ Unheard' /\ Delivered' /\ Chained' /\ ShownFixed' /\ Synced'
<1>1. CASE ~window.up
  <2>1. inbox' = inbox /\ inbox = <<>>
    BY <1>1 DEF Send, Unheard
  <2> QED
    BY <1>1, <2>1 DEF Types, Unheard, Delivered, Chained, ShownFixed, Synced
<1>2. CASE window.up
  <2>1. inbox' = Sent(told, port)
    BY <1>2 DEF Send, Sent
  <2>2. /\ inbox' \in Seq(Message)
        /\ Len(inbox') = Len(inbox) + Len(told)
        /\ \A k \in 1 .. Len(inbox) : inbox'[k] = inbox[k]
        /\ \A k \in 1 .. Len(told) : /\ inbox'[Len(inbox) + k].kind = "change"
                                     /\ inbox'[Len(inbox) + k].status = told[k]
                                     /\ inbox'[Len(inbox) + k].port = port
    BY <2>1, SentChanges DEF Types
  <2>3. Len(told) \in Nat /\ Len(told) > 0 /\ Len(inbox) \in Nat /\ inbox' # <<>>
    BY <2>2 DEF Types
  <2>4. Delivered'
    <3>1. inbox'[Len(inbox')].status = told[Len(told)] /\ inbox'[Len(inbox')].port = port
      BY <2>2, <2>3
    <3> QED
      BY <3>1 DEF Delivered
  <2>5. Chained'
    <3> SUFFICES ASSUME NEW k \in 1 .. Len(inbox')
                 PROVE  Follows(IF k = 1 THEN window.status ELSE inbox'[k - 1].status, inbox'[k])
      BY DEF Chained
    <3> DEFINE n == Len(inbox)
    <3>0. k \in Nat /\ k >= 1 /\ n \in Nat
      <4> Len(inbox') \in Nat
        BY <2>2, <2>3
      <4> QED
        BY <2>3
    <3>1. CASE k <= Len(inbox)
      <4>0. k \in 1 .. n /\ (k # 1 => k - 1 \in 1 .. n)
        BY <3>0, <3>1
      <4>1. k \in 1 .. Len(inbox) /\ inbox'[k] = inbox[k] /\ (k # 1 => inbox'[k - 1] = inbox[k - 1])
        BY <2>2, <4>0
      <4> QED
        BY <4>1 DEF Chained
    <3>2. CASE k = Len(inbox) + 1
      <4>1. inbox'[k].kind = "change" /\ inbox'[k].status = told[1] /\ inbox'[k].port = port
        BY <2>2, <2>3, <3>2
      <4>2. CASE Len(inbox) = 0
        <5>1. k = 1 /\ inbox = <<>>
          BY <4>2, <3>2 DEF Types
        <5>2. window.status = tunnel.status \/ window.status = "disconnected"
          BY <5>1, <1>2 DEF Synced
        <5> QED
          BY <4>1, <5>1, <5>2, <2>3 DEF Follows
      <4>3. CASE Len(inbox) > 0
        <5>0. k # 1 /\ k - 1 = n /\ n \in 1 .. n
          BY <4>3, <3>2, <3>0
        <5>1. k # 1 /\ inbox'[k - 1] = inbox[Len(inbox)] /\ inbox # <<>>
          BY <5>0, <2>2, <4>3 DEF Types
        <5>2. inbox'[k - 1].status = tunnel.status
          BY <5>1 DEF Delivered
        <5> QED
          BY <4>1, <5>1, <5>2, <2>3 DEF Follows
      <4> QED
        BY <4>2, <4>3, <2>3
    <3>3. CASE k > Len(inbox) + 1
      <4> DEFINE j == k - Len(inbox)
      <4>1. j \in 2 .. Len(told) /\ j - 1 \in 1 .. Len(told) /\ j \in 1 .. Len(told)
        BY <3>3, <2>2, <2>3
      <4>2. inbox'[k].status = told[j] /\ inbox'[k - 1].status = told[j - 1]
        <5>1. k = Len(inbox) + j /\ k - 1 = Len(inbox) + (j - 1)
          BY <2>3
        <5> QED
          BY <5>1, <4>1, <2>2
      <4>3. told[j] # "connected" /\ told[j - 1] # "connected" /\ k # 1
        BY <4>1, <2>3, <3>3
      <4> QED
        BY <4>2, <4>3 DEF Follows
    <3> QED
      BY <3>0, <3>1, <3>2, <3>3
  <2>6. Unheard' /\ ShownFixed' /\ Synced'
    BY <1>2, <2>3 DEF Unheard, ShownFixed, Synced
  <2> QED
    BY <2>2, <2>4, <2>5, <2>6
<1> QED
  BY <1>1, <1>2 DEF Types

\* A step that tells nothing and leaves the status and the port leaves the window in step.
LEMMA SilentKeeps ==
    ASSUME Types, Unheard, Delivered, Chained, ShownFixed, Synced,
           UNCHANGED <<window, typed, inbox>>, tunnel'.status = tunnel.status, tunnel'.port = tunnel.port
    PROVE  inbox' \in Seq(Message) /\ Unheard' /\ Delivered' /\ Chained' /\ ShownFixed' /\ Synced'
BY DEF Types, Unheard, Delivered, Chained, ShownFixed, Synced

-----------------------------------------------------------------------------
(* The ssh clients. *)

Live == {"connecting", "ready"}

\* A client that is ended is no longer live, and no other one changes.
LEMMA EndClientKeeps ==
    ASSUME Types, NEW i \in 0 .. Len(clients)
    PROVE  /\ EndClient(i) \in Seq(ClientStates)
           /\ Len(EndClient(i)) = Len(clients)
           /\ \A j \in 1 .. Len(clients) :
                EndClient(i)[j] = IF j = i /\ clients[j] \in Live THEN "ended" ELSE clients[j]
<1>1. clients \in Seq(ClientStates)
  BY DEF Types
<1>2. CASE i > 0 /\ clients[i] \in Live
  <2>1. EndClient(i) = [clients EXCEPT ![i] = "ended"]
    BY <1>2 DEF EndClient, Live
  <2>2. "ended" \in ClientStates
    BY DEF ClientStates
  <2> QED
    BY <1>1, <1>2, <2>1, <2>2
<1>3. CASE ~(i > 0 /\ clients[i] \in Live)
  <2>1. EndClient(i) = clients
    BY <1>3 DEF EndClient, Live
  <2> QED
    BY <1>1, <1>3, <2>1
<1> QED
  BY <1>2, <1>3

\* The tunnel's client is the only live one: ending it leaves none.
LEMMA NoneLive ==
    ASSUME Types, TunnelWhole
    PROVE  /\ EndClient(tunnel.client) \in Seq(ClientStates)
           /\ Len(EndClient(tunnel.client)) = Len(clients)
           /\ \A j \in 1 .. Len(clients) : EndClient(tunnel.client)[j] \notin Live
<1>1. tunnel.client \in 0 .. Len(clients)
  BY DEF Types
<1> QED
  BY <1>1, EndClientKeeps DEF TunnelWhole, Live

\* A tunnel without a server is whole when no client is live, or it connects with the
\* one that is.
LEMMA WithoutServer ==
    ASSUME tunnel' \in [status : Statuses, client : Nat, server : Nat, port : Nat],
           clients' \in Seq(ClientStates),
           tunnel'.status # "connected", tunnel'.server = 0, tunnel'.port = 0,
           tunnel'.status = "disconnected" => tunnel' = NoTunnel,
           tunnel'.status = "connecting" => tunnel'.client > 0 /\ clients'[tunnel'.client] = "connecting",
           \A j \in 1 .. Len(clients') :
               clients'[j] \in Live => tunnel'.status = "connecting" /\ j = tunnel'.client
    PROVE  TunnelWhole' /\ Handed'
<1>1. tunnel'.status = "error" => \A j \in 1 .. Len(clients') : clients'[j] \notin {"connecting", "ready"}
  BY DEF Live
<1> QED
  BY <1>1 DEF TunnelWhole, Handed, Live

\* A sequence of statuses with one more: what an observer of its ends and of its
\* members finds.
LEMMA OneMore ==
    ASSUME NEW s \in Seq(Statuses), NEW e \in Statuses
    PROVE  /\ s \o <<e>> \in Seq(Statuses) /\ s \o <<e>> # <<>>
           /\ (s \o <<e>>)[Len(s \o <<e>>)] = e
           /\ (s \o <<e>>)[1] = IF s = <<>> THEN e ELSE s[1]
           /\ e # "connected" /\ (\A k \in 1 .. Len(s) : s[k] # "connected") =>
                \A k \in 1 .. Len(s \o <<e>>) : (s \o <<e>>)[k] # "connected"
<1>1. /\ s \o <<e>> \in Seq(Statuses) /\ Len(s \o <<e>>) = Len(s) + 1
      /\ \A k \in 1 .. Len(s) + 1 : (s \o <<e>>)[k] = IF k <= Len(s) THEN s[k] ELSE e
  OBVIOUS
<1>2. Len(s) \in Nat /\ (s = <<>> <=> Len(s) = 0)
  OBVIOUS
<1>3. s \o <<e>> # <<>>
  BY <1>1, <1>2
<1>4. (s \o <<e>>)[Len(s) + 1] = e
  BY <1>1, <1>2
<1>5. (s \o <<e>>)[1] = IF s = <<>> THEN e ELSE s[1]
  BY <1>1, <1>2
<1>6. ASSUME e # "connected", \A k \in 1 .. Len(s) : s[k] # "connected", NEW k \in 1 .. Len(s) + 1
      PROVE  (s \o <<e>>)[k] # "connected"
  BY <1>1, <1>2, <1>6
<1> QED
  BY <1>1, <1>3, <1>4, <1>5, <1>6

\* The statuses told when a tunnel is made: down first when it was not, then connecting.
LEMMA ToldAtCreation ==
    ASSUME tunnel.status \in Statuses
    PROVE  LET told == Disconnects(tunnel) \o <<"connecting">>
               made == told \o <<"error">>
           IN  /\ told \in Seq(Statuses) /\ told # <<>> /\ told[Len(told)] = "connecting"
               /\ \A k \in 1 .. Len(told) : told[k] # "connected"
               /\ tunnel.status = "connected" => told[1] = "disconnected"
               /\ made \in Seq(Statuses) /\ made # <<>> /\ made[Len(made)] = "error"
               /\ \A k \in 1 .. Len(made) : made[k] # "connected"
               /\ tunnel.status = "connected" => made[1] = "disconnected"
<1> DEFINE down == Disconnects(tunnel)
           told == down \o <<"connecting">>
           made == told \o <<"error">>
<1>1. /\ down \in Seq(Statuses) /\ \A k \in 1 .. Len(down) : down[k] # "connected"
      /\ tunnel.status = "connected" => down # <<>> /\ down[1] = "disconnected"
  <2>1. CASE tunnel.status = "disconnected"
    <3>1. down = <<>>
      BY <2>1 DEF Disconnects
    <3> QED
      BY <2>1, <3>1
  <2>2. CASE tunnel.status # "disconnected"
    <3>1. down = <<"disconnected">>
      BY <2>2 DEF Disconnects
    <3> HIDE DEF down
    <3> QED
      BY <3>1 DEF Statuses
  <2> QED
    BY <2>1, <2>2
<1>2. "connecting" \in Statuses /\ "error" \in Statuses
  BY DEF Statuses
<1> HIDE DEF down
<1>3. /\ told \in Seq(Statuses) /\ told # <<>> /\ told[Len(told)] = "connecting"
      /\ \A k \in 1 .. Len(told) : told[k] # "connected"
      /\ tunnel.status = "connected" => told[1] = "disconnected"
  BY <1>1, <1>2, OneMore
<1> HIDE DEF told
<1>4. /\ made \in Seq(Statuses) /\ made # <<>> /\ made[Len(made)] = "error"
      /\ \A k \in 1 .. Len(made) : made[k] # "connected"
      /\ tunnel.status = "connected" => made[1] = "disconnected"
  BY <1>2, <1>3, OneMore
<1> QED
  BY <1>3, <1>4 DEF down, told

-----------------------------------------------------------------------------
(* One lemma per action of the main process. *)

\* What the parts of a step give together.
LEMMA Together ==
    ASSUME clients' \in Seq(ClientStates), tunnel' \in [status : Statuses, client : 0 .. Len(clients'), server : Nat, port : Nat],
           inbox' \in Seq(Message), Types, UNCHANGED windowVars,
           TunnelWhole', Handed', Unheard', Delivered', Chained', ShownFixed', Synced'
    PROVE  ConnInv'
BY DEF ConnInv, Types, windowVars

\* A step that leaves no tunnel and no live client, and tells of it what changed.
LEMMA TornDown ==
    ASSUME ConnInv, UNCHANGED windowVars, tunnel' = NoTunnel,
           clients' \in Seq(ClientStates), \A j \in 1 .. Len(clients') : clients'[j] \notin Live,
           \/ Send(Disconnects(tunnel), 0)
           \/ Send(<<"error", "disconnected">>, 0)
    PROVE  ConnInv'
<1> USE DEF ConnInv
<1>1. tunnel' \in [status : Statuses, client : 0 .. Len(clients'), server : Nat, port : Nat]
  BY DEF NoTunnel, Statuses
<1>2. TunnelWhole' /\ Handed'
  BY <1>1, WithoutServer DEF NoTunnel
<1>3. inbox' \in Seq(Message) /\ Unheard' /\ Delivered' /\ Chained' /\ ShownFixed' /\ Synced'
  <2>0. tunnel'.status = "disconnected" /\ tunnel'.port = 0
    BY DEF NoTunnel
  <2>1. CASE tunnel.status = "disconnected" /\ Send(Disconnects(tunnel), 0)
    <3>1. inbox' = inbox
      BY <2>1 DEF Send, Disconnects, Types
    <3>2. tunnel'.status = tunnel.status /\ tunnel'.port = tunnel.port
      BY <2>1 DEF TunnelWhole
    <3> QED
      BY <3>1, <3>2, SilentKeeps DEF windowVars
  <2>2. CASE tunnel.status # "disconnected" /\ Send(Disconnects(tunnel), 0)
    <3>1. Send(<<"disconnected">>, 0)
      BY <2>2 DEF Disconnects
    <3> DEFINE told == <<"disconnected">>
    <3>2. /\ told \in Seq(Statuses) /\ told # <<>> /\ told[Len(told)] = "disconnected"
          /\ told[1] = "disconnected" /\ \A k \in 1 .. Len(told) : told[k] # "connected"
      BY DEF Statuses
    <3> HIDE DEF told
    <3> QED
      BY <3>1, <3>2, <2>0, SendKeeps DEF windowVars, told
  <2>3. CASE Send(<<"error", "disconnected">>, 0)
    <3> DEFINE told == <<"error", "disconnected">>
    <3>2. /\ told \in Seq(Statuses) /\ told # <<>> /\ told[Len(told)] = "disconnected"
          /\ told[1] = "error" /\ \A k \in 1 .. Len(told) : told[k] # "connected"
      BY DEF Statuses
    <3>3. Send(told, 0)
      BY <2>3
    <3> HIDE DEF told
    <3> QED
      BY <3>2, <3>3, <2>0, SendKeeps DEF windowVars
  <2> QED
    BY <2>1, <2>2, <2>3
<1> QED
  BY <1>1, <1>2, <1>3, Together

LEMMA CreateTunnelInv ==
    ASSUME ConnInv, CreateTunnel
    PROVE  ConnInv'
<1> USE DEF ConnInv
<1> DEFINE torn == EndClient(tunnel.client)
           made == Len(clients) + 1
           told == Disconnects(tunnel) \o <<"connecting">>
<1>1. torn \in Seq(ClientStates) /\ Len(torn) = Len(clients) /\ \A j \in 1 .. Len(clients) : torn[j] \notin Live
  BY NoneLive
<1>2. tunnel.status \in Statuses /\ made \in Nat /\ Len(clients) \in Nat
  BY DEF Types
<1>3. PICK outcome \in {"no_key", "throws", "starts"} : ConnectTunnel(outcome)
  BY DEF CreateTunnel
<1>4. UNCHANGED windowVars
  BY DEF CreateTunnel
<1>5. CASE outcome = "no_key"
  <2>1. tunnel' = [NoTunnel EXCEPT !.status = "error"] /\ clients' = torn /\ Send(told \o <<"error">>, 0)
    BY <1>3, <1>5 DEF ConnectTunnel, UpdateStatus, Destroyed
  <2>2. /\ tunnel' \in [status : Statuses, client : 0 .. Len(clients'), server : Nat, port : Nat]
        /\ tunnel'.status = "error" /\ tunnel'.server = 0 /\ tunnel'.port = 0
    BY <2>1, <1>1, <1>2 DEF NoTunnel, Statuses
  <2>3. TunnelWhole' /\ Handed'
    BY <2>1, <2>2, <1>1, WithoutServer
  <2>4. inbox' \in Seq(Message) /\ Unheard' /\ Delivered' /\ Chained' /\ ShownFixed' /\ Synced'
    BY <2>1, <2>2, <1>2, <1>4, ToldAtCreation, SendKeeps DEF windowVars
  <2> QED
    BY <2>1, <2>2, <2>3, <2>4, <1>1, <1>4, Together
<1>6. CASE outcome = "throws"
  <2>1. tunnel' = [NoTunnel EXCEPT !.status = "error", !.client = made] /\ clients' = Append(torn, "idle")
        /\ Send(told \o <<"error">>, 0)
    BY <1>3, <1>6 DEF ConnectTunnel, UpdateStatus, Destroyed
  <2>2. clients' \in Seq(ClientStates) /\ Len(clients') = made /\ \A j \in 1 .. made : clients'[j] \notin Live
    BY <2>1, <1>1, <1>2 DEF ClientStates, Live
  <2>3. /\ tunnel' \in [status : Statuses, client : 0 .. Len(clients'), server : Nat, port : Nat]
        /\ tunnel'.status = "error" /\ tunnel'.server = 0 /\ tunnel'.port = 0
    <3>1. made \in 0 .. Len(clients')
      BY <2>2, <1>2
    <3> QED
      BY <2>1, <3>1 DEF NoTunnel, Statuses
  <2>4. TunnelWhole' /\ Handed'
    BY <2>2, <2>3, WithoutServer
  <2>5. inbox' \in Seq(Message) /\ Unheard' /\ Delivered' /\ Chained' /\ ShownFixed' /\ Synced'
    BY <2>1, <2>3, <1>2, <1>4, ToldAtCreation, SendKeeps DEF windowVars
  <2> QED
    BY <2>2, <2>3, <2>4, <2>5, <1>4, Together
<1>7. CASE outcome = "starts"
  <2>1. tunnel' = [NoTunnel EXCEPT !.status = "connecting", !.client = made] /\ clients' = Append(torn, "connecting")
        /\ Send(told, 0)
    BY <1>3, <1>7 DEF ConnectTunnel, UpdateStatus, Destroyed
  <2>2. /\ clients' \in Seq(ClientStates) /\ Len(clients') = made /\ clients'[made] = "connecting"
        /\ \A j \in 1 .. made : clients'[j] \in Live => j = made
    BY <2>1, <1>1, <1>2 DEF ClientStates, Live
  <2>3. /\ tunnel' \in [status : Statuses, client : 0 .. Len(clients'), server : Nat, port : Nat]
        /\ tunnel'.status = "connecting" /\ tunnel'.client = made /\ tunnel'.server = 0 /\ tunnel'.port = 0
    <3>1. made \in 0 .. Len(clients')
      BY <2>2, <1>2
    <3> QED
      BY <2>1, <3>1 DEF NoTunnel, Statuses
  <2>4. TunnelWhole' /\ Handed'
    BY <2>2, <2>3, <1>2, WithoutServer
  <2>5. inbox' \in Seq(Message) /\ Unheard' /\ Delivered' /\ Chained' /\ ShownFixed' /\ Synced'
    BY <2>1, <2>3, <1>2, <1>4, ToldAtCreation, SendKeeps DEF windowVars
  <2> QED
    BY <2>2, <2>3, <2>4, <2>5, <1>4, Together
<1> QED
  BY <1>3, <1>5, <1>6, <1>7

LEMMA DisconnectInv ==
    ASSUME ConnInv, Disconnect
    PROVE  ConnInv'
BY TornDown, NoneLive DEF ConnInv, Disconnect, DestroyTunnel, Destroyed

LEMMA ServerFailsInv ==
    ASSUME ConnInv, ServerFails
    PROVE  ConnInv'
BY TornDown, NoneLive DEF ConnInv, ServerFails, Destroyed

LEMMA ClientFailsInv ==
    ASSUME ConnInv, NEW i \in 1 .. Len(clients), ClientFails(i)
    PROVE  ConnInv'
<1>1. clients' = [EndClient(tunnel.client) EXCEPT ![i] = "ended"] /\ tunnel' = NoTunnel /\ UNCHANGED windowVars
      /\ Send(<<"error", "disconnected">>, 0)
  BY DEF ClientFails, Destroyed
<1>2. clients' \in Seq(ClientStates) /\ Len(clients') = Len(clients) /\ \A j \in 1 .. Len(clients) : clients'[j] \notin Live
  BY <1>1, NoneLive DEF ConnInv, ClientStates, Live
<1> QED
  BY <1>1, <1>2, TornDown

LEMMA ClientClosesInv ==
    ASSUME ConnInv, NEW i \in 1 .. Len(clients), ClientCloses(i)
    PROVE  ConnInv'
<1>1. clients' = [EndClient(tunnel.client) EXCEPT ![i] = "gone"] /\ tunnel' = NoTunnel /\ UNCHANGED windowVars
      /\ Send(Disconnects(tunnel), 0)
  BY DEF ClientCloses, DestroyTunnel, Destroyed
<1>2. clients' \in Seq(ClientStates) /\ Len(clients') = Len(clients) /\ \A j \in 1 .. Len(clients) : clients'[j] \notin Live
  BY <1>1, NoneLive DEF ConnInv, ClientStates, Live
<1> QED
  BY <1>1, <1>2, TornDown

\* A session that comes up is the tunnel's, which connects and has no server yet.
LEMMA ClientReadyInv ==
    ASSUME ConnInv, NEW i \in 1 .. Len(clients), ClientReady(i)
    PROVE  ConnInv'
<1> USE DEF ConnInv
<1>1. clients[i] = "connecting" /\ clients' = [clients EXCEPT ![i] = "ready"]
      /\ tunnel' = [tunnel EXCEPT !.server = i] /\ UNCHANGED <<inbox, windowVars>>
  BY DEF ClientReady
<1>2. tunnel.client = i /\ tunnel.status = "connecting" /\ tunnel.port = 0
  <2>1. tunnel.client = i
    BY <1>1 DEF TunnelWhole
  <2>2. tunnel.status # "disconnected"
    BY <2>1 DEF TunnelWhole, NoTunnel
  <2>3. tunnel.status # "error" /\ tunnel.status # "connected"
    BY <1>1, <2>1 DEF TunnelWhole, Handed
  <2>4. tunnel.status = "connecting"
    BY <2>2, <2>3 DEF Types, Statuses
  <2> QED
    BY <2>1, <2>4 DEF TunnelWhole
<1>3. /\ clients' \in Seq(ClientStates) /\ Len(clients') = Len(clients) /\ clients'[i] = "ready"
      /\ \A j \in 1 .. Len(clients) : j # i => clients'[j] = clients[j]
  BY <1>1 DEF Types, ClientStates
<1>4. /\ tunnel' \in [status : Statuses, client : 0 .. Len(clients'), server : Nat, port : Nat]
      /\ tunnel'.status = "connecting" /\ tunnel'.client = i /\ tunnel'.server = i /\ tunnel'.port = 0
  BY <1>1, <1>2, <1>3 DEF Types
<1>5. TunnelWhole' /\ Handed'
  <2>1. \A j \in 1 .. Len(clients') : clients'[j] \in {"connecting", "ready"} => j = i
    BY <1>2, <1>3 DEF TunnelWhole
  <2> QED
    BY <1>3, <1>4, <2>1 DEF TunnelWhole, Handed
<1>6. inbox' \in Seq(Message) /\ Unheard' /\ Delivered' /\ Chained' /\ ShownFixed' /\ Synced'
  BY <1>1, <1>2, <1>4, SilentKeeps DEF windowVars
<1> QED
  BY <1>1, <1>3, <1>4, <1>5, <1>6, Together

LEMMA ServerListensInv ==
    ASSUME ConnInv, ServerListens
    PROVE  ConnInv'
<1> USE DEF ConnInv
<1>1. tunnel.server > 0 /\ tunnel.port = 0 /\ Send(<<"connected">>, tunnel.server) /\ UNCHANGED <<clients, windowVars>>
      /\ tunnel' = [tunnel EXCEPT !.port = tunnel.server, !.status = "connected"]
  BY DEF ServerListens, UpdateStatus, Types
<1>2. tunnel.status = "connecting" /\ tunnel.server = tunnel.client /\ clients[tunnel.client] = "ready"
  <2>1. tunnel.status # "disconnected" /\ tunnel.status # "error"
    BY <1>1 DEF TunnelWhole, NoTunnel
  <2>2. tunnel.status # "connected"
    BY <1>1 DEF TunnelWhole, Types
  <2>3. tunnel.status = "connecting"
    BY <2>1, <2>2 DEF Types, Statuses
  <2> QED
    BY <1>1, <2>3 DEF TunnelWhole, Handed
<1>3. /\ tunnel' \in [status : Statuses, client : 0 .. Len(clients'), server : Nat, port : Nat]
      /\ tunnel'.status = "connected" /\ tunnel'.client = tunnel.client /\ tunnel'.server = tunnel.client
      /\ tunnel'.port = tunnel.client /\ tunnel.client > 0
  BY <1>1, <1>2 DEF Types, Statuses
<1>4. TunnelWhole' /\ Handed'
  BY <1>1, <1>2, <1>3 DEF TunnelWhole, Handed
<1>5. inbox' \in Seq(Message) /\ Unheard' /\ Delivered' /\ Chained' /\ ShownFixed' /\ Synced'
  <2> DEFINE told == <<"connected">>
  <2>1. told \in Seq(Statuses) /\ told # <<>> /\ told[Len(told)] = "connected" /\ Len(told) = 1
    BY DEF Statuses
  <2>2. Send(told, tunnel.client)
    BY <1>1, <1>2
  <2>3. tunnel.client \in Nat
    BY DEF Types
  <2> HIDE DEF told
  <2> QED
    BY <2>1, <2>2, <2>3, <1>1, <1>2, <1>3, SendKeeps DEF windowVars
<1> QED
  BY <1>1, <1>3, <1>4, <1>5, Together DEF Types

\* The reply is as the last message, or the first the window hears.
LEMMA TunnelStatusInv ==
    ASSUME ConnInv, TunnelStatus
    PROVE  ConnInv'
<1> USE DEF ConnInv
<1> DEFINE e == StatusMessage("reply", tunnel.status, tunnel.port)
<1>1. window.asking /\ inbox' = Append(inbox, e) /\ window' = [window EXCEPT !.asking = FALSE]
      /\ UNCHANGED <<tunnelVars, stored, typed>>
  BY DEF TunnelStatus
<1>2. e \in Message /\ e.status = tunnel.status /\ e.port = tunnel.port
  BY DEF StatusMessage, Message, Types
<1>3. window.up
  BY <1>1 DEF Unheard
<1>4. /\ window' \in [up : BOOLEAN, asking : BOOLEAN, status : Statuses, url : Urls]
      /\ window'.up /\ window'.status = window.status /\ window'.url = window.url
  BY <1>1, <1>3 DEF Types
<1> HIDE DEF e
<1>5. /\ inbox' \in Seq(Message) /\ Len(inbox') = Len(inbox) + 1 /\ inbox'[Len(inbox) + 1] = e
      /\ inbox' # <<>> /\ Len(inbox) \in Nat
      /\ \A k \in 1 .. Len(inbox) : inbox'[k] = inbox[k]
  <2>1. inbox \in Seq(Message) /\ inbox' = Append(inbox, e)
    BY <1>1 DEF Types
  <2> QED
    BY <2>1, <1>2
<1>6. Types' /\ TunnelWhole' /\ Handed'
  BY <1>1, <1>4, <1>5 DEF Types, TunnelWhole, Handed, tunnelVars
<1>7. Delivered'
  BY <1>1, <1>2, <1>5 DEF Delivered, tunnelVars
<1>8. Chained'
  <2> SUFFICES ASSUME NEW k \in 1 .. Len(inbox')
               PROVE  Follows(IF k = 1 THEN window.status ELSE inbox'[k - 1].status, inbox'[k])
    BY <1>4 DEF Chained
  <2>1. CASE k \in 1 .. Len(inbox)
    <3>1. k # 1 => k - 1 \in 1 .. Len(inbox)
      BY <2>1, <1>5
    <3> QED
      BY <2>1, <3>1, <1>5 DEF Chained
  <2>2. CASE k = Len(inbox) + 1
    <3>1. tunnel.status = "connected" => e.port > 0
      BY <1>2 DEF TunnelWhole
    <3>2. CASE inbox = <<>>
      <4>1. k = 1
        BY <2>2, <3>2
      <4>2. window.status = tunnel.status \/ window.status = "disconnected"
        BY <3>2, <1>3 DEF Synced
      <4> QED
        BY <4>1, <4>2, <3>1, <2>2, <1>2, <1>5 DEF Follows
    <3>3. CASE inbox # <<>>
      <4>1. k # 1 /\ k - 1 = Len(inbox) /\ Len(inbox) \in 1 .. Len(inbox)
        BY <2>2, <3>3 DEF Types
      <4>2. inbox'[k - 1].status = tunnel.status
        BY <3>3, <4>1, <1>5 DEF Delivered
      <4> QED
        BY <4>1, <4>2, <3>1, <2>2, <1>2, <1>5 DEF Follows
    <3> QED
      BY <3>2, <3>3
  <2> QED
    BY <2>1, <2>2, <1>5
<1>9. Unheard' /\ ShownFixed' /\ Synced'
  BY <1>1, <1>3, <1>4, <1>5 DEF Unheard, ShownFixed, Synced
<1> QED
  BY <1>6, <1>7, <1>8, <1>9

-----------------------------------------------------------------------------
(* One lemma per action of the window. *)

\* The window shows the next message; after the last one it is in step.
LEMMA ShowStatusInv ==
    ASSUME ConnInv, ShowStatus
    PROVE  ConnInv'
<1> USE DEF ConnInv
<1> DEFINE e == Head(inbox)
           up == e.status = "connected" /\ e.port > 0
           down == e.kind = "change" /\ e.status \in {"disconnected", "error"}
<1>1. /\ inbox # <<>> /\ window.up
      /\ window' = [window EXCEPT !.status = e.status,
                                  !.url = IF up THEN TunnelUrl(e.port) ELSE IF down THEN Fixed(Default) ELSE @]
      /\ typed' = (typed /\ ~up /\ ~down)
      /\ inbox' = Tail(inbox) /\ UNCHANGED <<tunnelVars, stored>>
  BY DEF ShowStatus
<1>2. /\ e \in Message /\ e = inbox[1] /\ inbox' \in Seq(Message) /\ Len(inbox) \in Nat /\ Len(inbox) > 0
      /\ Len(inbox') = Len(inbox) - 1
      /\ \A k \in 1 .. Len(inbox) - 1 : inbox'[k] = inbox[k + 1]
  BY <1>1 DEF Types
<1>3. Follows(window.status, e)
  BY <1>2 DEF Chained
<1>4. TunnelUrl(e.port) \in Urls /\ Fixed(Default) \in Urls /\ e.status \in Statuses /\ e.port \in Nat
  BY <1>2 DEF Urls, Message
<1>5. /\ window' \in [up : BOOLEAN, asking : BOOLEAN, status : Statuses, url : Urls]
      /\ window'.up /\ window'.status = e.status /\ window'.asking = window.asking
      /\ window'.url = IF up THEN TunnelUrl(e.port) ELSE IF down THEN Fixed(Default) ELSE window.url
  BY <1>1, <1>4 DEF Types
<1> HIDE DEF e
<1>6. Types' /\ TunnelWhole' /\ Handed'
  <2>1. typed' \in BOOLEAN
    BY <1>1
  <2> QED
    BY <1>1, <1>2, <1>5, <2>1 DEF Types, TunnelWhole, Handed, tunnelVars
<1>7. Delivered'
  <2>1. inbox' # <<>> => Len(inbox') = Len(inbox) - 1 /\ Len(inbox') \in 1 .. Len(inbox) - 1
    BY <1>2
  <2>2. inbox' # <<>> => inbox'[Len(inbox')] = inbox[Len(inbox)]
    BY <2>1, <1>2
  <2> QED
    BY <2>2, <1>1 DEF Delivered, tunnelVars
<1>8. Chained'
  <2> SUFFICES ASSUME NEW k \in 1 .. Len(inbox) - 1
               PROVE  Follows(IF k = 1 THEN e.status ELSE inbox'[k - 1].status, inbox'[k])
    BY <1>2, <1>5 DEF Chained
  <2>1. k + 1 \in 1 .. Len(inbox) /\ k + 1 # 1 /\ (k + 1) - 1 = k /\ (k # 1 => k - 1 \in 1 .. Len(inbox) - 1 /\ (k - 1) + 1 = k)
    BY <1>2
  <2>2. Follows(inbox[k].status, inbox[k + 1])
    BY <2>1 DEF Chained
  <2>3. k # 1 => inbox'[k - 1] = inbox[k]
    BY <2>1, <1>2
  <2> QED
    BY <2>2, <2>3, <1>2
<1>9. ShownFixed'
  <2>1. e.status \notin {"connected"} /\ ~down => window.status # "connected"
    BY <1>3 DEF Follows
  <2>2. ~up => e.status # "connected"
    BY <1>3 DEF Follows
  <2> QED
    BY <1>1, <1>5, <2>1, <2>2 DEF ShownFixed
<1>10. Synced'
  <2> SUFFICES ASSUME inbox' = <<>>
               PROVE  /\ window'.status = tunnel.status
                      /\ ~typed' /\ tunnel.status = "connected" => window'.url = TunnelUrl(tunnel.port)
    BY <1>1 DEF Synced, tunnelVars
  <2>1. Len(inbox) = 1
    BY <1>2
  <2>2. e.status = tunnel.status /\ e.port = tunnel.port
    BY <2>1, <1>1, <1>2 DEF Delivered
  <2>3. e.status = "connected" => up
    BY <1>3 DEF Follows
  <2> QED
    BY <1>5, <2>2, <2>3
<1>11. Unheard'
  BY <1>5 DEF Unheard
<1> QED
  BY <1>6, <1>7, <1>8, <1>9, <1>10, <1>11

\* What the user types and what is stored concern no message.
LEMMA UrlTypedInv ==
    ASSUME ConnInv, SetBackendUrl \/ Persist
    PROVE  ConnInv'
<1> USE DEF ConnInv
<1>1. CASE SetBackendUrl
  <2>1. /\ window' = [window EXCEPT !.url = Fixed("custom")] /\ typed' = TRUE
        /\ UNCHANGED <<tunnelVars, inbox, stored>> /\ Fixed("custom") \in Urls
    BY <1>1 DEF SetBackendUrl, Urls
  <2>2. /\ window' \in [up : BOOLEAN, asking : BOOLEAN, status : Statuses, url : Urls]
        /\ window'.up = window.up /\ window'.asking = window.asking /\ window'.status = window.status
    BY <2>1 DEF Types
  <2>3. Types' /\ TunnelWhole' /\ Handed'
    BY <2>1, <2>2 DEF Types, TunnelWhole, Handed, tunnelVars
  <2>4. Unheard' /\ Delivered' /\ Chained' /\ ShownFixed' /\ Synced'
    BY <2>1, <2>2 DEF Unheard, Delivered, Chained, ShownFixed, Synced, tunnelVars
  <2> QED
    BY <2>3, <2>4
<1>2. CASE Persist
  <2>1. stored' = window.url /\ UNCHANGED <<tunnelVars, inbox, window, typed>>
    BY <1>2 DEF Persist
  <2>2. Types' /\ TunnelWhole' /\ Handed'
    BY <2>1 DEF Types, TunnelWhole, Handed, tunnelVars
  <2>3. Unheard' /\ Delivered' /\ Chained' /\ ShownFixed' /\ Synced'
    BY <2>1 DEF Unheard, Delivered, Chained, ShownFixed, Synced, tunnelVars
  <2> QED
    BY <2>2, <2>3
<1> QED
  BY <1>1, <1>2

\* A window that loads shows nothing it was told, and asks.
LEMMA MountInv ==
    ASSUME ConnInv, Mount
    PROVE  ConnInv'
<1> USE DEF ConnInv
<1> DEFINE url == IF stored = Fixed("none") THEN Fixed(Default) ELSE stored
<1>1. /\ ~window.up /\ window' = [up |-> TRUE, asking |-> TRUE, status |-> "disconnected", url |-> url]
      /\ typed' = (url # Fixed(Default)) /\ UNCHANGED <<tunnelVars, inbox, stored>>
  BY DEF Mount
<1>2. url \in Urls
  BY DEF Types, Urls
<1> HIDE DEF url
<1>3. inbox = <<>>
  BY <1>1 DEF Unheard
<1>4. Types' /\ TunnelWhole' /\ Handed'
  BY <1>1, <1>2 DEF Types, Statuses, TunnelWhole, Handed, tunnelVars
<1>5. /\ window'.up /\ window'.asking /\ window'.status = "disconnected" /\ window'.url = url
      /\ inbox' = <<>> /\ typed' = (url # Fixed(Default))
  BY <1>1, <1>3
<1>6. Unheard' /\ Delivered' /\ Chained' /\ ShownFixed' /\ Synced'
  <2>1. Unheard' /\ Delivered' /\ Synced'
    BY <1>5 DEF Unheard, Delivered, Synced
  <2>2. Chained'
    BY <1>5 DEF Chained
  <2>3. ShownFixed'
    BY <1>5 DEF ShownFixed
  <2> QED
    BY <2>1, <2>2, <2>3
<1> QED
  BY <1>4, <1>6

\* A window that goes loses what was sent to it; with the application the tunnel goes too.
LEMMA UnloadInv ==
    ASSUME ConnInv, Unload \/ Quit
    PROVE  ConnInv'
<1> USE DEF ConnInv
<1>1. /\ window' = [window EXCEPT !.up = FALSE, !.asking = FALSE] /\ inbox' = <<>> /\ UNCHANGED <<stored, typed>>
      /\ \/ UNCHANGED tunnelVars
         \/ tunnel' = NoTunnel /\ clients' = [i \in 1 .. Len(clients) |-> "gone"]
  BY DEF Unload, Quit
<1>2. /\ window' \in [up : BOOLEAN, asking : BOOLEAN, status : Statuses, url : Urls]
      /\ window'.up = FALSE /\ window'.asking = FALSE
  BY <1>1 DEF Types
<1>3. Unheard' /\ Delivered' /\ Chained' /\ ShownFixed' /\ Synced' /\ inbox' \in Seq(Message)
  BY <1>1, <1>2 DEF Unheard, Delivered, Chained, ShownFixed, Synced
<1>4. CASE UNCHANGED tunnelVars
  BY <1>1, <1>2, <1>3, <1>4 DEF Types, TunnelWhole, Handed, tunnelVars
<1>5. CASE tunnel' = NoTunnel /\ clients' = [i \in 1 .. Len(clients) |-> "gone"]
  <2>1. clients' \in Seq(ClientStates) /\ Len(clients') = Len(clients) /\ \A j \in 1 .. Len(clients') : clients'[j] \notin Live
    BY <1>5 DEF Types, ClientStates, Live
  <2>2. tunnel' \in [status : Statuses, client : 0 .. Len(clients'), server : Nat, port : Nat]
    BY <1>5, <2>1 DEF NoTunnel, Statuses, Types
  <2>3. TunnelWhole' /\ Handed'
    BY <1>5, <2>1, <2>2, WithoutServer DEF NoTunnel
  <2>4. Types'
    BY <1>1, <1>2, <1>3, <2>1, <2>2 DEF Types
  <2> QED
    BY <2>3, <2>4, <1>3
<1> QED
  BY <1>1, <1>4, <1>5

-----------------------------------------------------------------------------
(* The theorems. *)

\* The invariant holds when the application starts.
LEMMA InitConnInv == ConnInit => ConnInv
<1> SUFFICES ASSUME ConnInit PROVE ConnInv
  OBVIOUS
<1> USE DEF ConnInit
<1>1. Types
  <2>1. window \in [up : BOOLEAN, asking : BOOLEAN, status : Statuses, url : Urls] /\ stored \in Urls
    BY DEF Statuses, Urls
  <2>2. tunnel \in [status : Statuses, client : 0 .. Len(clients), server : Nat, port : Nat]
    BY DEF NoTunnel, Statuses
  <2>3. clients \in Seq(ClientStates) /\ inbox \in Seq(Message)
    OBVIOUS
  <2>4. typed \in BOOLEAN
    OBVIOUS
  <2> QED
    BY <2>1, <2>2, <2>3, <2>4 DEF Types
<1>2. TunnelWhole /\ Handed
  BY DEF TunnelWhole, Handed, NoTunnel
<1>3. Unheard /\ Delivered /\ Chained /\ ShownFixed /\ Synced
  BY DEF Unheard, Delivered, Chained, ShownFixed, Synced
<1> QED
  BY <1>1, <1>2, <1>3 DEF ConnInv

\* Every step of the window and of the main process keeps it.
LEMMA NextConnInv == ConnInv /\ [ConnNext]_connVars => ConnInv'
<1> SUFFICES ASSUME ConnInv, [ConnNext]_connVars PROVE ConnInv'
  OBVIOUS
<1>1. CASE CreateTunnel
  BY <1>1, CreateTunnelInv
<1>2. CASE Disconnect
  BY <1>2, DisconnectInv
<1>3. CASE ServerListens
  BY <1>3, ServerListensInv
<1>4. CASE ServerFails
  BY <1>4, ServerFailsInv
<1>5. CASE TunnelStatus
  BY <1>5, TunnelStatusInv
<1>6. CASE \E i \in 1 .. Len(clients) : ClientReady(i) \/ ClientFails(i) \/ ClientCloses(i)
  BY <1>6, ClientReadyInv, ClientFailsInv, ClientClosesInv
<1>7. CASE ShowStatus
  BY <1>7, ShowStatusInv
<1>8. CASE SetBackendUrl \/ Persist
  BY <1>8, UrlTypedInv
<1>9. CASE Mount
  BY <1>9, MountInv
<1>10. CASE Unload \/ Quit
  BY <1>10, UnloadInv
<1>11. CASE UNCHANGED connVars
  <2>1. UNCHANGED <<tunnel, clients, inbox, window, stored, typed>>
    BY <1>11 DEF connVars
  <2> QED
    BY <2>1 DEF ConnInv, Types, TunnelWhole, Handed, Unheard, Delivered, Chained, ShownFixed, Synced
<1> QED
  BY <1>1, <1>2, <1>3, <1>4, <1>5, <1>6, <1>7, <1>8, <1>9, <1>10, <1>11 DEF ConnNext

\* Every operation of the main process and of the window, in any order, keeps the inductive
\* invariant (ssh-tunnel.cjs, useSshTunnel.ts).
THEOREM ConnInvariance == ConnSpec => []ConnInv
<1>1. ConnInit => ConnInv
  BY InitConnInv
<1>2. ConnInv /\ [ConnNext]_connVars => ConnInv'
  BY NextConnInv
<1> QED
  BY <1>1, <1>2, PTL DEF ConnSpec

\* The tunnel is whole and the window follows it, for any number of clients made and of
\* messages under way (ssh-tunnel.cjs createTunnel, destroyTunnel; the window's useSshTunnel.ts).
THEOREM TunnelStaysSound == ConnSpec => []TunnelSound
<1>1. ConnInv => TunnelSound
  <2> SUFFICES ASSUME ConnInv PROVE TunnelSound
    OBVIOUS
  <2>1. UrlFollowsTunnel
    <3> SUFFICES ASSUME window.up, ~window.asking, inbox = <<>>
                 PROVE  /\ window.status = tunnel.status
                        /\ ~typed => window.url = IF tunnel.status = "connected" THEN TunnelUrl(tunnel.port)
                                                  ELSE Fixed(Default)
      BY DEF UrlFollowsTunnel
    <3> QED
      BY DEF ConnInv, Synced, ShownFixed
  <2> QED
    BY <2>1 DEF ConnInv, TunnelSound
<1> QED
  BY <1>1, ConnInvariance, PTL

-----------------------------------------------------------------------------
(* The approval sheet.                                                      *)

AskIds == 1 .. Len(asks)
AskRows == [chat : Chats, state : {"waiting", "gone", "decided"}]
Decisions == [id : AskIds, decision : {"deny", "allow_once", "allow_session"}, answer : {"none", "ok", "expired", "error"}]

Sheets == [chat : Chats, option : 1 .. 3, focus : {"page", "palette", "composer"},
           palette : BOOLEAN, loads : Nat]

SheetTypes ==
    /\ asks \in Seq(AskRows)
    /\ announced \in Seq(AskIds) /\ approvals \in Seq(AskIds)
    /\ resolving \in BOOLEAN /\ decision \in Seq(Decisions)
    /\ sheet \in Sheets

\* A packet announces an approval that no other one does, that is not in the list yet and that
\* nobody has decided.
AnnouncedOnce ==
    /\ \A i, j \in 1 .. Len(announced) : announced[i] = announced[j] => i = j
    /\ \A i \in 1 .. Len(announced) :
         ~Contains(approvals, announced[i]) /\ asks[announced[i]].state # "decided"

\* The decision on its way is for an approval of the list, and its answer agrees with what
\* the server did unless that answer was lost.
DecisionSound ==
    \A i \in 1 .. Len(decision) :
        /\ Contains(approvals, decision[i].id)
        /\ decision[i].answer \in {"ok", "expired"} => asks[decision[i].id].state # "waiting"
        /\ asks[decision[i].id].state = "decided" /\ decision[i].id \notin unheard => decision[i].answer = "ok"
        /\ decision[i].decision # "allow_once" => decision[i].id \in chosen

\* An option other than the default one was chosen for the approval on the sheet.
OptionChosen == ShownApproval # NoApproval /\ sheet.option # 2 => ShownApproval \in chosen

\* An approval that nothing was lost of is on its way, in the list, or settled.
PromptKept(id) ==
    /\ asks[id].state = "waiting" => Contains(announced, id) \/ Contains(approvals, id)
    /\ asks[id].state = "decided" /\ Contains(approvals, id) => \E i \in 1 .. Len(decision) : decision[i].id = id

SheetInv ==
    /\ SheetTypes /\ AnnouncedOnce /\ DecisionSound /\ OptionChosen /\ OneDecision
    /\ \A id \in AskIds \ unheard : PromptKept(id)

-----------------------------------------------------------------------------
(* The approval on the sheet. *)

LEMMA MinOf ==
    ASSUME NEW S \in SUBSET Nat, S # {} PROVE Min(S) \in S
  <1>1. IsWellFoundedOn(OpToRel(<, Nat), Nat)  BY NatLessThanWellFounded
  <1>2. PICK x \in S : \A y \in S : ~(<<y, x>> \in OpToRel(<, Nat))  BY <1>1, WFMin
  <1>3. \A y \in S : y \in Nat /\ x \in Nat /\ ~(y < x)
    <2> TAKE y \in S
    <2>1. y \in Nat /\ x \in Nat  OBVIOUS
    <2>2. y < x => <<y, x>> \in OpToRel(<, Nat)  BY <2>1 DEF OpToRel
    <2> QED  BY <1>2, <2>1, <2>2
  <1>4. \A y \in S : x <= y  BY <1>3
  <1> QED  BY <1>4 DEF Min

\* It is one of the list.
LEMMA PendingListed ==
    ASSUME NEW list, list \in Seq(AskIds), NEW chat
    PROVE  /\ PendingOf(list, chat) # NoApproval => Contains(list, PendingOf(list, chat)) /\ PendingOf(list, chat) \in AskIds
           /\ list = <<>> => PendingOf(list, chat) = NoApproval
  <1>1. PICK I : I = {i \in 1 .. Len(list) : asks[list[i]].chat = chat}  OBVIOUS
  <1>2. I \in SUBSET Nat  BY <1>1
  <1>3. CASE I = {}  BY <1>1, <1>3 DEF PendingOf, SelectInSeq, NoApproval
  <1>4. CASE I # {}
    <2>1. Min(I) \in I  BY <1>2, <1>4, MinOf
    <2>2. Min(I) \in 1 .. Len(list) /\ Min(I) # 0  BY <1>1, <2>1
    <2>3. SelectInSeq(list, LAMBDA id : asks[id].chat = chat) = Min(I)  BY <1>1, <1>4 DEF SelectInSeq
    <2>4. PendingOf(list, chat) = list[Min(I)]  BY <2>2, <2>3 DEF PendingOf
    <2>5. list # <<>>  BY <2>2
    <2>6. list[Min(I)] \in AskIds  BY <2>2
    <2> QED  BY <2>2, <2>4, <2>5, <2>6 DEF Contains
  <1> QED  BY <1>3, <1>4

\* It stays while the list and the conversations of its approvals do.
LEMMA ShownSame ==
    ASSUME approvals \in Seq(AskIds), approvals' = approvals, sheet'.chat = sheet.chat,
           \A id \in AskIds : asks'[id].chat = asks[id].chat
    PROVE  ShownApproval' = ShownApproval
  <1>1. PICK I : I = {i \in 1 .. Len(approvals) : asks[approvals[i]].chat = sheet.chat}  OBVIOUS
  <1>2. I = {i \in 1 .. Len(approvals) : asks'[approvals[i]].chat = sheet.chat}  BY <1>1
  <1>3. ShownApproval = IF (IF I # {} THEN Min(I) ELSE 0) = 0 THEN NoApproval ELSE approvals[IF I # {} THEN Min(I) ELSE 0]
      BY <1>1 DEF ShownApproval, PendingOf, SelectInSeq
  <1>4. ShownApproval' = IF (IF I # {} THEN Min(I) ELSE 0) = 0 THEN NoApproval ELSE approvals[IF I # {} THEN Min(I) ELSE 0]
      BY <1>2 DEF ShownApproval, PendingOf, SelectInSeq
  <1> QED  BY <1>3, <1>4

\* A change of the list or of the conversation makes the default option active again when
\* another approval shows.
LEMMA OptionsReset ==
    ASSUME SheetTypes, OptionChosen, NEW list, NEW s, ShowApprovals(list, s), asks' = asks, chosen' = chosen,
           s.option = sheet.option,
           s \in Sheets
    PROVE  /\ OptionChosen' /\ approvals' = list
           /\ sheet' \in Sheets
  <1>1. PICK before : before = ShownApproval  OBVIOUS
  <1>2. PICK after : after = PendingOf(list, s.chat)  OBVIOUS
  <1>3. approvals' = list /\ sheet' = ResetOption(before, after, s)  BY <1>1, <1>2 DEF ShowApprovals
  <1>4. sheet'.chat = s.chat  BY <1>3 DEF ResetOption
  <1>5. ShownApproval' = after  BY <1>2, <1>3, <1>4 DEF ShownApproval, PendingOf, SelectInSeq
  <1>6. sheet' \in Sheets
    <2>1. CASE after \in {before, NoApproval}
      <3>1. sheet' = s  BY <1>3, <2>1 DEF ResetOption
      <3> QED  BY <3>1
    <2>2. CASE after \notin {before, NoApproval}
      <3>1. sheet' = [s EXCEPT !.focus = "page", !.option = 2]  BY <1>3, <2>2 DEF ResetOption
      <3>2. PICK n \in 1 .. 3 : n = 2  OBVIOUS
      <3>3. PICK focus \in {"page", "palette", "composer"} : focus = "page"  OBVIOUS
      <3>4. sheet' = [s EXCEPT !.focus = focus, !.option = n]  BY <3>1, <3>2, <3>3
      <3> QED  BY <3>4 DEF Sheets
    <2> QED  BY <2>1, <2>2
  <1>7. CASE after \in {before, NoApproval}
    <2>1. sheet' = s  BY <1>3, <1>7 DEF ResetOption
    <2> QED  BY <1>1, <1>3, <1>5, <1>6, <1>7, <2>1 DEF OptionChosen
  <1>8. CASE after \notin {before, NoApproval}
    <2>0. sheet' = [s EXCEPT !.focus = "page", !.option = 2]  BY <1>3, <1>8 DEF ResetOption
    <2>1. sheet'.option = 2  BY <2>0
    <2> QED  BY <1>3, <1>5, <1>6, <2>1 DEF OptionChosen
  <1> QED  BY <1>7, <1>8

-----------------------------------------------------------------------------
(* Its steps. *)

\* Elements of lists that grow and shrink
LEMMA ContainsAppend ==
    ASSUME NEW S, NEW list \in Seq(S), NEW x \in S, NEW y
    PROVE  Contains(Append(list, x), y) <=> Contains(list, y) \/ y = x
  <1>1. PICK t : t = Append(list, x)  OBVIOUS
  <1>2. /\ Len(t) = Len(list) + 1 /\ Len(list) \in Nat
        /\ \A i \in 1 .. Len(list) : t[i] = list[i] /\ t[Len(list) + 1] = x
        /\ t[Len(list) + 1] = x
      BY <1>1
  <1>3. ASSUME Contains(t, y) PROVE Contains(list, y) \/ y = x
    <2>1. PICK i \in 1 .. Len(t) : t[i] = y  BY <1>3 DEF Contains
    <2>2. i \in 1 .. Len(list) \/ i = Len(list) + 1  BY <1>2
    <2> QED  BY <1>2, <2>1, <2>2 DEF Contains
  <1>4. ASSUME Contains(list, y) \/ y = x PROVE Contains(t, y)
    <2>1. CASE Contains(list, y)
      <3>1. PICK i \in 1 .. Len(list) : list[i] = y  BY <2>1 DEF Contains
      <3>2. i \in 1 .. Len(t) /\ t[i] = y  BY <1>2, <3>1
      <3> QED  BY <3>2 DEF Contains
    <2>2. CASE y = x
      <3>1. Len(list) + 1 \in 1 .. Len(t)  BY <1>2
      <3> QED  BY <1>2, <2>2, <3>1 DEF Contains
    <2> QED  BY <1>4, <2>1, <2>2
  <1> QED  BY <1>1, <1>3, <1>4

LEMMA ContainsTail ==
    ASSUME NEW S, NEW list \in Seq(S), list # <<>>, NEW y
    PROVE  /\ Contains(list, y) <=> Contains(Tail(list), y) \/ y = Head(list)
           /\ Tail(list) \in Seq(S) /\ Head(list) \in S /\ Len(Tail(list)) = Len(list) - 1
           /\ Head(list) = list[1] /\ \A i \in 1 .. Len(Tail(list)) : Tail(list)[i] = list[i + 1]
           /\ 1 \in 1 .. Len(list)
  <1>1. PICK t : t = Tail(list)  OBVIOUS
  <1>2. /\ t \in Seq(S) /\ Head(list) \in S /\ Len(t) = Len(list) - 1 /\ Len(list) \in Nat \ {0}
        /\ Head(list) = list[1] /\ \A i \in 1 .. Len(t) : t[i] = list[i + 1]
      BY <1>1, HeadTailProperties, EmptySeq
  <1>3. ASSUME Contains(t, y) \/ y = Head(list) PROVE Contains(list, y)
    <2>1. CASE Contains(t, y)
      <3>1. PICK i \in 1 .. Len(t) : t[i] = y  BY <2>1 DEF Contains
      <3>2. i + 1 \in 1 .. Len(list) /\ list[i + 1] = y  BY <1>2, <3>1
      <3> QED  BY <3>2 DEF Contains
    <2>2. CASE y = Head(list)
      <3>1. 1 \in 1 .. Len(list)  BY <1>2
      <3> QED  BY <1>2, <2>2, <3>1 DEF Contains
    <2> QED  BY <1>3, <2>1, <2>2
  <1>4. ASSUME Contains(list, y) PROVE Contains(t, y) \/ y = Head(list)
    <2>1. PICK i \in 1 .. Len(list) : list[i] = y  BY <1>4 DEF Contains
    <2>2. CASE i = 1  BY <1>2, <2>1, <2>2
    <2>3. CASE i # 1
      <3>1. i - 1 \in 1 .. Len(t) /\ (i - 1) + 1 = i  BY <1>2, <2>3
      <3>2. t[i - 1] = y  BY <1>2, <2>1, <3>1
      <3> QED  BY <3>1, <3>2 DEF Contains
    <2> QED  BY <2>2, <2>3
  <1> QED  BY <1>1, <1>2, <1>3, <1>4

\* At most one decision is on its way.
LEMMA OneSent ==
    ASSUME SheetInv
    PROVE  /\ Len(decision) \in {0, 1} /\ (Len(decision) = 1 <=> resolving)
           /\ \A i \in 1 .. Len(decision) : i = 1 /\ decision[i] \in Decisions
           /\ decision = <<>> <=> ~resolving
           /\ decision # <<>> => Head(decision) = decision[1] /\ Tail(decision) = <<>> /\ 1 \in 1 .. Len(decision)
  <1>1. decision \in Seq(Decisions) /\ Len(decision) \in Nat /\ resolving \in BOOLEAN  BY DEF SheetInv, SheetTypes
  <1>2. Len(decision) = IF resolving THEN 1 ELSE 0  BY DEF SheetInv, OneDecision
  <1>3. decision = <<>> <=> Len(decision) = 0  BY <1>1, EmptySeq
  <1>4. \A i \in 1 .. Len(decision) : decision[i] \in Decisions  BY <1>1
  <1>5. \A i \in 1 .. Len(decision) : i = 1  BY <1>2
  <1>6. decision # <<>> => Head(decision) = decision[1] /\ Tail(decision) = <<>> /\ 1 \in 1 .. Len(decision)
    <2> SUFFICES ASSUME decision # <<>> PROVE Head(decision) = decision[1] /\ Tail(decision) = <<>> /\ 1 \in 1 .. Len(decision)
        OBVIOUS
    <2>1. Len(decision) = 1  BY <1>2, <1>3
    <2>2. Tail(decision) \in Seq(Decisions) /\ Len(Tail(decision)) = 0 /\ Head(decision) = decision[1]
        BY <1>1, <2>1, HeadTailProperties
    <2>3. Tail(decision) = <<>>  BY <2>2, EmptySeq
    <2> QED  BY <2>1, <2>2, <2>3
  <1> QED  BY <1>1, <1>2, <1>3, <1>4, <1>5, <1>6

\* The packet moves the approval to the list, where it was not yet.
LEMMA EnqueueSound == ASSUME SheetInv, EnqueueCommandApproval PROVE SheetInv'
  <1>1. /\ announced \in Seq(AskIds) /\ approvals \in Seq(AskIds) /\ announced # <<>> /\ announced' = Tail(announced)
        /\ UNCHANGED <<asks, resolving, decision, chosen, unheard>>
        /\ SheetTypes /\ OptionChosen
      BY DEF SheetInv, SheetTypes, EnqueueCommandApproval
  <1>2. PICK id : id = Head(announced)  OBVIOUS
  <1>3. /\ id \in AskIds /\ id = announced[1] /\ Tail(announced) \in Seq(AskIds)
        /\ Len(Tail(announced)) = Len(announced) - 1 /\ Len(announced) \in Nat
        /\ \A i \in 1 .. Len(Tail(announced)) : Tail(announced)[i] = announced[i + 1]
        /\ \A x : Contains(announced, x) <=> Contains(Tail(announced), x) \/ x = id
        /\ 1 \in 1 .. Len(announced)
      BY <1>1, <1>2, ContainsTail
  <1>4. ~Contains(approvals, id)  BY <1>3 DEF SheetInv, AnnouncedOnce
  <1>5. ShowApprovals(Append(approvals, id), sheet)  BY <1>2, <1>4 DEF EnqueueCommandApproval
  <1>6. OptionChosen' /\ approvals' = Append(approvals, id) /\ sheet' \in Sheets
      BY <1>1, <1>5, OptionsReset DEF SheetTypes
  <1>7. /\ approvals' \in Seq(AskIds)
        /\ \A x : Contains(approvals', x) <=> Contains(approvals, x) \/ x = id
      BY <1>1, <1>3, <1>6, ContainsAppend
  <1>8. SheetTypes'  BY <1>1, <1>3, <1>6, <1>7 DEF SheetTypes, AskIds, Decisions
  <1>9. AnnouncedOnce'
    <2>1. \A i \in 1 .. Len(announced') : i + 1 \in 1 .. Len(announced) /\ announced'[i] = announced[i + 1]
        BY <1>1, <1>3
    <2>2. \A i \in 1 .. Len(announced') : announced'[i] # id
      <3> TAKE i \in 1 .. Len(announced')
      <3>1. i + 1 \in 1 .. Len(announced) /\ announced'[i] = announced[i + 1] /\ i + 1 # 1  BY <1>3, <2>1
      <3> QED  BY <1>3, <3>1 DEF SheetInv, AnnouncedOnce
    <2>3. \A i, j \in 1 .. Len(announced') : announced'[i] = announced'[j] => i = j
      <3> TAKE i, j \in 1 .. Len(announced')
      <3>1. announced'[i] = announced'[j] => i + 1 = j + 1  BY <2>1 DEF SheetInv, AnnouncedOnce
      <3>2. i \in Nat /\ j \in Nat  BY <1>1, <1>3
      <3> QED  BY <3>1, <3>2
    <2>4. \A i \in 1 .. Len(announced') : ~Contains(approvals', announced'[i]) /\ asks[announced'[i]].state # "decided"
        BY <1>7, <2>1, <2>2 DEF SheetInv, AnnouncedOnce
    <2> QED  BY <1>1, <2>3, <2>4 DEF AnnouncedOnce
  <1>10. DecisionSound'  BY <1>1, <1>7 DEF SheetInv, DecisionSound
  <1>11. asks[id].state # "decided"  BY <1>3 DEF SheetInv, AnnouncedOnce
  <1>12. \A x \in AskIds' \ unheard' : PromptKept(x)'
    <2> TAKE x \in AskIds' \ unheard'
    <2>1. x \in AskIds \ unheard  BY <1>1 DEF AskIds
    <2>2. PromptKept(x)  BY <2>1 DEF SheetInv
    <2> QED  BY <1>1, <1>3, <1>7, <1>11, <2>2 DEF PromptKept
  <1> QED  BY <1>1, <1>6, <1>8, <1>9, <1>10, <1>12 DEF SheetInv, OneDecision

\* An option that is chosen is chosen for the approval on the sheet.
LEMMA ChooseSound ==
    ASSUME SheetInv, UNCHANGED <<asks, announced, approvals, resolving, decision, unheard>>,
           sheet' \in Sheets, sheet'.chat = sheet.chat, chosen' = chosen \cup {ShownApproval}
    PROVE  SheetInv'
  <1>1. SheetTypes'  BY DEF SheetInv, SheetTypes, AskIds, Decisions
  <1>2. ShownApproval' = ShownApproval  BY ShownSame DEF SheetInv, SheetTypes
  <1>3. OptionChosen'  BY <1>2 DEF OptionChosen
  <1>4. AnnouncedOnce' /\ DecisionSound' /\ OneDecision'
      BY DEF SheetInv, AnnouncedOnce, DecisionSound, OneDecision
  <1>5. \A x \in AskIds' \ unheard' : PromptKept(x)'  BY DEF SheetInv, AskIds, PromptKept
  <1> QED  BY <1>1, <1>3, <1>4, <1>5 DEF SheetInv

LEMMA ActiveTyped ==
    ASSUME SheetTypes, NEW option \in 1 .. 3, sheet' = [sheet EXCEPT !.option = option, !.focus = "page"]
    PROVE  sheet' \in Sheets /\ sheet'.chat = sheet.chat
  <1>1. sheet \in Sheets  BY DEF SheetTypes
  <1>2. PICK focus \in {"page", "palette", "composer"} : focus = "page"  OBVIOUS
  <1>3. sheet' = [sheet EXCEPT !.option = option, !.focus = focus]  BY <1>2
  <1> QED  BY <1>1, <1>3 DEF Sheets

LEMMA MoveSelectionSound == ASSUME SheetInv, MoveSelection \/ PressDigit PROVE SheetInv'
  <1>1. PICK option \in 1 .. 3 : ActiveOption(option)
    <2>1. CASE MoveSelection
      <3>1. PICK step \in {0, 2} : ActiveOption(((sheet.option + step) % 3) + 1)  BY <2>1 DEF MoveSelection
      <3>2. sheet.option \in 1 .. 3  BY DEF SheetInv, SheetTypes, Sheets
      <3>3. ((sheet.option + step) % 3) + 1 \in 1 .. 3
        <4>1. sheet.option + step \in Nat  BY <3>2
        <4> QED  BY <4>1
      <3> QED  BY <3>1, <3>3
    <2>2. CASE PressDigit  BY <2>2 DEF PressDigit
    <2> QED  BY <2>1, <2>2
  <1>2. sheet' \in Sheets /\ sheet'.chat = sheet.chat  BY <1>1, ActiveTyped DEF ActiveOption, SheetInv
  <1> QED  BY <1>1, <1>2, ChooseSound DEF ActiveOption

\* A decision is sent for the approval on the sheet, with an option that was chosen for it.
LEMMA ResolveSound ==
    ASSUME SheetInv, NEW option \in 1 .. 3, ResolveCommandApproval(option),
           sheet' \in Sheets, sheet'.chat = sheet.chat, chosen \subseteq chosen',
           option # 2 => ShownApproval \in chosen',
           sheet'.option # 2 => ShownApproval \in chosen'
    PROVE  SheetInv'
  <1>1. PICK id : id = ShownApproval  OBVIOUS
  <1>2. PICK d : d = [id |-> id, decision |-> Options[option], answer |-> "none"]  OBVIOUS
  <1>3. /\ id # NoApproval /\ ~resolving /\ resolving' = TRUE /\ decision' = Append(decision, d)
        /\ UNCHANGED <<asks, announced, approvals, unheard>>
      BY <1>1, <1>2 DEF ResolveCommandApproval
  <1>4. Contains(approvals, id) /\ id \in AskIds
      BY <1>1, <1>3, PendingListed DEF SheetInv, SheetTypes, ShownApproval
  <1>5. decision = <<>> /\ Len(decision) = 0  BY <1>3, OneSent
  <1>6. /\ Options[option] \in {"deny", "allow_once", "allow_session"}
        /\ Options[option] # "allow_once" => option # 2
    <2>1. option = 1 \/ option = 2 \/ option = 3  OBVIOUS
    <2> QED  BY <2>1 DEF Options
  <1>7. d \in Decisions /\ d.id = id /\ d.answer = "none" /\ (d.decision # "allow_once" => option # 2)
      BY <1>2, <1>4, <1>6 DEF Decisions
  <1>8. /\ decision' \in Seq(Decisions) /\ Len(decision') = 1 /\ decision'[1] = d
      BY <1>3, <1>5, <1>7, EmptySeq, AppendProperties
  <1>9. SheetTypes'  BY <1>3, <1>8 DEF SheetInv, SheetTypes, AskIds, Decisions
  <1>10. ShownApproval' = id  BY <1>1, <1>3, ShownSame DEF SheetInv, SheetTypes
  <1>11. OptionChosen'  BY <1>1, <1>10 DEF OptionChosen
  <1>12. AnnouncedOnce'  BY <1>3 DEF SheetInv, AnnouncedOnce
  <1>13. OneDecision'  BY <1>3, <1>8 DEF OneDecision
  <1>14. \A i \in 1 .. Len(decision') : decision'[i] = d  BY <1>8
  <1>15. asks[id].state = "decided" => id \in unheard
    <2> SUFFICES ASSUME asks[id].state = "decided", id \notin unheard PROVE FALSE  OBVIOUS
    <2>1. \E i \in 1 .. Len(decision) : decision[i].id = id  BY <1>4 DEF SheetInv, PromptKept
    <2> QED  BY <1>5, <2>1
  <1>16. DecisionSound'  BY <1>1, <1>3, <1>4, <1>7, <1>14, <1>15 DEF DecisionSound
  <1>17. \A x \in AskIds' \ unheard' : PromptKept(x)'
    <2> TAKE x \in AskIds' \ unheard'
    <2>1. PromptKept(x)  BY <1>3 DEF SheetInv, AskIds
    <2>2. asks[x].state = "decided" /\ Contains(approvals, x) => FALSE  BY <1>5, <2>1 DEF PromptKept
    <2> QED  BY <1>3, <2>1, <2>2 DEF PromptKept
  <1> QED  BY <1>9, <1>11, <1>12, <1>13, <1>16, <1>17 DEF SheetInv

LEMMA EnterSound == ASSUME SheetInv, PressEnter PROVE SheetInv'
  <1>1. ResolveCommandApproval(sheet.option) /\ sheet' = sheet /\ chosen' = chosen  BY DEF PressEnter
  <1>2. sheet \in Sheets /\ sheet.option \in 1 .. 3  BY DEF SheetInv, SheetTypes, Sheets
  <1>3. sheet.option # 2 => ShownApproval \in chosen
      BY <1>1 DEF SheetInv, OptionChosen, ResolveCommandApproval
  <1> QED  BY <1>1, <1>2, <1>3, ResolveSound

LEMMA ClickOptionSound == ASSUME SheetInv, NEW option \in 1 .. 3, ClickOption(option) PROVE SheetInv'
  <1>1. /\ ResolveCommandApproval(option) /\ chosen' = chosen \cup {ShownApproval}
        /\ sheet' = [sheet EXCEPT !.option = option, !.focus = "page"]
      BY DEF ClickOption
  <1>2. sheet' \in Sheets /\ sheet'.chat = sheet.chat  BY <1>1, ActiveTyped DEF SheetInv
  <1> QED  BY <1>1, <1>2, ResolveSound

\* A settled approval leaves the list with the answer.
LEMMA DecisionAnswerSound == ASSUME SheetInv, DecisionAnswered PROVE SheetInv'
  <1>1. PICK d : d = decision[1]  OBVIOUS
  <1>2. decision # <<>> /\ Head(decision) = d /\ Tail(decision) = <<>> /\ 1 \in 1 .. Len(decision) /\ d \in Decisions
      BY <1>1, OneSent DEF DecisionAnswered
  <1>3. /\ d.answer # "none" /\ resolving' = FALSE /\ decision' = <<>>
        /\ ShowApprovals(AfterAnswer(d), sheet)
        /\ UNCHANGED <<asks, announced, chosen, unheard>>
      BY <1>2 DEF DecisionAnswered
  <1>4. PICK list : list = AfterAnswer(d)  OBVIOUS
  <1>5. approvals \in Seq(AskIds) /\ announced \in Seq(AskIds)  BY DEF SheetInv, SheetTypes
  <1>6. /\ list \in Seq(AskIds)
        /\ \A x : Contains(list, x) => Contains(approvals, x)
        /\ \A x : Contains(approvals, x) => Contains(list, x) \/ (x = d.id /\ d.answer \in {"ok", "expired"})
        /\ d.answer \in {"ok", "expired"} => ~Contains(list, d.id)
    <2>1. CASE d.answer \in {"ok", "expired"}
      <3>1. PICK set : set = (1 .. Len(asks)) \ {d.id}  OBVIOUS
      <3>2. list = Only(approvals, set)  BY <1>4, <2>1, <3>1 DEF AfterAnswer
      <3>3. /\ list \in Seq(AskIds)
            /\ \A x : Contains(list, x) <=> x \in set /\ Contains(approvals, x)
          BY <1>5, <3>2, OnlyKeeps DEF Contains
      <3>4. \A x : Contains(approvals, x) => x \in AskIds
        <4> SUFFICES ASSUME NEW x, Contains(approvals, x) PROVE x \in AskIds  OBVIOUS
        <4>1. PICK i \in 1 .. Len(approvals) : approvals[i] = x  BY DEF Contains
        <4> QED  BY <1>5, <4>1
      <3> QED  BY <2>1, <3>1, <3>3, <3>4 DEF AskIds
    <2>2. CASE d.answer \notin {"ok", "expired"}
      <3>1. list = approvals  BY <1>4, <2>2 DEF AfterAnswer
      <3> QED  BY <1>5, <2>2, <3>1
    <2> QED  BY <2>1, <2>2
  <1>7. sheet \in Sheets /\ SheetTypes /\ OptionChosen  BY DEF SheetInv, SheetTypes
  <1>8. OptionChosen' /\ approvals' = list /\ sheet' \in Sheets  BY <1>3, <1>4, <1>7, OptionsReset
  <1>9. <<>> \in Seq(Decisions) /\ Len(<<>>) = 0  BY EmptySeq
  <1>10. SheetTypes'  BY <1>3, <1>6, <1>7, <1>8, <1>9 DEF SheetTypes, AskIds, Decisions
  <1>11. AnnouncedOnce'  BY <1>3, <1>6, <1>8 DEF SheetInv, AnnouncedOnce
  <1>12. DecisionSound' /\ OneDecision'  BY <1>3, <1>9 DEF DecisionSound, OneDecision
  <1>13. /\ d.answer \in {"ok", "expired"} => asks[d.id].state # "waiting"
         /\ asks[d.id].state = "decided" /\ d.id \notin unheard => d.answer = "ok"
      BY <1>1, <1>2 DEF SheetInv, DecisionSound
  <1>14. \A i \in 1 .. Len(decision) : decision[i] = d  BY <1>1, OneSent
  <1>15. \A x \in AskIds' \ unheard' : PromptKept(x)'
    <2> TAKE x \in AskIds' \ unheard'
    <2>1. x \in AskIds \ unheard /\ PromptKept(x)  BY <1>3 DEF SheetInv, AskIds
    <2>2. asks[x].state = "waiting" => Contains(announced', x) \/ Contains(approvals', x)
        BY <1>3, <1>6, <1>8, <1>13, <2>1 DEF PromptKept
    <2>3. ~(asks[x].state = "decided" /\ Contains(approvals', x))
      <3> SUFFICES ASSUME asks[x].state = "decided", Contains(approvals', x) PROVE FALSE  OBVIOUS
      <3>1. Contains(approvals, x)  BY <1>6, <1>8
      <3>2. x = d.id  BY <1>14, <2>1, <3>1 DEF PromptKept
      <3>3. d.answer = "ok"  BY <1>13, <2>1, <3>2
      <3> QED  BY <1>6, <1>8, <3>2, <3>3
    <2> QED  BY <1>3, <2>2, <2>3 DEF PromptKept
  <1> QED  BY <1>8, <1>10, <1>11, <1>12, <1>15 DEF SheetInv

LEMMA ChatSound == ASSUME SheetInv, OpenItem \/ (\E chat \in Chats : ShowChat(chat)) PROVE SheetInv'
  <1>1. PICK s : /\ ShowApprovals(approvals, s) /\ s \in Sheets /\ s.option = sheet.option
                 /\ UNCHANGED <<asks, announced, resolving, decision, chosen, unheard>>
    <2>1. sheet \in Sheets  BY DEF SheetInv, SheetTypes
    <2>2. CASE OpenItem
      <3>1. PICK chat \in Chats : ShowApprovals(approvals, [sheet EXCEPT !.chat = chat, !.palette = FALSE])
          BY <2>2 DEF OpenItem
      <3>2. PICK no \in BOOLEAN : no = FALSE  OBVIOUS
      <3>3. PICK s : s = [sheet EXCEPT !.chat = chat, !.palette = no]  OBVIOUS
      <3>4. s \in Sheets /\ s.option = sheet.option  BY <2>1, <3>3 DEF Sheets
      <3>5. ShowApprovals(approvals, s)  BY <3>1, <3>2, <3>3
      <3> QED  BY <2>2, <3>4, <3>5 DEF OpenItem
    <2>3. CASE \E chat \in Chats : ShowChat(chat)
      <3>1. PICK chat \in Chats : ShowChat(chat)  BY <2>3
      <3>2. PICK s : s = [sheet EXCEPT !.chat = chat]  OBVIOUS
      <3>3. s \in Sheets /\ s.option = sheet.option  BY <2>1, <3>2 DEF Sheets
      <3>4. ShowApprovals(approvals, s)  BY <3>1, <3>2 DEF ShowChat
      <3> QED  BY <3>1, <3>3, <3>4 DEF ShowChat
    <2> QED  BY <2>2, <2>3
  <1>2. OptionChosen' /\ approvals' = approvals /\ sheet' \in Sheets
      BY <1>1, OptionsReset DEF SheetInv
  <1>3. SheetTypes'  BY <1>1, <1>2 DEF SheetInv, SheetTypes, AskIds, Decisions
  <1>4. AnnouncedOnce' /\ DecisionSound' /\ OneDecision'
      BY <1>1, <1>2 DEF SheetInv, AnnouncedOnce, DecisionSound, OneDecision
  <1>5. \A x \in AskIds' \ unheard' : PromptKept(x)'  BY <1>1, <1>2 DEF SheetInv, AskIds, PromptKept
  <1> QED  BY <1>2, <1>3, <1>4, <1>5 DEF SheetInv

\* Steps that change nothing but the focus
LEMMA FocusSound ==
    ASSUME SheetInv, UNCHANGED <<asks, announced, approvals, resolving, decision, chosen, unheard>>,
           sheet' \in Sheets, sheet'.chat = sheet.chat, sheet'.option = sheet.option
    PROVE  SheetInv'
  <1>1. SheetTypes'  BY DEF SheetInv, SheetTypes, AskIds, Decisions
  <1>2. ShownApproval' = ShownApproval  BY ShownSame DEF SheetInv, SheetTypes
  <1>3. OptionChosen'  BY <1>2 DEF OptionChosen, SheetInv
  <1>4. AnnouncedOnce' /\ DecisionSound' /\ OneDecision'
      BY DEF SheetInv, AnnouncedOnce, DecisionSound, OneDecision
  <1>5. \A x \in AskIds' \ unheard' : PromptKept(x)'  BY DEF SheetInv, AskIds, PromptKept
  <1> QED  BY <1>1, <1>3, <1>4, <1>5 DEF SheetInv

LEMMA FocusesSound == ASSUME SheetInv, TogglePalette \/ FocusComposer PROVE SheetInv'
  <1>1. PICK focus \in {"page", "palette", "composer"}, shown \in BOOLEAN :
            sheet' = [sheet EXCEPT !.palette = shown, !.focus = focus]
    <2>1. CASE TogglePalette
      <3>1. PICK focus : focus = IF sheet.palette THEN "page" ELSE "palette"  OBVIOUS
      <3>2. PICK shown \in BOOLEAN : shown = ~sheet.palette  OBVIOUS
      <3>3. sheet' = [sheet EXCEPT !.palette = shown, !.focus = focus]
          BY <2>1, <3>1, <3>2 DEF TogglePalette, SheetInv, SheetTypes, Sheets
      <3> QED  BY <3>1, <3>3
    <2>2. CASE FocusComposer
      <3>1. PICK shown \in BOOLEAN : shown = sheet.palette  BY DEF SheetInv, SheetTypes, Sheets
      <3>2. sheet' = [sheet EXCEPT !.palette = shown, !.focus = "composer"]
          BY <2>2, <3>1 DEF FocusComposer, SheetInv, SheetTypes, Sheets
      <3> QED  BY <3>2
    <2> QED  BY <2>1, <2>2
  <1>2. sheet' \in Sheets /\ sheet'.chat = sheet.chat /\ sheet'.option = sheet.option
      BY <1>1 DEF SheetInv, SheetTypes, Sheets
  <1> QED  BY <1>2, FocusSound DEF TogglePalette, FocusComposer

\* A new approval is announced by a packet of its own.
LEMMA AnnounceSound == ASSUME SheetInv, NEW chat \in Chats, Announce(chat) PROVE SheetInv'
  <1>1. PICK N : N = Len(asks)  OBVIOUS
  <1>2. PICK ask : ask = [chat |-> chat, state |-> "waiting"]  OBVIOUS
  <1>3. /\ asks \in Seq(AskRows) /\ N \in Nat /\ ask \in AskRows /\ ask.state = "waiting"
        /\ announced \in Seq(1 .. N) /\ approvals \in Seq(1 .. N)
      BY <1>1, <1>2 DEF SheetInv, SheetTypes, AskIds, AskRows
  <1>4. /\ asks' = Append(asks, ask)
        /\ UNCHANGED <<approvals, resolving, decision, sheet, chosen, unheard>>
      BY <1>2 DEF Announce
  <1>5. /\ asks' \in Seq(AskRows) /\ Len(asks') = N + 1
        /\ asks'[N + 1] = ask /\ \A id \in 1 .. N : asks'[id] = asks[id]
      BY <1>1, <1>3, <1>4, AppendProperties
  <1>6. announced' = Append(announced, N + 1)  BY <1>5 DEF Announce
  <1>7. /\ 1 .. N \subseteq 1 .. N + 1 /\ AskIds = 1 .. N /\ AskIds' = 1 .. N + 1
        /\ \A id \in AskIds' : id \in 1 .. N \/ id = N + 1
        /\ N + 1 \in 1 .. N + 1 /\ N + 1 \notin 1 .. N
      BY <1>1, <1>3, <1>5 DEF AskIds
  <1>8. announced \in Seq(1 .. N + 1) /\ approvals \in Seq(1 .. N + 1)  BY <1>3, <1>7
  <1>9. /\ announced' \in Seq(1 .. N + 1) /\ Len(announced') = Len(announced) + 1 /\ Len(announced) \in Nat
        /\ \A i \in 1 .. Len(announced) : announced'[i] = announced[i]
        /\ announced'[Len(announced) + 1] = N + 1
        /\ \A x : Contains(announced', x) <=> Contains(announced, x) \/ x = N + 1
      BY <1>6, <1>7, <1>8, AppendProperties, ContainsAppend
  <1>10. decision \in Seq(Decisions) /\ decision \in Seq(Decisions')
    <2>1. decision \in Seq(Decisions)  BY DEF SheetInv, SheetTypes
    <2>2. Decisions \subseteq Decisions'  BY <1>7 DEF Decisions
    <2> QED  BY <2>1, <2>2
  <1>11. SheetTypes'  BY <1>4, <1>5, <1>7, <1>8, <1>9, <1>10 DEF SheetInv, SheetTypes
  <1>12. ShownApproval' = ShownApproval
    <2>1. approvals \in Seq(AskIds) /\ approvals' = approvals /\ sheet'.chat = sheet.chat  BY <1>3, <1>4, <1>7
    <2>2. \A id \in AskIds : asks'[id].chat = asks[id].chat  BY <1>5, <1>7
    <2> QED  BY <2>1, <2>2, ShownSame
  <1>13. OptionChosen'  BY <1>4, <1>12 DEF SheetInv, OptionChosen
  <1>14. \A i \in 1 .. Len(announced) : announced[i] \in 1 .. N  BY <1>3
  <1>15. AnnouncedOnce'
    <2>1. \A i \in 1 .. Len(announced') : i \in 1 .. Len(announced) \/ i = Len(announced) + 1  BY <1>9
    <2>2. ~Contains(approvals, N + 1)  BY <1>3, <1>7 DEF Contains
    <2>3. \A i, j \in 1 .. Len(announced') : announced'[i] = announced'[j] => i = j
      <3> TAKE i, j \in 1 .. Len(announced')
      <3> QED  BY <1>7, <1>9, <1>14, <2>1 DEF SheetInv, AnnouncedOnce
    <2>4. \A i \in 1 .. Len(announced') : ~Contains(approvals', announced'[i]) /\ asks'[announced'[i]].state # "decided"
      <3> TAKE i \in 1 .. Len(announced')
      <3>1. CASE i \in 1 .. Len(announced)
          BY <1>4, <1>5, <1>9, <1>14, <3>1 DEF SheetInv, AnnouncedOnce
      <3>2. CASE i = Len(announced) + 1  BY <1>3, <1>4, <1>5, <1>9, <2>2, <3>2
      <3> QED  BY <2>1, <3>1, <3>2
    <2> QED  BY <2>3, <2>4 DEF AnnouncedOnce
  <1>16. DecisionSound'
    <2>1. \A i \in 1 .. Len(decision) : decision[i].id \in 1 .. N
      <3>1. \A i \in 1 .. Len(decision) : decision[i] \in Decisions  BY <1>10
      <3>2. \A d \in Decisions : d.id \in AskIds  BY DEF Decisions
      <3> QED  BY <1>7, <3>1, <3>2
    <2>2. \A i \in 1 .. Len(decision) : asks'[decision[i].id] = asks[decision[i].id]  BY <1>5, <2>1
    <2> QED  BY <1>4, <2>2 DEF SheetInv, DecisionSound
  <1>17. \A x \in AskIds' \ unheard' : PromptKept(x)'
    <2> TAKE x \in AskIds' \ unheard'
    <2>1. CASE x \in 1 .. N
      <3>1. PromptKept(x)  BY <1>4, <1>7, <2>1 DEF SheetInv
      <3>2. asks'[x] = asks[x]  BY <1>5, <2>1
      <3> QED  BY <1>4, <1>9, <3>1, <3>2 DEF PromptKept
    <2>2. CASE x = N + 1
      <3>1. asks'[x].state = "waiting" /\ Contains(announced', x)  BY <1>3, <1>5, <1>9, <2>2
      <3> QED  BY <3>1 DEF PromptKept
    <2> QED  BY <1>7, <2>1, <2>2
  <1>18. OneDecision'  BY <1>4 DEF SheetInv, OneDecision
  <1> QED  BY <1>11, <1>13, <1>15, <1>16, <1>17, <1>18 DEF SheetInv

\* A state that is not "waiting" any more never is again.
LEMMA AbandonSound == ASSUME SheetInv, NEW id \in 1 .. Len(asks), Abandon(id) PROVE SheetInv'
  <1>1. asks \in Seq(AskRows) /\ approvals \in Seq(AskIds) /\ announced \in Seq(AskIds) /\ decision \in Seq(Decisions)
      BY DEF SheetInv, SheetTypes
  <1>2. /\ asks[id].state = "waiting" /\ asks' = [asks EXCEPT ![id].state = "gone"]
        /\ UNCHANGED <<announced, approvals, resolving, decision, sheet, chosen, unheard>>
      BY DEF Abandon
  <1>3. asks[id] \in AskRows  BY <1>1
  <1>4. PICK ask : ask = [asks[id] EXCEPT !.state = "gone"]  OBVIOUS
  <1>5. ask \in AskRows /\ ask.state = "gone" /\ ask.chat = asks[id].chat  BY <1>3, <1>4 DEF AskRows
  <1>6. /\ asks' \in Seq(AskRows) /\ Len(asks') = Len(asks) /\ asks'[id] = ask
        /\ \A x \in AskIds \ {id} : asks'[x] = asks[x]
    <2>1. asks' = [asks EXCEPT ![id] = ask]  BY <1>2, <1>4
    <2> QED  BY <1>1, <1>5, <2>1 DEF AskIds
  <1>7. AskIds' = AskIds /\ Decisions' = Decisions  BY <1>6 DEF AskIds, Decisions
  <1>8. SheetTypes'  BY <1>2, <1>6, <1>7 DEF SheetInv, SheetTypes
  <1>9. /\ \A x \in AskIds : asks'[x].chat = asks[x].chat
        /\ \A x \in AskIds : asks'[x].state = asks[x].state \/ (asks[x].state = "waiting" /\ asks'[x].state = "gone")
      BY <1>2, <1>5, <1>6
  <1>10. ShownApproval' = ShownApproval  BY <1>1, <1>2, <1>9, ShownSame
  <1>11. OptionChosen' /\ OneDecision'  BY <1>2, <1>10 DEF SheetInv, OptionChosen, OneDecision
  <1>12. AnnouncedOnce'  BY <1>1, <1>2, <1>9 DEF SheetInv, AnnouncedOnce
  <1>13. \A i \in 1 .. Len(decision) : decision[i].id \in AskIds
    <2>1. \A i \in 1 .. Len(decision) : decision[i] \in Decisions  BY <1>1
    <2>2. \A d \in Decisions : d.id \in AskIds  BY DEF Decisions
    <2> QED  BY <2>1, <2>2
  <1>14. DecisionSound'  BY <1>2, <1>9, <1>13 DEF SheetInv, DecisionSound
  <1>15. \A x \in AskIds' \ unheard' : PromptKept(x)'  BY <1>2, <1>7, <1>9 DEF SheetInv, PromptKept
  <1> QED  BY <1>8, <1>11, <1>12, <1>14, <1>15 DEF SheetInv

\* The server serves the one decision, and an answer that does not tell of it is lost.
LEMMA ServeSound == ASSUME SheetInv, NEW i \in 1 .. Len(decision), ServeDecision(i) PROVE SheetInv'
  <1>1. asks \in Seq(AskRows) /\ approvals \in Seq(AskIds) /\ announced \in Seq(AskIds) /\ decision \in Seq(Decisions)
      BY DEF SheetInv, SheetTypes
  <1>2. PICK d : d = decision[1]  OBVIOUS
  <1>3. i = 1 /\ Len(decision) = 1 /\ d \in Decisions  BY <1>2, OneSent
  <1>4. d.id \in AskIds /\ d.answer = "none"  BY <1>2, <1>3 DEF Decisions, ServeDecision
  <1>5. PICK served : served = [asks EXCEPT ![d.id].state = "decided"]  OBVIOUS
  <1>6. PICK answer \in {"ok", "expired", "error"} :
             /\ answer = "ok" => asks[d.id].state = "waiting"
             /\ answer = "expired" => asks[d.id].state # "waiting"
             /\ decision' = [decision EXCEPT ![1].answer = answer]
             /\ \/ answer # "expired" /\ asks[d.id].state = "waiting" /\ asks' = served
                \/ answer # "ok" /\ asks' = asks
             /\ unheard' = IF answer = "error" /\ asks' # asks THEN unheard \cup {d.id} ELSE unheard
      BY <1>2, <1>3, <1>5 DEF ServeDecision
  <1>7. UNCHANGED <<announced, approvals, resolving, sheet, chosen>>  BY DEF ServeDecision
  <1>8. PICK ask : ask = [asks[d.id] EXCEPT !.state = "decided"]  OBVIOUS
  <1>9. asks[d.id] \in AskRows  BY <1>1, <1>4 DEF AskIds
  <1>10. ask \in AskRows /\ ask.state = "decided" /\ ask.chat = asks[d.id].chat  BY <1>8, <1>9 DEF AskRows
  <1>11. /\ served \in Seq(AskRows) /\ Len(served) = Len(asks) /\ served[d.id] = ask
         /\ \A x \in AskIds \ {d.id} : served[x] = asks[x]
      BY <1>1, <1>4, <1>5, <1>8, <1>10 DEF AskIds
  <1>12. /\ asks' \in Seq(AskRows) /\ Len(asks') = Len(asks)
         /\ \A x \in AskIds : asks'[x].chat = asks[x].chat
         /\ \A x \in AskIds \ {d.id} : asks'[x] = asks[x]
         /\ asks'[d.id].state \in {asks[d.id].state, "decided"}
      BY <1>1, <1>6, <1>10, <1>11
  <1>13. AskIds' = AskIds /\ Decisions' = Decisions  BY <1>12 DEF AskIds, Decisions
  <1>14. PICK e : e = [d EXCEPT !.answer = answer]  OBVIOUS
  <1>15. e \in Decisions /\ e.id = d.id /\ e.decision = d.decision /\ e.answer = answer
      BY <1>3, <1>14 DEF Decisions
  <1>16. decision' \in Seq(Decisions) /\ Len(decision') = 1 /\ decision'[1] = e
    <2>1. decision' = [decision EXCEPT ![1] = e]  BY <1>2, <1>6, <1>14
    <2>2. 1 \in 1 .. Len(decision)  BY <1>3
    <2>3. decision \in Seq(Decisions) /\ e \in Decisions  BY <1>1, <1>15
    <2>4. decision' \in Seq(Decisions) /\ Len(decision') = Len(decision)  BY <2>1, <2>2, <2>3, ExceptSeq
    <2>5. decision'[1] = e  BY <2>1, <2>2, <2>3
    <2> QED  BY <1>3, <2>4, <2>5
  <1>17. SheetTypes'  BY <1>7, <1>12, <1>13, <1>16 DEF SheetInv, SheetTypes
  <1>18. ShownApproval' = ShownApproval  BY <1>1, <1>7, <1>12, ShownSame
  <1>19. OptionChosen' /\ OneDecision'
      BY <1>3, <1>7, <1>16, <1>18 DEF SheetInv, OptionChosen, OneDecision
  <1>20. /\ Contains(approvals, d.id) /\ d.id \notin {announced[k] : k \in 1 .. Len(announced)}
         /\ asks[d.id].state = "decided" /\ d.id \notin unheard => FALSE
         /\ d.decision # "allow_once" => d.id \in chosen
      BY <1>2, <1>3, <1>4 DEF SheetInv, DecisionSound, AnnouncedOnce
  <1>21. AnnouncedOnce'
    <2>1. \A k \in 1 .. Len(announced) : announced[k] \in AskIds \ {d.id}  BY <1>1, <1>20
    <2> QED  BY <1>7, <1>12, <2>1 DEF SheetInv, AnnouncedOnce
  <1>22. DecisionSound'
    <2>1. answer \in {"ok", "expired"} => asks'[d.id].state # "waiting"
        BY <1>6, <1>10, <1>11
    <2>2. asks'[d.id].state = "decided" /\ d.id \notin unheard' => answer = "ok"
      <3> SUFFICES ASSUME asks'[d.id].state = "decided", d.id \notin unheard', answer # "ok" PROVE FALSE
          OBVIOUS
      <3>1. d.id \notin unheard  BY <1>6
      <3>2. asks[d.id].state # "decided"  BY <1>20, <3>1
      <3>3. asks' # asks  BY <3>2
      <3>4. answer = "error"  BY <1>6, <3>3
      <3> QED  BY <1>6, <3>3, <3>4
    <2>3. \A k \in 1 .. Len(decision') : decision'[k] = e  BY <1>16
    <2> QED  BY <1>7, <1>15, <1>20, <2>1, <2>2, <2>3 DEF DecisionSound
  <1>23. \A x \in AskIds' \ unheard' : PromptKept(x)'
    <2> TAKE x \in AskIds' \ unheard'
    <2>1. x \in AskIds \ unheard /\ PromptKept(x)  BY <1>6, <1>13 DEF SheetInv
    <2>2. CASE x = d.id
      <3>1. Contains(approvals', x)  BY <1>7, <1>20, <2>2
      <3>2. \E k \in 1 .. Len(decision') : decision'[k].id = x  BY <1>15, <1>16, <2>2
      <3> QED  BY <3>1, <3>2 DEF PromptKept
    <2>3. CASE x # d.id
      <3>1. asks'[x] = asks[x]  BY <1>12, <2>1, <2>3
      <3>2. ~(\E k \in 1 .. Len(decision) : decision[k].id = x)  BY <1>2, <1>3, <2>3
      <3> QED  BY <1>7, <2>1, <3>1, <3>2 DEF PromptKept
    <2> QED  BY <2>2, <2>3
  <1> QED  BY <1>17, <1>19, <1>21, <1>22, <1>23 DEF SheetInv

\* What a reload loses it is known to lose.
LEMMA ReloadSound == ASSUME SheetInv, ReloadWindow PROVE SheetInv'
  <1>1. /\ approvals' = <<>> /\ announced' = <<>> /\ decision' = <<>> /\ resolving' = FALSE
        /\ sheet' = [sheet EXCEPT !.option = 2, !.focus = "page", !.palette = FALSE, !.loads = 1]
        /\ unheard' = unheard \cup ToSet(approvals) \cup ToSet(announced)
        /\ UNCHANGED <<asks, chosen>>
      BY DEF ReloadWindow
  <1>2. sheet' \in Sheets
    <2>1. PICK option \in 1 .. 3 : option = 2  OBVIOUS
    <2>2. PICK focus \in {"page", "palette", "composer"} : focus = "page"  OBVIOUS
    <2>3. PICK shown \in BOOLEAN : shown = FALSE  OBVIOUS
    <2>4. PICK loads \in Nat : loads = 1  OBVIOUS
    <2>5. sheet' = [sheet EXCEPT !.option = option, !.focus = focus, !.palette = shown, !.loads = loads]
        BY <1>1, <2>1, <2>2, <2>3, <2>4
    <2>6. sheet \in Sheets  BY DEF SheetInv, SheetTypes
    <2> QED  BY <2>5, <2>6 DEF Sheets
  <1>3. /\ <<>> \in Seq(AskIds) /\ <<>> \in Seq(Decisions) /\ Len(<<>>) = 0  BY EmptySeq
  <1>4. SheetTypes'  BY <1>1, <1>2, <1>3 DEF SheetInv, SheetTypes, AskIds, Decisions
  <1>5. ShownApproval' = NoApproval
    <2>1. {k \in 1 .. Len(approvals') : asks'[approvals'[k]].chat = sheet'.chat} = {}  BY <1>1, <1>3
    <2> QED  BY <2>1 DEF ShownApproval, PendingOf, SelectInSeq, NoApproval
  <1>6. OptionChosen'  BY <1>5 DEF OptionChosen
  <1>7. AnnouncedOnce' /\ DecisionSound' /\ OneDecision'
      BY <1>1, <1>3 DEF AnnouncedOnce, DecisionSound, OneDecision
  <1>8. \A x \in AskIds' \ unheard' : PromptKept(x)'
    <2> TAKE x \in AskIds' \ unheard'
    <2>1. x \in AskIds \ unheard /\ PromptKept(x)  BY <1>1 DEF SheetInv, AskIds
    <2>2. approvals \in Seq(AskIds) /\ announced \in Seq(AskIds)  BY DEF SheetInv, SheetTypes
    <2>3. \A k \in 1 .. Len(approvals) : approvals[k] # x  BY <1>1, <2>2 DEF ToSet
    <2>4. \A k \in 1 .. Len(announced) : announced[k] # x  BY <1>1, <2>2 DEF ToSet
    <2>5. asks[x].state # "waiting"  BY <2>1, <2>3, <2>4 DEF PromptKept, Contains
    <2>6. ~Contains(approvals', x)  BY <1>1, <1>3 DEF Contains
    <2> QED  BY <1>1, <2>5, <2>6 DEF PromptKept
  <1> QED  BY <1>4, <1>6, <1>7, <1>8 DEF SheetInv

-----------------------------------------------------------------------------

LEMMA SheetInitSound == SheetInit => SheetInv
  <1> SUFFICES ASSUME SheetInit PROVE SheetInv  OBVIOUS
  <1>1. /\ asks = <<>> /\ announced = <<>> /\ approvals = <<>> /\ decision = <<>> /\ resolving = FALSE
      BY DEF SheetInit
  <1>2. \A S : <<>> \in Seq(S)  BY EmptySeq
  <1>3. Len(<<>>) = 0  BY EmptySeq
  <1>4. sheet \in Sheets  BY SheetBounds DEF SheetInit, Sheets
  <1>5. SheetTypes  BY <1>1, <1>2, <1>4 DEF SheetTypes
  <1>6. OptionChosen
    <2>1. sheet.option = 2  BY DEF SheetInit
    <2> QED  BY <2>1 DEF OptionChosen
  <1>7. AnnouncedOnce /\ DecisionSound /\ OneDecision
      BY <1>1, <1>3 DEF AnnouncedOnce, DecisionSound, OneDecision
  <1>8. AskIds = {}  BY <1>1, <1>3 DEF AskIds
  <1> QED  BY <1>5, <1>6, <1>7, <1>8 DEF SheetInv

LEMMA SheetNextSound == SheetInv /\ [SheetNext]_sheetVars => SheetInv'
  <1> SUFFICES ASSUME SheetInv, [SheetNext]_sheetVars PROVE SheetInv'  OBVIOUS
  <1>1. CASE UNCHANGED sheetVars
    <2>1. sheet \in Sheets  BY DEF SheetInv, SheetTypes
    <2> QED  BY <1>1, <2>1, FocusSound DEF sheetVars
  <1> QED
      BY <1>1, EnqueueSound, DecisionAnswerSound, MoveSelectionSound, EnterSound, ChatSound, FocusesSound,
         ReloadSound, ClickOptionSound, AnnounceSound, AbandonSound, ServeSound DEF SheetNext

\* Each approval is asked until it is settled and is settled as the user chose for it, for any
\* number of approvals and conversations and whatever order packets, keys and answers come in.
THEOREM SheetStaysSound == SheetInit /\ [][SheetNext]_sheetVars => []SheetSound
  <1>1. SheetInv => SheetSound
    <2> SUFFICES ASSUME SheetInv PROVE SheetSound  OBVIOUS
    <2>1. DOMAIN decision = 1 .. Len(decision)  BY DEF SheetInv, SheetTypes
    <2>2. DecisionsDeliberate  BY <2>1 DEF SheetInv, DecisionSound, DecisionsDeliberate, ToSet
    <2>3. PromptsKept  BY <2>1 DEF SheetInv, PromptKept, PromptsKept, ToSet, AskIds
    <2> QED  BY <2>2, <2>3 DEF SheetSound, SheetInv
  <1> QED  BY <1>1, SheetInitSound, SheetNextSound, PTL

-----------------------------------------------------------------------------
(* The palette and the lists.                                               *)

Rows == DOMAIN Home \cup DOMAIN RootOf
Queries == DOMAIN Hits
Offerable == UNION {Named[q] : q \in Queries}
Results == [workspaces : {w \in SUBSET Offerable : IsFiniteSet(w)}, tasks : Seq(Rows), chats : Seq(Rows)]
Palettes == [open : BOOLEAN, query : Queries, timer : BOOLEAN, request : Nat, loading : BOOLEAN,
             results : Results, failed : BOOLEAN, active : Nat]

Jumplists == [list : Seq(DOMAIN Home), index : Nat, navigating : BOOLEAN]

\* Each search has a number of its own, and while the palette waits for no key the last one
\* is for what is typed.
PaletteInv ==
    /\ palette \in Palettes
    /\ searches \subseteq [number : Nat, query : Queries]
    /\ \A s, t \in searches : s.number = t.number => s = t
    /\ \A s \in searches : s.number \in 1 .. palette.request
    /\ palette.open /\ ~palette.timer => \A s \in searches : Current(s) => s.query = palette.query
    /\ SearchSettled

\* The list of visited conversations stands at the one that is selected.
JumpsFit(j, chat) ==
    /\ j \in Jumplists
    /\ ~j.navigating
    /\ chat # Nowhere => j.index # 0 /\ j.list[j.index] = chat
    /\ j.index <= Len(j.list)
    /\ \A i \in 1 .. Len(j.list) : j.list[i] # Nowhere
    /\ \A i \in 1 .. Len(j.list) - 1 : j.list[i] # j.list[i + 1]

PlaceInv ==
    /\ place \in [ws : {place.ws}, chat : DOMAIN Home \cup {Nowhere}]
    /\ JumpsFit(jumps, place.chat)
    /\ AtHome

NavInv == PaletteInv /\ PlaceInv

\* A set that is finite is the range of its sequence.
LEMMA SetToSeqTyped ==
    ASSUME NEW S, IsFiniteSet(S)
    PROVE  SetToSeq(S) \in [1 .. Cardinality(S) -> S] /\ SetToSeq(S) \in Seq(S)
  <1>1. PICK n : n = Cardinality(S)  OBVIOUS
  <1>2. n \in Nat /\ ExistsBijection(1 .. n, S)  BY <1>1, FS_CardinalityType
  <1>3. PICK f \in Bijection(1 .. n, S) : TRUE  BY <1>2 DEF ExistsBijection
  <1>4. f \in [1 .. n -> S] /\ \A a, b \in 1 .. n : f[a] = f[b] => a = b
      BY <1>3 DEF Bijection, Injection, IsInjective
  <1>5. \E g \in [1 .. n -> S] : \A a, b \in DOMAIN g : g[a] = g[b] => a = b  BY <1>4
  <1>6. SetToSeq(S) \in [1 .. n -> S]  BY <1>1, <1>5 DEF SetToSeq, IsInjective
  <1> QED  BY <1>1, <1>2, <1>6

\* How many items the palette has
LEMMA ItemsCounted ==
    ASSUME NEW p, p.results \in Results, p.query \in Queries
    PROVE  /\ CountItems(p) \in Nat /\ Len(ActionItems(p)) \in Nat
           /\ ConversationItems(p) \in Seq(Rows)
           /\ CountItems(p) = Len(ActionItems(p)) + Len(ConversationItems(p))
  <1>1. PICK source : source = IF p.results.workspaces # {} THEN p.results.workspaces ELSE Everywhere  OBVIOUS
  <1>2. PICK shown : shown = source \cap Named[p.query]  OBVIOUS
  <1>3. IsFiniteSet(shown)  BY <1>2, AnswersAssumption, FS_Intersection DEF Queries
  <1>4. PICK n : n = Cardinality(shown)  OBVIOUS
  <1>5. n \in Nat /\ SetToSeq(shown) \in [1 .. n -> shown]  BY <1>3, <1>4, SetToSeqTyped, FS_CardinalityType
  <1>6. ActionItems(p) = [i \in 1 .. n |-> SetToSeq(shown)[i]]  BY <1>1, <1>2, <1>4 DEF ActionItems
  <1>7. Len(ActionItems(p)) \in Nat
    <2>1. ActionItems(p) \in [1 .. n -> shown]  BY <1>5, <1>6
    <2> QED  BY <1>5, <2>1
  <1>8. p.results.tasks \in Seq(Rows) /\ p.results.chats \in Seq(Rows)  BY DEF Results
  <1>9. ConversationItems(p) \in Seq(Rows)  BY <1>8, OnlyKeeps, ConcatProperties DEF ConversationItems
  <1> QED  BY <1>7, <1>9 DEF CountItems

\* The active item of an open palette is one that it has.
ActiveSound(p) == p.open => p.active < CountItems(p) \/ p.active = 0

LEMMA CountsAlike ==
    ASSUME NEW p, NEW q, p.results = q.results, p.query = q.query PROVE CountItems(p) = CountItems(q)
  BY DEF CountItems, ActionItems, ConversationItems

LEMMA ClampedSound ==
    ASSUME NEW p \in Palettes
    PROVE  /\ Clamped(p) \in Palettes /\ ActiveSound(Clamped(p))
           /\ Clamped(p).open = p.open /\ Clamped(p).query = p.query /\ Clamped(p).timer = p.timer
           /\ Clamped(p).request = p.request /\ Clamped(p).loading = p.loading
           /\ Clamped(p).results = p.results /\ Clamped(p).failed = p.failed
  <1>1. PICK n : n = CountItems(p)  OBVIOUS
  <1>2. n \in Nat /\ p.results \in Results /\ p.query \in Queries
      BY <1>1, ItemsCounted DEF Palettes
  <1>3. PICK m : m \in Nat /\ m = (IF ~p.open THEN p.active ELSE IF n = 0 THEN 0 ELSE IF p.active >= n THEN n - 1 ELSE p.active)
      BY <1>2 DEF Palettes
  <1>4. Clamped(p) = [p EXCEPT !.active = m]
      BY <1>1, <1>3 DEF Clamped, Palettes
  <1>5. /\ Clamped(p) \in Palettes
        /\ Clamped(p).open = p.open /\ Clamped(p).query = p.query /\ Clamped(p).timer = p.timer
        /\ Clamped(p).request = p.request /\ Clamped(p).loading = p.loading
        /\ Clamped(p).results = p.results /\ Clamped(p).failed = p.failed /\ Clamped(p).active = m
      BY <1>3, <1>4 DEF Palettes
  <1>6. CountItems(Clamped(p)) = n  BY <1>1, <1>5, CountsAlike
  <1>7. p.open => m < n \/ m = 0  BY <1>2, <1>3 DEF Palettes
  <1> QED  BY <1>5, <1>6, <1>7 DEF ActiveSound

-----------------------------------------------------------------------------
(* The list of visited conversations. *)

\* A new conversation is put behind the one where the list stands.
LEMMA TrackedFits ==
    ASSUME NEW j, NEW from, JumpsFit(j, from), NEW chat, chat = Nowhere \/ chat \in DOMAIN Home
    PROVE  JumpsFit(Tracked(j, chat), chat)
  <1>1. CASE chat = Nowhere  BY <1>1 DEF Tracked, JumpsFit
  <1>2. CASE chat # Nowhere
    <2>1. PICK kept : kept = SubSeq(j.list, 1, j.index)  OBVIOUS
    <2>2. j.index \in Nat /\ j.list \in Seq(DOMAIN Home) /\ j.index <= Len(j.list)  BY DEF JumpsFit, Jumplists
    <2>3. /\ kept \in Seq(DOMAIN Home) /\ Len(kept) = j.index
          /\ \A i \in 1 .. j.index : kept[i] = j.list[i]
      <3>1. \A i \in 1 .. j.index : j.list[i] \in DOMAIN Home  BY <2>2
      <3>2. /\ kept \in Seq(DOMAIN Home)
            /\ Len(kept) = IF 1 <= j.index THEN j.index - 1 + 1 ELSE 0
            /\ \A i \in 1 .. j.index - 1 + 1 : kept[i] = j.list[1 + i - 1]
          BY <2>1, <2>2, <3>1, SubSeqProperties
      <3> QED  BY <2>2, <3>2
    <2>4. CASE kept # <<>> /\ Last(kept) = chat
      <3>1. Tracked(j, chat) = j  BY <1>2, <2>1, <2>4 DEF Tracked, JumpsFit
      <3>2. j.index # 0  BY <2>2, <2>3, <2>4
      <3>3. Last(kept) = j.list[j.index]  BY <2>2, <2>3, <3>2 DEF Last
      <3> QED  BY <2>4, <3>1, <3>2, <3>3 DEF JumpsFit
    <2>5. CASE ~(kept # <<>> /\ Last(kept) = chat)
      <3>1. Tracked(j, chat) = [j EXCEPT !.list = Append(kept, chat), !.index = Len(kept) + 1]
          BY <1>2, <2>1, <2>5 DEF Tracked, JumpsFit
      <3>2. PICK t : t = Append(kept, chat)  OBVIOUS
      <3>3. /\ t \in Seq(DOMAIN Home) /\ Len(t) = j.index + 1
            /\ \A i \in 1 .. j.index : t[i] = j.list[i]
            /\ t[j.index + 1] = chat
        <4>1. chat \in DOMAIN Home  BY <1>2
        <4> QED  BY <2>2, <2>3, <3>2, <4>1, AppendProperties
      <3>4. /\ Tracked(j, chat) \in Jumplists
            /\ Tracked(j, chat).list = t /\ Tracked(j, chat).index = j.index + 1
            /\ ~Tracked(j, chat).navigating
        <4>1. j.index + 1 \in Nat /\ Tracked(j, chat) = [j EXCEPT !.list = t, !.index = j.index + 1]
            BY <2>2, <2>3, <3>1, <3>2
        <4>2. j \in Jumplists /\ ~j.navigating  BY DEF JumpsFit
        <4> QED  BY <3>3, <4>1, <4>2 DEF Jumplists
      <3>5. \A i \in 1 .. Len(t) : t[i] # Nowhere
        <4> TAKE i \in 1 .. Len(t)
        <4>1. i \in 1 .. j.index \/ i = j.index + 1  BY <2>2, <3>3
        <4> QED  BY <1>2, <2>2, <3>3, <4>1 DEF JumpsFit
      <3>6. \A i \in 1 .. Len(t) - 1 : t[i] # t[i + 1]
        <4> TAKE i \in 1 .. Len(t) - 1
        <4>1. CASE i < j.index
          <5>1. i \in 1 .. Len(j.list) - 1 /\ i \in 1 .. j.index /\ i + 1 \in 1 .. j.index  BY <2>2, <4>1
          <5> QED  BY <3>3, <5>1 DEF JumpsFit
        <4>2. CASE ~(i < j.index)
          <5>1. i = j.index /\ i \in 1 .. j.index  BY <2>2, <3>3, <4>2
          <5>2. kept # <<>> /\ Last(kept) = j.list[j.index]  BY <2>2, <2>3, <5>1 DEF Last
          <5> QED  BY <2>5, <3>3, <5>1, <5>2
        <4> QED  BY <4>1, <4>2
      <3> QED  BY <2>2, <3>3, <3>4, <3>5, <3>6 DEF JumpsFit
    <2> QED  BY <2>4, <2>5
  <1> QED  BY <1>1, <1>2

LEMMA GoToFits ==
    ASSUME NavInv, NEW ws, NEW chat, chat = Nowhere \/ chat \in DOMAIN Home, GoTo(ws, chat)
    PROVE  JumpsFit(jumps', place'.chat) /\ place'.chat = chat /\ place'.ws = ws /\ jumped' = FALSE
  <1>1. JumpsFit(jumps, place.chat)  BY DEF NavInv, PlaceInv
  <1>2. place'.chat = chat /\ place'.ws = ws  BY DEF GoTo
  <1>3. CASE chat = place.chat  BY <1>1, <1>2, <1>3 DEF GoTo
  <1>4. CASE chat # place.chat
    <2>1. jumps' = Tracked(jumps, chat)  BY <1>4 DEF GoTo
    <2> QED  BY <1>1, <1>2, <2>1, TrackedFits DEF GoTo
  <1> QED  BY <1>2, <1>3, <1>4 DEF GoTo

\* A walk ends where it leads, with the list standing there.
LEMMA WalkFits ==
    ASSUME NavInv, NEW index \in 1 .. Len(jumps.list), jumps.list[index] # place.chat, Walk(index)
    PROVE  JumpsFit(jumps', place'.chat) /\ jumped' = TRUE
  <1>1. JumpsFit(jumps, place.chat)  BY DEF NavInv, PlaceInv
  <1>2. PICK j : j = [jumps EXCEPT !.index = index, !.navigating = TRUE]  OBVIOUS
  <1>3. /\ j.list = jumps.list /\ j.index = index /\ j.navigating /\ index \in Nat
        /\ j \in Jumplists
    <2>1. jumps \in Jumplists /\ index \in Nat  BY <1>1 DEF JumpsFit, Jumplists
    <2> QED  BY <1>2, <2>1 DEF Jumplists
  <1>4. jumps' = Tracked(j, jumps.list[index])  BY <1>2, <1>3 DEF Walk
  <1>5. jumps.list[index] # Nowhere  BY <1>1 DEF JumpsFit
  <1>6. jumps' = [j EXCEPT !.navigating = FALSE]  BY <1>3, <1>4, <1>5 DEF Tracked
  <1>7. /\ jumps'.list = jumps.list /\ jumps'.index = index /\ ~jumps'.navigating
        /\ jumps' \in Jumplists
      BY <1>3, <1>6 DEF Jumplists
  <1>8. place'.chat = jumps.list[index]
    <2>1. place \in [ws : {place.ws}, chat : DOMAIN Home \cup {Nowhere}]  BY DEF NavInv, PlaceInv
    <2> QED  BY <2>1 DEF Walk
  <1> QED  BY <1>1, <1>7, <1>8 DEF JumpsFit, Walk

-----------------------------------------------------------------------------
(* Steps that move. *)

LEMMA GoToSound ==
    ASSUME NavInv, NEW ws, NEW chat, chat = Nowhere \/ chat \in DOMAIN Home, GoTo(ws, chat),
           chat # Nowhere => ws = Home[chat]
    PROVE  PlaceInv'
  <1>1. JumpsFit(jumps', place'.chat) /\ place'.chat = chat /\ place'.ws = ws  BY GoToFits
  <1>2. place' = [ws |-> ws, chat |-> chat]  BY DEF GoTo
  <1>3. place' \in [ws : {place'.ws}, chat : DOMAIN Home \cup {Nowhere}]  BY <1>2
  <1> QED  BY <1>1, <1>3 DEF PlaceInv, AtHome, JumpsFit

LEMMA WalkSound ==
    ASSUME NavInv, NEW index \in 1 .. Len(jumps.list), jumps.list[index] # place.chat, Walk(index)
    PROVE  PlaceInv'
  <1>1. JumpsFit(jumps', place'.chat) /\ jumped' = TRUE  BY WalkFits
  <1>2. jumps.list[index] \in DOMAIN Home  BY DEF NavInv, PlaceInv, JumpsFit, Jumplists
  <1>3. place \in [ws : {place.ws}, chat : DOMAIN Home \cup {Nowhere}]  BY DEF NavInv, PlaceInv
  <1>4. place' = [place EXCEPT !.chat = jumps.list[index]]  BY DEF Walk
  <1>5. place' \in [ws : {place'.ws}, chat : DOMAIN Home \cup {Nowhere}]  BY <1>2, <1>3, <1>4
  <1> QED  BY <1>1, <1>5 DEF PlaceInv, AtHome, JumpsFit

LEMMA JumpsWalk ==
    ASSUME NavInv, JumpBack \/ JumpForward
    PROVE  PlaceInv'
  <1>1. /\ jumps.index \in Nat /\ jumps.index <= Len(jumps.list) /\ Len(jumps.list) \in Nat
        /\ place.chat # Nowhere => jumps.index # 0 /\ jumps.list[jumps.index] = place.chat
        /\ \A i \in 1 .. Len(jumps.list) : jumps.list[i] # Nowhere
        /\ \A i \in 1 .. Len(jumps.list) - 1 : jumps.list[i] # jumps.list[i + 1]
      BY DEF NavInv, PlaceInv, JumpsFit, Jumplists
  <1>2. CASE place.chat = Nowhere /\ jumps.index > 0 /\ Walk(jumps.index)
    <2>1. jumps.index \in 1 .. Len(jumps.list)  BY <1>1, <1>2
    <2> QED  BY <1>1, <1>2, <2>1, WalkSound
  <1>3. CASE place.chat # Nowhere /\ jumps.index > 1 /\ Walk(jumps.index - 1)
    <2>1. jumps.index - 1 \in 1 .. Len(jumps.list) /\ jumps.index - 1 \in 1 .. Len(jumps.list) - 1
          /\ (jumps.index - 1) + 1 = jumps.index
        BY <1>1, <1>3
    <2>2. jumps.list[jumps.index - 1] # jumps.list[(jumps.index - 1) + 1]  BY <1>1, <2>1
    <2> QED  BY <1>1, <1>3, <2>1, <2>2, WalkSound
  <1>4. CASE jumps.index < Len(jumps.list) /\ Walk(jumps.index + 1)
    <2>1. jumps.index + 1 \in 1 .. Len(jumps.list)  BY <1>1, <1>4
    <2>2. jumps.list[jumps.index + 1] # place.chat
      <3>1. CASE place.chat = Nowhere  BY <1>1, <2>1, <3>1
      <3>2. CASE place.chat # Nowhere
        <4>1. jumps.index \in 1 .. Len(jumps.list) - 1  BY <1>1, <1>4, <3>2
        <4> QED  BY <1>1, <3>2, <4>1
      <3> QED  BY <3>1, <3>2
    <2> QED  BY <1>4, <2>1, <2>2, WalkSound
  <1> QED  BY <1>2, <1>3, <1>4 DEF JumpBack, JumpForward

-----------------------------------------------------------------------------
(* Steps of the palette. *)

LEMMA SamePalette == ASSUME PaletteInv, palette' = palette, searches' = searches PROVE PaletteInv'
  BY DEF PaletteInv, SearchSettled, CountItems, ActionItems, ConversationItems, Current

LEMMA SamePlace == ASSUME PlaceInv, place' = place, jumps' = jumps, jumped' = jumped PROVE PlaceInv'
  BY DEF PlaceInv, JumpsFit, AtHome

\* What a palette must have, beside the searches under way
Fits(p, s) ==
    /\ p \in Palettes
    /\ ActiveSound(p)
    /\ p.loading <=> \E t \in s : t.number = p.request
    /\ p.open /\ ~p.timer /\ ~p.loading /\ ~p.failed => p.results.chats = Hits[p.query]
    /\ p.open /\ ~p.timer => \A t \in s : t.number = p.request => t.query = p.query

LEMMA FitsNow == PaletteInv => Fits(palette, searches)
  BY DEF PaletteInv, Fits, SearchSettled, ActiveSound, Current

LEMMA FitsNext ==
    ASSUME searches' \subseteq [number : Nat, query : Queries],
           \A s, t \in searches' : s.number = t.number => s = t,
           \A s \in searches' : s.number \in 1 .. palette'.request,
           Fits(palette', searches')
    PROVE  PaletteInv'
  BY DEF PaletteInv, Fits, SearchSettled, ActiveSound, Current, CountItems, ActionItems, ConversationItems

\* A change of the palette that leaves the searches alone
LEMMA FitsSame ==
    ASSUME PaletteInv, searches' = searches, palette'.request = palette.request, Fits(palette', searches)
    PROVE  PaletteInv'
  BY FitsNext DEF PaletteInv

LEMMA PaletteTyped ==
    ASSUME PaletteInv
    PROVE  /\ palette \in Palettes
           /\ palette.results \in Results /\ palette.query \in Queries /\ palette.active \in Nat
           /\ CountItems(palette) \in Nat /\ Len(ActionItems(palette)) \in Nat
           /\ ConversationItems(palette) \in Seq(Rows)
           /\ CountItems(palette) = Len(ActionItems(palette)) + Len(ConversationItems(palette))
  <1>1. palette \in Palettes  BY DEF PaletteInv
  <1>2. palette.results \in Results /\ palette.query \in Queries /\ palette.active \in Nat
      BY <1>1 DEF Palettes
  <1> QED  BY <1>1, <1>2, ItemsCounted

LEMMA OpenSound == ASSUME NavInv, OpenPalette PROVE NavInv'
  <1>1. PICK p : p = [palette EXCEPT !.open = TRUE, !.query = "", !.failed = FALSE, !.active = 0, !.timer = TRUE]
      OBVIOUS
  <1>2. palette' = Clamped(p)  BY <1>1 DEF OpenPalette, ShowPalette
  <1>3. Fits(palette, searches) /\ palette \in Palettes  BY FitsNow DEF NavInv, Fits
  <1>4. "" \in Queries  BY AnswersAssumption DEF Queries
  <1>5. /\ p \in Palettes /\ p.timer /\ p.open
        /\ p.request = palette.request /\ p.loading = palette.loading
      BY <1>1, <1>3, <1>4 DEF Palettes
  <1>6. Fits(palette', searches) /\ palette'.request = palette.request
      BY <1>2, <1>3, <1>5, ClampedSound DEF Fits
  <1> QED  BY <1>6, FitsSame, SamePlace DEF NavInv, OpenPalette

LEMMA ClosedFits ==
    ASSUME PaletteInv, palette' = Closed(palette), searches' = searches
    PROVE  PaletteInv'
  <1>1. Fits(palette, searches) /\ palette \in Palettes  BY FitsNow DEF Fits
  <1>2. /\ palette' \in Palettes /\ ~palette'.open
        /\ palette'.request = palette.request /\ palette'.loading = palette.loading
      BY <1>1 DEF Closed, Palettes
  <1>3. Fits(palette', searches)  BY <1>1, <1>2 DEF Fits, ActiveSound
  <1> QED  BY <1>2, <1>3, FitsSame

LEMMA CloseSound == ASSUME NavInv, ClosePalette PROVE NavInv'
  BY ClosedFits, SamePlace DEF NavInv, ClosePalette

LEMMA TypeSound == ASSUME NavInv, NEW query \in DOMAIN Hits, SetQuery(query) PROVE NavInv'
  <1>1. PICK p : p = [palette EXCEPT !.query = query, !.timer = TRUE]  OBVIOUS
  <1>2. palette' = Clamped(p)  BY <1>1 DEF SetQuery, ShowPalette
  <1>3. Fits(palette, searches) /\ palette \in Palettes  BY FitsNow DEF NavInv, Fits
  <1>4. /\ p \in Palettes /\ p.timer
        /\ p.request = palette.request /\ p.loading = palette.loading
      BY <1>1, <1>3 DEF Palettes, Queries
  <1>5. Fits(palette', searches) /\ palette'.request = palette.request
      BY <1>2, <1>3, <1>4, ClampedSound DEF Fits
  <1> QED  BY <1>5, FitsSame, SamePlace DEF NavInv, SetQuery

\* The search that is sent is the last one, and for what is typed.
LEMMA SearchSound == ASSUME NavInv, Search PROVE NavInv'
  <1>1. /\ palette \in Palettes /\ searches \subseteq [number : Nat, query : Queries]
        /\ \A s, t \in searches : s.number = t.number => s = t
        /\ \A s \in searches : s.number \in 1 .. palette.request
      BY DEF NavInv, PaletteInv
  <1>2. PICK n : n = palette.request + 1 /\ n \in Nat  BY <1>1 DEF Palettes
  <1>3. PICK s : s = [number |-> n, query |-> palette.query]  OBVIOUS
  <1>4. /\ palette' = [palette EXCEPT !.timer = FALSE, !.request = n, !.loading = TRUE, !.failed = FALSE]
        /\ searches' = searches \cup {s}
      BY <1>1, <1>2, <1>3 DEF Search, Palettes
  <1>5. /\ palette' \in Palettes /\ palette'.request = n /\ palette'.loading
        /\ palette'.query = palette.query /\ palette'.results = palette.results
        /\ palette'.open = palette.open /\ palette'.active = palette.active
      BY <1>1, <1>2, <1>4 DEF Palettes
  <1>6. palette.request \in Nat /\ palette.query \in Queries  BY <1>1 DEF Palettes
  <1>7. s.number = n /\ s.query = palette.query /\ s \in [number : Nat, query : Queries]  BY <1>2, <1>3, <1>6
  <1>8. \A t \in searches : t.number # n /\ t.number \in 1 .. n
    <2> TAKE t \in searches
    <2>1. t.number \in 1 .. palette.request  BY <1>1
    <2> QED  BY <1>2, <1>6, <2>1
  <1>9. \A t \in searches' : t.number = n => t = s  BY <1>4, <1>8
  <1>10. n \in 1 .. n  BY <1>2, <1>6
  <1>11. /\ searches' \subseteq [number : Nat, query : Queries]
         /\ \A t, u \in searches' : t.number = u.number => t = u
         /\ \A t \in searches' : t.number \in 1 .. n
    <2>1. \A t \in searches' : t \in searches \/ t = s  BY <1>4
    <2> QED  BY <1>1, <1>7, <1>8, <1>9, <1>10, <2>1
  <1>12. Fits(palette', searches')
    <2>1. ActiveSound(palette')
      <3>1. ActiveSound(palette)  BY FitsNow DEF NavInv, Fits
      <3>2. CountItems(palette') = CountItems(palette)  BY <1>5, CountsAlike
      <3> QED  BY <1>5, <3>1, <3>2 DEF ActiveSound
    <2>2. s \in searches'  BY <1>4
    <2> QED  BY <1>5, <1>7, <1>9, <2>1, <2>2 DEF Fits
  <1> QED  BY <1>5, <1>11, <1>12, FitsNext, SamePlace DEF NavInv, Search

\* The answer to the last search settles the palette, and any other changes nothing.
LEMMA AnswerSound == ASSUME NavInv, NEW s \in searches, SearchAnswered(s) PROVE NavInv'
  <1>1. /\ palette \in Palettes /\ searches \subseteq [number : Nat, query : Queries]
        /\ \A t, u \in searches : t.number = u.number => t = u
        /\ \A t \in searches : t.number \in 1 .. palette.request
        /\ Fits(palette, searches)
      BY FitsNow DEF NavInv, PaletteInv
  <1>2. searches' = searches \ {s}  BY DEF SearchAnswered
  <1>3. CASE ~Current(s)
    <2>1. palette' = palette  BY <1>3 DEF SearchAnswered
    <2>2. \A t \in searches : t.number = palette.request => t \in searches'  BY <1>2, <1>3 DEF Current
    <2>3. Fits(palette', searches')  BY <1>1, <1>2, <2>1, <2>2 DEF Fits
    <2>4. PaletteInv'  BY <1>1, <1>2, <2>1, <2>3, FitsNext
    <2> QED  BY <2>4, SamePlace DEF NavInv, SearchAnswered
  <1>4. CASE Current(s)
    <2>1. PICK ok \in BOOLEAN, tasks \in {<<>>, SetToSeq(DOMAIN RootOf)} :
              ShowPalette([palette EXCEPT !.loading = FALSE, !.failed = ~ok, !.results =
                  IF ok THEN [workspaces |-> Named[s.query], tasks |-> tasks, chats |-> Hits[s.query]] ELSE NoResults])
        BY <1>4 DEF SearchAnswered
    <2>2. PICK found : found = IF ok THEN [workspaces |-> Named[s.query], tasks |-> tasks, chats |-> Hits[s.query]] ELSE NoResults
        OBVIOUS
    <2>3. s.query \in Queries  BY <1>1
    <2>4. found \in Results /\ (ok => found.chats = Hits[s.query])
      <3>1. CASE ok
        <4>1. Named[s.query] \in SUBSET Offerable /\ IsFiniteSet(Named[s.query])
            BY <2>3, AnswersAssumption DEF Offerable, Queries
        <4>2. tasks \in Seq(Rows)
          <5>1. SetToSeq(DOMAIN RootOf) \in Seq(DOMAIN RootOf)  BY AnswersAssumption, SetToSeqTyped
          <5>2. SetToSeq(DOMAIN RootOf) \in Seq(Rows)  BY <5>1 DEF Rows
          <5>3. <<>> \in Seq(Rows)  BY EmptySeq
          <5> QED  BY <5>2, <5>3
        <4>3. Hits[s.query] \in Seq(Rows)  BY <2>3, AnswersAssumption DEF Rows, Queries
        <4> QED  BY <2>2, <3>1, <4>1, <4>2, <4>3 DEF Results
      <3>2. CASE ~ok
        <4>1. IsFiniteSet({}) /\ {} \in SUBSET Offerable  BY FS_EmptySet
        <4>2. <<>> \in Seq(Rows)  BY EmptySeq
        <4> QED  BY <2>2, <3>2, <4>1, <4>2 DEF Results, NoResults
      <3> QED  BY <3>1, <3>2
    <2>5. PICK p : p = [palette EXCEPT !.loading = FALSE, !.failed = ~ok, !.results = found]  OBVIOUS
    <2>6. palette' = Clamped(p)  BY <2>1, <2>2, <2>5 DEF ShowPalette
    <2>7. /\ p \in Palettes /\ ~p.loading /\ p.failed = ~ok /\ p.results = found
          /\ p.request = palette.request /\ p.open = palette.open /\ p.timer = palette.timer /\ p.query = palette.query
        BY <1>1, <2>4, <2>5 DEF Palettes
    <2>8. \A t \in searches' : t.number # palette.request  BY <1>1, <1>2, <1>4 DEF Current
    <2>9. /\ palette' \in Palettes /\ ActiveSound(palette')
          /\ ~palette'.loading /\ palette'.failed = ~ok /\ palette'.results = found
          /\ palette'.request = palette.request /\ palette'.open = palette.open
          /\ palette'.timer = palette.timer /\ palette'.query = palette.query
        BY <2>6, <2>7, ClampedSound
    <2>10. palette.open /\ ~palette.timer => s.query = palette.query  BY <1>1, <1>4 DEF Fits, Current
    <2>11. Fits(palette', searches')  BY <2>4, <2>8, <2>9, <2>10 DEF Fits
    <2>12. PaletteInv'  BY <1>1, <1>2, <2>9, <2>11, FitsNext
    <2> QED  BY <2>12, SamePlace DEF NavInv, SearchAnswered
  <1> QED  BY <1>3, <1>4

LEMMA MoveSound == ASSUME NavInv, MoveActive PROVE NavInv'
  <1>1. PICK n : n = CountItems(palette) /\ n \in Nat /\ n > 1  BY PaletteTyped DEF NavInv, MoveActive
  <1>2. PICK step \in {1, n - 1} : palette' = [palette EXCEPT !.active = (@ + step) % n]
      BY <1>1 DEF MoveActive
  <1>3. palette \in Palettes /\ palette.active \in Nat /\ Fits(palette, searches)
      BY PaletteTyped, FitsNow DEF NavInv
  <1>4. PICK m : m = (palette.active + step) % n  OBVIOUS
  <1>5. m \in Nat /\ m < n
    <2>1. palette.active + step \in Nat  BY <1>1, <1>3
    <2> QED  BY <1>1, <1>4, <2>1
  <1>6. /\ palette' \in Palettes /\ palette'.active = m
        /\ palette'.request = palette.request /\ palette'.loading = palette.loading
        /\ palette'.open = palette.open /\ palette'.timer = palette.timer /\ palette'.query = palette.query
        /\ palette'.failed = palette.failed /\ palette'.results = palette.results
      BY <1>2, <1>3, <1>4, <1>5 DEF Palettes
  <1>7. CountItems(palette') = n  BY <1>1, <1>6, CountsAlike
  <1>8. Fits(palette', searches)  BY <1>3, <1>5, <1>6, <1>7 DEF Fits, ActiveSound
  <1> QED  BY <1>6, <1>8, FitsSame, SamePlace DEF NavInv, MoveActive

LEMMA ExecuteSound ==
    ASSUME NavInv, NEW i \in 0 .. CountItems(palette), ExecuteItem(i)
    PROVE  NavInv'
  <1>1. PaletteInv'  BY ClosedFits DEF NavInv, ExecuteItem
  <1>2. PICK n : n = Len(ActionItems(palette)) /\ n \in Nat  BY PaletteTyped DEF NavInv
  <1>3. CASE i < n
    <2>1. GoTo(ActionItems(palette)[i + 1], Nowhere)  BY <1>2, <1>3 DEF ExecuteItem, OpenWorkspace
    <2>2. PlaceInv'  BY <2>1, GoToSound
    <2> QED  BY <1>1, <2>2 DEF NavInv
  <1>4. CASE ~(i < n)
    <2>1. PICK c : c = ConversationItems(palette)[i - n + 1]  OBVIOUS
    <2>2. c \in Rows
      <3>1. /\ ConversationItems(palette) \in Seq(Rows) /\ CountItems(palette) \in Nat
            /\ CountItems(palette) = n + Len(ConversationItems(palette))
          BY <1>2, PaletteTyped DEF NavInv
      <3>2. i < CountItems(palette) /\ i \in Nat  BY <3>1 DEF ExecuteItem
      <3>3. i - n + 1 \in 1 .. Len(ConversationItems(palette))  BY <1>2, <1>4, <3>1, <3>2
      <3> QED  BY <2>1, <3>1, <3>3
    <2>3. Opens(c) \in DOMAIN Home  BY <2>2, AnswersAssumption DEF Opens, Rows
    <2>4. GoTo(Home[Opens(c)], Opens(c))  BY <1>2, <1>4, <2>1 DEF ExecuteItem, OpenConversation
    <2>5. PlaceInv'  BY <2>3, <2>4, GoToSound
    <2> QED  BY <1>1, <2>5 DEF NavInv
  <1> QED  BY <1>3, <1>4

LEMMA ClickSound == ASSUME NavInv, ClickConversation PROVE NavInv'
  <1>1. PICK chat \in DOMAIN Home : GoTo(Home[chat], chat)  BY DEF ClickConversation, OpenConversation
  <1>2. PlaceInv'  BY <1>1, GoToSound
  <1> QED  BY <1>2, SamePalette DEF NavInv, ClickConversation

LEMMA StartSound == ASSUME NavInv, StartConversation PROVE NavInv'
  <1>1. PlaceInv'  BY GoToSound DEF StartConversation, OpenWorkspace
  <1> QED  BY <1>1, SamePalette DEF NavInv, StartConversation

LEMMA NavInitSound == NavInit => NavInv
  <1> SUFFICES ASSUME NavInit PROVE NavInv  OBVIOUS
  <1>1. "" \in Queries  BY AnswersAssumption DEF Queries
  <1>2. NoResults \in Results
    <2>1. IsFiniteSet({}) /\ {} \in SUBSET Offerable  BY FS_EmptySet
    <2>2. <<>> \in Seq(Rows)  BY EmptySeq
    <2> QED  BY <2>1, <2>2 DEF Results, NoResults
  <1>3. palette \in Palettes /\ ~palette.open /\ ~palette.loading  BY <1>1, <1>2 DEF NavInit, Palettes
  <1>4. PaletteInv  BY <1>3 DEF NavInit, PaletteInv, SearchSettled
  <1>5. PlaceInv
    <2>1. /\ jumps.list = <<>> /\ jumps.index = 0 /\ ~jumps.navigating /\ place.chat = Nowhere
          /\ place \in [ws : {place.ws}, chat : DOMAIN Home \cup {Nowhere}]
        BY DEF NavInit
    <2>2. jumps \in Jumplists /\ Len(jumps.list) = 0  BY <2>1, EmptySeq DEF NavInit, Jumplists
    <2> QED  BY <2>1, <2>2 DEF PlaceInv, JumpsFit, AtHome
  <1> QED  BY <1>4, <1>5 DEF NavInv

LEMMA NavNextSound == NavInv /\ [NavNext]_navVars => NavInv'
  <1> SUFFICES ASSUME NavInv, [NavNext]_navVars PROVE NavInv'  OBVIOUS
  <1>1. CASE JumpBack \/ JumpForward
    <2>1. palette' = palette /\ searches' = searches  BY <1>1 DEF JumpBack, JumpForward, Walk
    <2> QED  BY <1>1, <2>1, JumpsWalk, SamePalette DEF NavInv
  <1>2. CASE UNCHANGED navVars  BY <1>2, SamePalette, SamePlace DEF navVars, NavInv
  <1> QED
      BY <1>1, <1>2, ClickSound, StartSound, OpenSound, CloseSound, SearchSound, MoveSound,
         TypeSound, AnswerSound, ExecuteSound DEF NavNext

\* The palette shows the answer to what is typed once nothing is left to wait for, the list of
\* visited conversations stands at the selected one, and a conversation is selected in its
\* workspace, for any number of searches, answers and conversations.
THEOREM NavigationStaysSound == NavInit /\ [][NavNext]_navVars => []NavigationSound
  <1>1. NavInv => NavigationSound
      BY DEF NavInv, PaletteInv, PlaceInv, NavigationSound, JumpsFit, JumplistFollows
  <1> QED  BY <1>1, NavInitSound, NavNextSound, PTL

-----------------------------------------------------------------------------
(* The environment of new conversations.                                    *)

Spaces == DOMAIN Repos
Levels == {"none", "empty", "ready"}
Labels == Branches \cup {""}
Shown == [ws : Spaces \cup Nat, level : Levels, branch : Labels]
Whats == {"status", "init", "checkout", "push", "worktree", "conversation"}
Request == [what : Whats, ws : Spaces,
            branch : Labels, tree : Nat, from : Nat, got : Shown, answer : {"none", "ok", "failed"}]
Thread == [ws : Spaces, tree : Nat]
Drafts == [mode : {"local", "worktree"}, base : Labels, preparing : BOOLEAN]

EnvTypes ==
    /\ repo \in [Spaces -> [level : Levels, branch : Labels]]
    /\ trees \in Seq(Spaces) /\ threads \in Seq(Thread)
    /\ spot \in [ws : Spaces, thread : Nat]
    /\ status \in Shown
    /\ draft \in Drafts
    /\ drafts \subseteq Nat /\ turns \subseteq Nat \ {NewThread}
    /\ pending \in Seq(Request)
    /\ history \in [disturbed : BOOLEAN, erased : BOOLEAN, failed : BOOLEAN]

\* A worktree is that of the workspace of whatever names it.
HomeOf(ws, tree) == tree # NoTree => tree \in 1 .. Len(trees) /\ trees[tree] = ws

\* The conversation of a request is made.
Made(r) == r.what = "conversation" /\ r.answer = "ok"

RequestFits(r) ==
    /\ HomeOf(r.ws, r.tree)
    /\ r.what = "worktree" => (r.tree # NoTree <=> r.answer = "ok")
    /\ Made(r) => r.got.ws \in Nat \ {NewThread}
    /\ Made(r) /\ r.tree # NoTree => \E c \in 1 .. Len(threads) : threads[c].tree = r.tree
    /\ ~Made(r) /\ r.tree # NoTree => \A c \in 1 .. Len(threads) : threads[c].tree # r.tree

\* No two requests carry the same worktree along, and no two conversations have the same.
Apart(p) == \A i, j \in 1 .. Len(p) : i # j /\ p[i].tree # NoTree => p[i].tree # p[j].tree

TreesApart ==
    /\ \A i \in 1 .. Len(pending) : RequestFits(pending[i])
    /\ Apart(pending)
    /\ \A c \in 1 .. Len(threads) : HomeOf(threads[c].ws, threads[c].tree)
    /\ Apart(threads)

\* The only submission under way has not failed, and the new conversation is on screen with
\* its text.
Alone(p) == \A i, j \in 1 .. Len(p) : Submission(p[i]) /\ Submission(p[j]) => i = j

Promises(p, thread, texts) ==
    /\ Alone(p)
    /\ \A i \in 1 .. Len(p) : Submission(p[i]) =>
         /\ p[i].answer # "failed"
         /\ p[i].what = "conversation" => p[i].from = NewThread
         /\ thread = NewThread /\ NewThread \in texts

\* The window prepares a worktree for a request.
Prepares(r) == r.what = "worktree" \/ r.tree # NoTree

\* While nothing disturbs a submission its promises hold, each worktree is carried along or
\* has its conversation, and the window prepares only what is under way.
Undisturbed ==
    ~history.disturbed =>
        /\ ~history.erased
        /\ Promises(pending, spot.thread, drafts)
        /\ \A t \in 1 .. Len(trees) :
             \/ \E i \in 1 .. Len(pending) : pending[i].tree = t
             \/ \E c \in 1 .. Len(threads) : threads[c].tree = t
        /\ draft.preparing => \E i \in 1 .. Len(pending) : Prepares(pending[i])

EnvInv == EnvTypes /\ TreesApart /\ Undisturbed /\ ModeSound

-----------------------------------------------------------------------------
(* How the requests under way change: one of them may go, and one may come. *)

Left(p, i) == (1 .. Len(p)) \ {i}

Changed(q, p, i, r, new) ==
    /\ \A k \in 1 .. Len(q) : (new /\ q[k] = r) \/ \E j \in Left(p, i) : q[k] = p[j]
    /\ \A k, l \in 1 .. Len(q) : k # l =>
         \/ \E j, h \in Left(p, i) : j # h /\ q[k] = p[j] /\ q[l] = p[h]
         \/ new /\ \E j \in Left(p, i) : (q[k] = p[j] /\ q[l] = r) \/ (q[k] = r /\ q[l] = p[j])
    /\ \A j \in Left(p, i) : \E k \in 1 .. Len(q) : q[k] = p[j]
    /\ new => \E k \in 1 .. Len(q) : q[k] = r

LEMMA ChangedAppend ==
    ASSUME NEW S, NEW p \in Seq(S), NEW r \in S
    PROVE  Append(p, r) \in Seq(S) /\ Changed(Append(p, r), p, 0, r, TRUE)
  <1>1. PICK q : q = Append(p, r)  OBVIOUS
  <1>2. PICK n : n = Len(p) /\ n \in Nat  OBVIOUS
  <1>3. /\ q \in Seq(S) /\ Len(q) = n + 1 /\ q[n + 1] = r
        /\ \A k \in 1 .. n : q[k] = p[k]
      BY <1>1, <1>2, AppendProperties
  <1>4. Left(p, 0) = 1 .. n  BY <1>2 DEF Left
  <1>5. \A k \in 1 .. n + 1 : k \in 1 .. n \/ k = n + 1  BY <1>2
  <1>6. n + 1 \in 1 .. n + 1 /\ 1 .. n \subseteq 1 .. n + 1 /\ n + 1 \notin 1 .. n  BY <1>2
  <1> QED  BY <1>1, <1>3, <1>4, <1>5, <1>6 DEF Changed

LEMMA ChangedRemove ==
    ASSUME NEW S, NEW p \in Seq(S), NEW i \in 1 .. Len(p), NEW r
    PROVE  RemoveAt(p, i) \in Seq(S) /\ Changed(RemoveAt(p, i), p, i, r, FALSE)
  <1>1. PICK n : n = Len(p) /\ n \in Nat  OBVIOUS
  <1>2. i \in 1 .. n /\ i \in Nat  BY <1>1
  <1>3. PICK a : a = SubSeq(p, 1, i - 1)  OBVIOUS
  <1>4. PICK b : b = SubSeq(p, i + 1, n)  OBVIOUS
  <1>5. a \in Seq(S) /\ Len(a) = i - 1 /\ \A k \in 1 .. i - 1 : a[k] = p[k]
    <2>1. \A k \in 1 .. i - 1 : p[k] \in S  BY <1>1, <1>2
    <2>2. /\ a \in Seq(S) /\ Len(a) = IF 1 <= i - 1 THEN i - 1 - 1 + 1 ELSE 0
          /\ \A k \in 1 .. i - 1 - 1 + 1 : a[k] = p[1 + k - 1]
        BY <1>2, <1>3, <2>1, SubSeqProperties
    <2> QED  BY <1>2, <2>2
  <1>6. b \in Seq(S) /\ Len(b) = n - i /\ \A k \in 1 .. n - i : b[k] = p[i + k]
    <2>1. \A k \in i + 1 .. n : p[k] \in S  BY <1>1, <1>2
    <2>2. /\ b \in Seq(S) /\ Len(b) = IF i + 1 <= n THEN n - (i + 1) + 1 ELSE 0
          /\ \A k \in 1 .. n - (i + 1) + 1 : b[k] = p[(i + 1) + k - 1]
        BY <1>1, <1>2, <1>4, <2>1, SubSeqProperties
    <2>3. Len(b) = n - i  BY <1>1, <1>2, <2>2
    <2>4. \A k \in 1 .. n - i : k \in 1 .. n - (i + 1) + 1 /\ (i + 1) + k - 1 = i + k  BY <1>1, <1>2
    <2> QED  BY <2>2, <2>3, <2>4
  <1>7. PICK q : q = RemoveAt(p, i)  OBVIOUS
  <1>8. /\ q \in Seq(S) /\ Len(q) = n - 1
        /\ \A k \in 1 .. n - 1 : q[k] = IF k < i THEN p[k] ELSE p[k + 1]
    <2>1. q = a \o b  BY <1>1, <1>3, <1>4, <1>7 DEF RemoveAt
    <2>2. /\ q \in Seq(S) /\ Len(q) = (i - 1) + (n - i)
          /\ \A k \in 1 .. (i - 1) + (n - i) : q[k] = IF k <= i - 1 THEN a[k] ELSE b[k - (i - 1)]
        BY <1>5, <1>6, <2>1, ConcatProperties
    <2>3. (i - 1) + (n - i) = n - 1  BY <1>1, <1>2
    <2>4. \A k \in 1 .. n - 1 : q[k] = IF k < i THEN p[k] ELSE p[k + 1]
      <3> TAKE k \in 1 .. n - 1
      <3>1. CASE k < i
        <4>1. k <= i - 1 /\ k \in 1 .. i - 1  BY <1>2, <3>1
        <4> QED  BY <1>5, <2>2, <2>3, <3>1, <4>1
      <3>2. CASE ~(k < i)
        <4>1. ~(k <= i - 1) /\ k - (i - 1) \in 1 .. n - i /\ i + (k - (i - 1)) = k + 1  BY <1>1, <1>2, <3>2
        <4> QED  BY <1>6, <2>2, <2>3, <3>2, <4>1
      <3> QED  BY <3>1, <3>2
    <2> QED  BY <2>2, <2>3, <2>4
  <1> DEFINE from(k) == IF k < i THEN k ELSE k + 1
  <1>9. \A k \in 1 .. n - 1 : from(k) \in Left(p, i) /\ q[k] = p[from(k)]
    <2> TAKE k \in 1 .. n - 1
    <2>1. from(k) \in 1 .. n /\ from(k) # i  BY <1>1, <1>2
    <2> QED  BY <1>1, <1>8, <2>1 DEF Left
  <1>10. \A k, l \in 1 .. n - 1 : k # l => from(k) # from(l)  BY <1>1, <1>2
  <1>11. \A j \in Left(p, i) : \E k \in 1 .. n - 1 : from(k) = j
    <2> TAKE j \in Left(p, i)
    <2>1. j \in 1 .. n /\ j # i  BY <1>1 DEF Left
    <2>2. CASE j < i
      <3>1. j \in 1 .. n - 1 /\ from(j) = j  BY <1>1, <1>2, <2>1, <2>2
      <3> QED  BY <3>1
    <2>3. CASE ~(j < i)
      <3>1. j - 1 \in 1 .. n - 1 /\ from(j - 1) = j  BY <1>1, <1>2, <2>1, <2>3
      <3> QED  BY <3>1
    <2> QED  BY <2>2, <2>3
  <1> HIDE DEF from
  <1>12. \A k \in 1 .. n - 1 : \E j \in Left(p, i) : q[k] = p[j]  BY <1>9
  <1>13. \A k, l \in 1 .. n - 1 : k # l => \E j, h \in Left(p, i) : j # h /\ q[k] = p[j] /\ q[l] = p[h]
    <2> TAKE k, l \in 1 .. n - 1
    <2> HAVE k # l
    <2>1. from(k) \in Left(p, i) /\ from(l) \in Left(p, i) /\ from(k) # from(l)  BY <1>9, <1>10
    <2> QED  BY <1>9, <2>1
  <1>14. \A j \in Left(p, i) : \E k \in 1 .. n - 1 : q[k] = p[j]  BY <1>9, <1>11
  <1>15. Changed(q, p, i, r, FALSE)  BY <1>8, <1>12, <1>13, <1>14 DEF Changed
  <1> QED  BY <1>7, <1>8, <1>15

LEMMA ChangedMove ==
    ASSUME NEW S, NEW p \in Seq(S), NEW i \in 1 .. Len(p), NEW r \in S
    PROVE  /\ Append(RemoveAt(p, i), r) \in Seq(S)
           /\ Changed(Append(RemoveAt(p, i), r), p, i, r, TRUE)
  <1>1. PICK o : o = RemoveAt(p, i)  OBVIOUS
  <1>2. o \in Seq(S) /\ Changed(o, p, i, r, FALSE)  BY <1>1, ChangedRemove
  <1>3. PICK q : q = Append(o, r)  OBVIOUS
  <1>4. PICK m : m = Len(o) /\ m \in Nat  BY <1>2
  <1>5. /\ q \in Seq(S) /\ Len(q) = m + 1 /\ q[m + 1] = r
        /\ \A k \in 1 .. m : q[k] = o[k]
      BY <1>2, <1>3, <1>4, AppendProperties
  <1>6. \A k \in 1 .. m + 1 : k \in 1 .. m \/ k = m + 1  BY <1>4
  <1>7. m + 1 \in 1 .. m + 1 /\ 1 .. m \subseteq 1 .. m + 1 /\ m + 1 \notin 1 .. m  BY <1>4
  <1>8. \A k \in 1 .. m : \E j \in Left(p, i) : q[k] = p[j]  BY <1>2, <1>4, <1>5 DEF Changed
  <1>9. \A k, l \in 1 .. m : k # l => \E j, h \in Left(p, i) : j # h /\ q[k] = p[j] /\ q[l] = p[h]
      BY <1>2, <1>4, <1>5 DEF Changed
  <1>10. \A j \in Left(p, i) : \E k \in 1 .. m : q[k] = p[j]  BY <1>2, <1>4, <1>5 DEF Changed
  <1>11. \A k \in 1 .. m + 1 : q[k] = r \/ \E j \in Left(p, i) : q[k] = p[j]  BY <1>5, <1>6, <1>8
  <1>12. \A k, l \in 1 .. m + 1 : k # l =>
            \/ \E j, h \in Left(p, i) : j # h /\ q[k] = p[j] /\ q[l] = p[h]
            \/ \E j \in Left(p, i) : (q[k] = p[j] /\ q[l] = r) \/ (q[k] = r /\ q[l] = p[j])
    <2> TAKE k, l \in 1 .. m + 1
    <2> HAVE k # l
    <2>1. CASE k \in 1 .. m /\ l \in 1 .. m  BY <1>9, <2>1
    <2>2. CASE k = m + 1  BY <1>5, <1>6, <1>8, <2>2
    <2>3. CASE l = m + 1  BY <1>5, <1>6, <1>8, <2>3
    <2> QED  BY <1>6, <2>1, <2>2, <2>3
  <1>13. \A j \in Left(p, i) : \E k \in 1 .. m + 1 : q[k] = p[j]  BY <1>7, <1>10
  <1>14. \E k \in 1 .. m + 1 : q[k] = r  BY <1>5, <1>7
  <1>15. Changed(q, p, i, r, TRUE)  BY <1>5, <1>11, <1>12, <1>13, <1>14 DEF Changed
  <1> QED  BY <1>1, <1>3, <1>5, <1>15

LEMMA ChangedReplace ==
    ASSUME NEW S, NEW p \in Seq(S), NEW i \in 1 .. Len(p), NEW r \in S
    PROVE  /\ [p EXCEPT ![i] = r] \in Seq(S)
           /\ Changed([p EXCEPT ![i] = r], p, i, r, TRUE)
  <1>1. PICK q : q = [p EXCEPT ![i] = r]  OBVIOUS
  <1>2. /\ q \in Seq(S) /\ Len(q) = Len(p) /\ q[i] = r
        /\ \A k \in Left(p, i) : q[k] = p[k] /\ k \in 1 .. Len(q)
        /\ \A k \in 1 .. Len(q) : k = i \/ k \in Left(p, i)
        /\ i \in 1 .. Len(q)
      BY <1>1, ExceptSeq DEF Left
  <1> QED  BY <1>1, <1>2 DEF Changed

-----------------------------------------------------------------------------
(* What such a change keeps, when the worktrees and the conversations stay. *)

\* The request that comes, if any, carries the worktree of the one that goes, or none.
Inherits(r, i, new) == new =>
    /\ r \in Request /\ RequestFits(r)
    /\ r.tree # NoTree => i \in 1 .. Len(pending) /\ pending[i].tree = r.tree

LEMMA ApartStep ==
    ASSUME NEW p, NEW q, NEW i, NEW r, NEW new \in BOOLEAN,
           Changed(q, p, i, r, new), Apart(p),
           new /\ r.tree # NoTree => i \in 1 .. Len(p) /\ p[i].tree = r.tree
    PROVE  Apart(q)
  <1> SUFFICES ASSUME NEW k \in 1 .. Len(q), NEW l \in 1 .. Len(q), k # l, q[k].tree # NoTree
               PROVE  q[k].tree # q[l].tree
      BY DEF Apart
  <1>1. CASE \E j, h \in Left(p, i) : j # h /\ q[k] = p[j] /\ q[l] = p[h]
    <2>1. PICK j \in Left(p, i), h \in Left(p, i) : j # h /\ q[k] = p[j] /\ q[l] = p[h]  BY <1>1
    <2> QED  BY <2>1 DEF Apart, Left
  <1>2. CASE new /\ \E j \in Left(p, i) : q[k] = p[j] /\ q[l] = r
    <2>1. PICK j \in Left(p, i) : q[k] = p[j] /\ q[l] = r  BY <1>2
    <2>2. j \in 1 .. Len(p) /\ j # i  BY DEF Left
    <2>3. CASE r.tree = NoTree  BY <2>1, <2>3
    <2>4. CASE r.tree # NoTree  BY <1>2, <2>1, <2>2, <2>4 DEF Apart
    <2> QED  BY <2>3, <2>4
  <1>3. CASE new /\ \E j \in Left(p, i) : q[k] = r /\ q[l] = p[j]
    <2>1. PICK j \in Left(p, i) : q[k] = r /\ q[l] = p[j]  BY <1>3
    <2>2. j \in 1 .. Len(p) /\ j # i  BY DEF Left
    <2> QED  BY <1>3, <2>1, <2>2 DEF Apart
  <1> QED  BY <1>1, <1>2, <1>3 DEF Changed

LEMMA TreesStep ==
    ASSUME TreesApart, UNCHANGED <<trees, threads>>, NEW i, NEW r, NEW new \in BOOLEAN,
           Changed(pending', pending, i, r, new), Inherits(r, i, new)
    PROVE  TreesApart'
  <1> USE DEF TreesApart
  <1>1. Apart(pending')  BY ApartStep DEF Inherits
  <1>3. \A k \in 1 .. Len(pending') : (RequestFits(pending[k]))'
    <2> TAKE k \in 1 .. Len(pending')
    <2>1. RequestFits(pending'[k])  BY DEF Changed, Left, Inherits
    <2>2. PICK x : x = pending'[k]  OBVIOUS
    <2> QED  BY <2>1, <2>2 DEF RequestFits, HomeOf, Made
  <1>4. (\A c \in 1 .. Len(threads) : HomeOf(threads[c].ws, threads[c].tree))'  BY DEF HomeOf
  <1>5. (Apart(threads))'  BY DEF Apart
  <1>6. (Apart(pending))'  BY <1>1 DEF Apart
  <1> QED  BY <1>3, <1>4, <1>5, <1>6


LEMMA AloneStep ==
    ASSUME NEW p, NEW q, NEW i, NEW r, NEW new \in BOOLEAN, Changed(q, p, i, r, new), Alone(p),
           new /\ Submission(r) =>
             \/ i \in 1 .. Len(p) /\ Submission(p[i])
             \/ \A j \in 1 .. Len(p) : ~Submission(p[j])
    PROVE  Alone(q)
  <1> SUFFICES ASSUME NEW k \in 1 .. Len(q), NEW l \in 1 .. Len(q), k # l, Submission(q[k]), Submission(q[l])
               PROVE  FALSE
      BY DEF Alone
  <1> HIDE DEF Submission
  <1>1. CASE \E j, h \in Left(p, i) : j # h /\ q[k] = p[j] /\ q[l] = p[h]
      BY <1>1 DEF Alone, Left
  <1>2. CASE new /\ \E j \in Left(p, i) : (q[k] = p[j] /\ q[l] = r) \/ (q[k] = r /\ q[l] = p[j])
    <2>1. PICK j \in Left(p, i) : Submission(p[j]) /\ Submission(r)  BY <1>2
    <2>2. j \in 1 .. Len(p) /\ j # i  BY DEF Left
    <2> QED  BY <1>2, <2>1, <2>2 DEF Alone
  <1> QED  BY <1>1, <1>2 DEF Changed

LEMMA PromisesStep ==
    ASSUME NEW p, NEW q, NEW i, NEW r, NEW new \in BOOLEAN, Changed(q, p, i, r, new),
           NEW thread, NEW texts, Promises(p, thread, texts),
           new /\ Submission(r) =>
             /\ r.answer # "failed" /\ (r.what = "conversation" => r.from = NewThread)
             /\ thread = NewThread /\ NewThread \in texts
             /\ \/ i \in 1 .. Len(p) /\ Submission(p[i])
                \/ \A j \in 1 .. Len(p) : ~Submission(p[j])
    PROVE  Promises(q, thread, texts)
  <1>1. Alone(q)  BY AloneStep DEF Promises
  <1> SUFFICES ASSUME NEW k \in 1 .. Len(q), Submission(q[k])
               PROVE  /\ q[k].answer # "failed"
                      /\ q[k].what = "conversation" => q[k].from = NewThread
                      /\ thread = NewThread /\ NewThread \in texts
      BY <1>1 DEF Promises
  <1> HIDE DEF Submission
  <1>2. CASE new /\ q[k] = r  BY <1>2
  <1>3. CASE \E j \in Left(p, i) : q[k] = p[j]
    <2>1. PICK j \in Left(p, i) : q[k] = p[j]  BY <1>3
    <2>2. j \in 1 .. Len(p)  BY DEF Left
    <2> QED  BY <2>1, <2>2 DEF Promises
  <1> QED  BY <1>2, <1>3 DEF Changed

LEMMA UndisturbedKept ==
    ASSUME EnvTypes, Undisturbed, UNCHANGED <<trees, threads>>,
           ~history'.disturbed => ~history.disturbed /\ history'.erased = history.erased,
           NEW i, NEW r, NEW new \in BOOLEAN, Changed(pending', pending, i, r, new),
           ~history'.disturbed => Promises(pending', spot'.thread, drafts'),
           ~history'.disturbed /\ i \in 1 .. Len(pending) /\ pending[i].tree # NoTree =>
             \/ new /\ r.tree = pending[i].tree
             \/ \E c \in 1 .. Len(threads) : threads[c].tree = pending[i].tree,
           ~history'.disturbed /\ draft'.preparing =>
             \/ new /\ Prepares(r)
             \/ draft.preparing /\ (i \in 1 .. Len(pending) => ~Prepares(pending[i]))
    PROVE  Undisturbed'
  <1> HIDE DEF Submission, Prepares
  <1>1. SUFFICES ASSUME ~history'.disturbed
                 PROVE  /\ ~history'.erased
                        /\ Promises(pending', spot'.thread, drafts')
                        /\ \A t \in 1 .. Len(trees) :
                             \/ \E k \in 1 .. Len(pending') : pending'[k].tree = t
                             \/ \E c \in 1 .. Len(threads) : threads[c].tree = t
                        /\ draft'.preparing => \E k \in 1 .. Len(pending') : Prepares(pending'[k])
    <2>1. UNCHANGED <<trees, threads>>  OBVIOUS
    <2> QED  BY <2>1 DEF Undisturbed, Promises, Alone, Prepares, Submission
  <1>2. /\ ~history.disturbed /\ history'.erased = history.erased
        /\ ~history.erased /\ Promises(pending, spot.thread, drafts)
        /\ \A t \in 1 .. Len(trees) :
             \/ \E k \in 1 .. Len(pending) : pending[k].tree = t
             \/ \E c \in 1 .. Len(threads) : threads[c].tree = t
        /\ draft.preparing => \E k \in 1 .. Len(pending) : Prepares(pending[k])
      BY <1>1 DEF Undisturbed
  <1>3. ASSUME NEW t \in 1 .. Len(trees)
        PROVE  \/ \E k \in 1 .. Len(pending') : pending'[k].tree = t
               \/ \E c \in 1 .. Len(threads) : threads[c].tree = t
    <2>1. CASE \E c \in 1 .. Len(threads) : threads[c].tree = t  BY <2>1
    <2>2. CASE \E k \in 1 .. Len(pending) : pending[k].tree = t
      <3>1. PICK j \in 1 .. Len(pending) : pending[j].tree = t  BY <2>2
      <3>2. CASE j # i
        <4>1. j \in Left(pending, i)  BY <3>2 DEF Left
        <4> QED  BY <3>1, <4>1 DEF Changed
      <3>3. CASE j = i
        <4>1. t # NoTree
          <5>1. Len(trees) \in Nat  BY DEF EnvTypes
          <5> QED  BY <5>1 DEF NoTree
        <4> QED  BY <1>1, <3>1, <3>3, <4>1 DEF Changed
      <3> QED  BY <3>2, <3>3
    <2> QED  BY <1>2, <2>1, <2>2
  <1>4. ASSUME draft'.preparing  PROVE \E k \in 1 .. Len(pending') : Prepares(pending'[k])
    <2>1. CASE new /\ Prepares(r)  BY <2>1 DEF Changed
    <2>2. CASE draft.preparing /\ (i \in 1 .. Len(pending) => ~Prepares(pending[i]))
      <3>1. PICK j \in 1 .. Len(pending) : Prepares(pending[j])  BY <1>2, <2>2
      <3>2. j \in Left(pending, i)  BY <2>2, <3>1 DEF Left
      <3> QED  BY <3>1, <3>2 DEF Changed
    <2> QED  BY <1>1, <1>4, <2>1, <2>2
  <1> QED  BY <1>1, <1>2, <1>3, <1>4

LEMMA UndisturbedStep ==
    ASSUME EnvTypes, Undisturbed, UNCHANGED <<trees, threads>>,
           ~history'.disturbed => ~history.disturbed /\ history'.erased = history.erased,
           NEW i, NEW r, NEW new \in BOOLEAN, Changed(pending', pending, i, r, new),
           ~history'.disturbed => Promises(pending, spot'.thread, drafts'),
           ~history'.disturbed /\ new /\ Submission(r) =>
             /\ r.answer # "failed" /\ (r.what = "conversation" => r.from = NewThread)
             /\ spot'.thread = NewThread /\ NewThread \in drafts'
             /\ (i \in 1 .. Len(pending) /\ Submission(pending[i])) \/ ~Submitting,
           ~history'.disturbed /\ i \in 1 .. Len(pending) /\ pending[i].tree # NoTree =>
             \/ new /\ r.tree = pending[i].tree
             \/ \E c \in 1 .. Len(threads) : threads[c].tree = pending[i].tree,
           ~history'.disturbed /\ draft'.preparing =>
             \/ new /\ Prepares(r)
             \/ draft.preparing /\ (i \in 1 .. Len(pending) => ~Prepares(pending[i]))
    PROVE  Undisturbed'
  <1> HIDE DEF Submission, Prepares
  <1>1. ASSUME ~history'.disturbed  PROVE Promises(pending', spot'.thread, drafts')
    <2>1. ~Submitting => \A j \in 1 .. Len(pending) : ~Submission(pending[j])  BY DEF Submitting
    <2> QED  BY <1>1, <2>1, PromisesStep
  <1> QED  BY <1>1, UndisturbedKept

LEMMA ChangedNot ==
    ASSUME NEW S, NEW p \in Seq(S), NEW r
    PROVE  Changed(p, p, 0, r, FALSE)
  <1>1. Left(p, 0) = 1 .. Len(p)  BY DEF Left
  <1> QED  BY <1>1 DEF Changed

-----------------------------------------------------------------------------
(* The requests and the effects. *)

LEMMA Asked ==
    ASSUME NEW what \in Whats, NEW ws \in Spaces, NEW branch \in Labels, NEW tree \in Nat, NEW from \in Nat
    PROVE  /\ Ask0(what, ws) \in Request
           /\ [Ask0(what, ws) EXCEPT !.branch = branch] \in Request
           /\ [Ask0(what, ws) EXCEPT !.tree = tree] \in Request
           /\ [Ask0(what, ws) EXCEPT !.tree = tree, !.from = from] \in Request
  <1>1. NoStatus \in Shown  BY DEF NoStatus, Shown, Levels, Labels
  <1>2. NewThread \in Nat /\ NoTree \in Nat /\ "" \in Labels  BY DEF NewThread, NoTree, Labels
  <1> QED  BY <1>1, <1>2 DEF Ask0, Request, Whats

LEMMA BaseEffect ==
    ASSUME NEW s \in Shown, NEW base \in Labels
    PROVE  /\ ResolveDraftBaseBranch(base, s) \in Labels
           /\ ResolveDraftBaseBranch(base, s) = s.branch \/ ResolveDraftBaseBranch(base, s) \in KnownBranches(s)
  BY DEF ResolveDraftBaseBranch, Shown, Labels

LEMMA StatusEffect ==
    ASSUME NEW s \in Shown, NEW d \in Drafts, NEW e, e = StatusEffects(d, s)
    PROVE  /\ e \in Drafts /\ e.preparing = d.preparing
           /\ e.base = s.branch \/ e.base \in KnownBranches(s)
           /\ e.mode = "worktree" => d.mode = "worktree" /\ s.level = "ready"
  <1>1. PICK b \in Labels : b = ResolveDraftBaseBranch(d.base, s) /\ (b = s.branch \/ b \in KnownBranches(s))
      BY BaseEffect DEF Drafts
  <1>2. PICK m \in {"local", "worktree"} : m = IF s.level = "ready" THEN d.mode ELSE "local"
      BY DEF Drafts
  <1>3. e = [d EXCEPT !.base = b, !.mode = m]  BY <1>1, <1>2 DEF StatusEffects
  <1>4. e \in Drafts /\ e.preparing = d.preparing /\ e.base = b /\ e.mode = m  BY <1>3 DEF Drafts
  <1> QED  BY <1>1, <1>2, <1>4

LEMMA PlaceEffect ==
    ASSUME NEW thread, NEW d \in Drafts, NEW e, e = PlaceEffects(d, thread)
    PROVE  /\ e \in Drafts /\ e.preparing = d.preparing /\ e.base = d.base
           /\ e.mode = "worktree" => d.mode = "worktree" /\ thread = NewThread
  <1>1. PICK m \in {"local", "worktree"} : m = IF thread # NewThread THEN "local" ELSE d.mode
      BY DEF Drafts
  <1>2. e = [d EXCEPT !.mode = m]  BY <1>1 DEF PlaceEffects
  <1>3. e \in Drafts /\ e.preparing = d.preparing /\ e.base = d.base /\ e.mode = m  BY <1>2 DEF Drafts
  <1> QED  BY <1>1, <1>3

-----------------------------------------------------------------------------
(* The user. *)

LEMMA ModeSoundSame ==
    ASSUME ModeSound, UNCHANGED <<spot, status>>,
           draft'.mode = draft.mode /\ draft'.base = draft.base
    PROVE  ModeSound'
  BY DEF ModeSound, KnownBranches

LEMMA GoToSpotStep ==
    ASSUME EnvInv, NEW ws \in Spaces, NEW thread \in Nat, GoToSpot(ws, thread)
    PROVE  EnvInv'
  <1> PICK r : r = Ask0("status", ws)  OBVIOUS
  <1> PICK new \in BOOLEAN : new = (ws # spot.ws)  OBVIOUS
  <1>1. r \in Request  BY Asked DEF Whats, Labels, NewThread
  <1>2. pending \in Seq(Request)  BY DEF EnvInv, EnvTypes
  <1>3. pending' \in Seq(Request) /\ Changed(pending', pending, 0, r, new)
    <2>1. CASE new  BY <1>1, <1>2, <2>1, ChangedAppend DEF GoToSpot
    <2>2. CASE ~new  BY <1>2, <2>2, ChangedNot DEF GoToSpot
    <2> QED  BY <2>1, <2>2
  <1>4. r.tree = NoTree /\ r.what = "status" /\ ~Submission(r)  BY DEF Ask0, Submission
  <1>5. draft \in Drafts /\ status \in Shown  BY DEF EnvInv, EnvTypes
  <1>6. PICK b \in Labels : /\ b = ResolveDraftBaseBranch(draft.base, status)
                            /\ b = status.branch \/ b \in KnownBranches(status)
      BY <1>5, BaseEffect DEF Drafts
  <1>7. PICK d : d = [draft EXCEPT !.base = b]  OBVIOUS
  <1>8. d \in Drafts /\ d.mode = draft.mode /\ d.base = b /\ d.preparing = draft.preparing
      BY <1>5, <1>7 DEF Drafts
  <1>9. draft' = PlaceEffects(d, thread)  BY <1>6, <1>7 DEF GoToSpot
  <1>10. /\ draft' \in Drafts /\ draft'.preparing = d.preparing /\ draft'.base = b
         /\ draft'.mode = "worktree" => draft.mode = "worktree" /\ thread = NewThread
      BY <1>8, <1>9, PlaceEffect
  <1>11. spot' = [ws |-> ws, thread |-> thread]  BY DEF GoToSpot
  <1>12. history' = [history EXCEPT !.disturbed = @ \/ Submitting]  BY DEF GoToSpot
  <1>13. /\ history' \in [disturbed : BOOLEAN, erased : BOOLEAN, failed : BOOLEAN]
         /\ history'.disturbed <=> history.disturbed \/ Submitting
         /\ history'.erased = history.erased
      BY <1>12 DEF EnvInv, EnvTypes, Submitting
  <1>14. EnvTypes'  BY <1>3, <1>10, <1>11, <1>13 DEF EnvInv, EnvTypes, GoToSpot
  <1>15. TreesApart'
    <2>1. Inherits(r, 0, new)  BY <1>1, <1>4 DEF Inherits, RequestFits, HomeOf, Made, Request
    <2> QED  BY <1>3, <2>1, TreesStep DEF EnvInv, GoToSpot
  <1>16. Undisturbed'
    <2>1. 0 \notin 1 .. Len(pending)  BY <1>2
    <2>2. ~history'.disturbed => Promises(pending, spot'.thread, drafts')
        BY <1>13 DEF EnvInv, Undisturbed, Promises, Submitting
    <2> QED  BY <1>3, <1>4, <1>8, <1>10, <1>13, <2>1, <2>2, UndisturbedStep DEF EnvInv, GoToSpot
  <1>17. ModeSound'
    <2>1. status' = status /\ spot'.thread = thread  BY <1>11 DEF GoToSpot
    <2>2. draft'.mode = "worktree" => spot'.thread = NewThread /\ status'.level = "ready"
        BY <1>10, <2>1 DEF EnvInv, ModeSound
    <2>3. draft'.base = status'.branch \/ draft'.base \in KnownBranches(status')
        BY <1>6, <1>10, <2>1
    <2> QED  BY <2>2, <2>3 DEF ModeSound, KnownBranches
  <1> QED  BY <1>14, <1>15, <1>16, <1>17 DEF EnvInv

LEMMA SpotStep ==
    ASSUME EnvInv, ChooseWorkspace \/ ChooseThread \/ NewDraft
    PROVE  EnvInv'
  <1>1. CASE ChooseWorkspace
      BY <1>1, GoToSpotStep DEF ChooseWorkspace, Spaces, NewThread
  <1>2. CASE ChooseThread
    <2>1. PICK c \in 1 .. Len(threads) : GoToSpot(threads[c].ws, c)  BY <1>2 DEF ChooseThread
    <2>2. threads \in Seq(Thread)  BY DEF EnvInv, EnvTypes
    <2>3. threads[c] \in Thread /\ c \in Nat  BY <2>2
    <2>4. threads[c].ws \in Spaces  BY <2>3 DEF Thread
    <2> QED  BY <2>1, <2>3, <2>4, GoToSpotStep
  <1>3. CASE NewDraft
    <2>1. spot.ws \in Spaces /\ NewThread \in Nat  BY DEF EnvInv, EnvTypes, NewThread
    <2> QED  BY <1>3, <2>1, GoToSpotStep DEF NewDraft
  <1> QED  BY <1>1, <1>2, <1>3

LEMMA DraftStep ==
    ASSUME EnvInv, SetDraftEnvMode \/ \E branch \in Branches : SetDraftBaseBranch(branch)
    PROVE  EnvInv'
  <1>1. /\ draft \in Drafts
        /\ UNCHANGED <<repo, trees, threads, spot, acts, status, drafts, turns, pending, history>>
      BY DEF EnvInv, EnvTypes, SetDraftEnvMode, SetDraftBaseBranch
  <1>2. draft' \in Drafts /\ draft'.preparing = draft.preparing /\ ModeSound'
    <2>1. CASE SetDraftEnvMode
      <3>1. PICK m \in {"local", "worktree"} : draft' = [draft EXCEPT !.mode = m]
          BY <2>1 DEF SetDraftEnvMode
      <3>2. draft' \in Drafts /\ draft'.preparing = draft.preparing /\ draft'.base = draft.base
          BY <1>1, <3>1 DEF Drafts
      <3>3. ModeSound'  BY <1>1, <2>1, <3>2 DEF EnvInv, ModeSound, KnownBranches, SetDraftEnvMode
      <3> QED  BY <3>2, <3>3
    <2>2. ASSUME NEW branch \in Branches, SetDraftBaseBranch(branch)
          PROVE  draft' \in Drafts /\ draft'.preparing = draft.preparing /\ ModeSound'
      <3>1. draft' = [draft EXCEPT !.base = branch] /\ branch \in KnownBranches(status)
          BY <2>2 DEF SetDraftBaseBranch
      <3>2. /\ draft' \in Drafts /\ draft'.preparing = draft.preparing /\ draft'.base = branch
            /\ draft'.mode = draft.mode
          BY <1>1, <3>1 DEF Drafts, Labels
      <3>3. ModeSound'  BY <1>1, <3>1, <3>2 DEF EnvInv, ModeSound, KnownBranches
      <3> QED  BY <3>2, <3>3
    <2> QED  BY <2>1, <2>2
  <1>3. EnvTypes'  BY <1>1, <1>2 DEF EnvInv, EnvTypes
  <1>4. TreesApart'  BY <1>1 DEF EnvInv, TreesApart, RequestFits, HomeOf, Made, Apart
  <1>5. Undisturbed'
      BY <1>1, <1>2 DEF EnvInv, Undisturbed, Promises, Alone, Prepares, Submission
  <1> QED  BY <1>2, <1>3, <1>4, <1>5 DEF EnvInv

LEMMA RequestStep ==
    ASSUME EnvInv, NEW r \in Request, r.what \in {"status", "init", "checkout", "push"}, r.tree = NoTree,
           pending' = Append(pending, r),
           UNCHANGED <<repo, trees, threads, spot, status, draft, drafts, turns, history>>
    PROVE  EnvInv'
  <1>1. pending \in Seq(Request)  BY DEF EnvInv, EnvTypes
  <1>2. pending' \in Seq(Request) /\ Changed(pending', pending, 0, r, TRUE)  BY <1>1, ChangedAppend
  <1>3. ~Submission(r)  BY DEF Submission
  <1>4. EnvTypes'  BY <1>2 DEF EnvInv, EnvTypes
  <1>5. TreesApart'
    <2>1. Inherits(r, 0, TRUE)  BY DEF Inherits, RequestFits, HomeOf, Made
    <2> QED  BY <1>2, <2>1, TreesStep DEF EnvInv
  <1>6. Undisturbed'
    <2>1. 0 \notin 1 .. Len(pending)  BY <1>1
    <2>2. ~history'.disturbed => Promises(pending, spot'.thread, drafts')  BY DEF EnvInv, Undisturbed
    <2> QED  BY <1>2, <1>3, <2>1, <2>2, UndisturbedStep DEF EnvInv
  <1>7. ModeSound'  BY ModeSoundSame DEF EnvInv
  <1> QED  BY <1>4, <1>5, <1>6, <1>7 DEF EnvInv

LEMMA AskStep ==
    ASSUME EnvInv, InitGit \/ PushBranch \/ PollStatus \/ \E branch \in Branches : CheckoutBranch(branch)
    PROVE  EnvInv'
  <1>1. spot.ws \in Spaces /\ "" \in Labels /\ status.branch \in Labels /\ Branches \subseteq Labels
      BY DEF EnvInv, EnvTypes, Shown, Labels
  <1>2. ASSUME NEW what \in {"init", "checkout", "push"}, NEW branch \in Labels, GitRequest(what, branch)
        PROVE  EnvInv'
    <2>1. PICK r : r = [Ask0(what, spot.ws) EXCEPT !.branch = branch]  OBVIOUS
    <2>2. r \in Request  BY <1>1, <2>1, Asked DEF Whats, NewThread
    <2>3. r.what = what /\ r.tree = NoTree  BY <2>1 DEF Ask0
    <2> QED  BY <1>2, <2>1, <2>2, <2>3, RequestStep DEF GitRequest
  <1>3. CASE PollStatus
    <2>1. PICK r : r = Ask0("status", spot.ws)  OBVIOUS
    <2>2. r \in Request  BY <1>1, <2>1, Asked DEF Whats, NewThread
    <2>3. r.what = "status" /\ r.tree = NoTree  BY <2>1 DEF Ask0
    <2> QED  BY <1>3, <2>1, <2>2, <2>3, RequestStep DEF PollStatus
  <1> QED  BY <1>1, <1>2, <1>3 DEF InitGit, PushBranch, CheckoutBranch

LEMMA ComposerStep ==
    ASSUME EnvInv, TypeText \/ SubmitInThread \/ TurnOver
    PROVE  EnvInv'
  <1>1. /\ spot.thread \in Nat /\ drafts \subseteq Nat /\ turns \subseteq Nat \ {NewThread}
        /\ history \in [disturbed : BOOLEAN, erased : BOOLEAN, failed : BOOLEAN]
      BY DEF EnvInv, EnvTypes
  <1>2. UNCHANGED <<repo, trees, threads, spot, status, draft, pending>>
      BY DEF TypeText, SubmitInThread, TurnOver
  <1>3. /\ drafts' \subseteq Nat /\ turns' \subseteq Nat \ {NewThread}
        /\ history' \in [disturbed : BOOLEAN, erased : BOOLEAN, failed : BOOLEAN]
        /\ history'.erased = history.erased
        /\ history.disturbed => history'.disturbed
        /\ ~history'.disturbed => drafts \subseteq drafts' \/ ~Submitting
    <2>1. CASE TypeText  BY <1>1, <2>1 DEF TypeText
    <2>2. CASE TurnOver  BY <1>1, <2>2 DEF TurnOver
    <2>3. CASE SubmitInThread  BY <1>1, <2>3 DEF SubmitInThread, Submitting
    <2> QED  BY <2>1, <2>2, <2>3
  <1>4. EnvTypes'  BY <1>2, <1>3 DEF EnvInv, EnvTypes
  <1>5. TreesApart'  BY <1>2 DEF EnvInv, TreesApart, RequestFits, HomeOf, Made, Apart
  <1>6. Undisturbed'
    <2>1. ~history'.disturbed => Promises(pending, spot.thread, drafts')
      <3>1. ~history'.disturbed => Promises(pending, spot.thread, drafts)
          BY <1>3 DEF EnvInv, Undisturbed
      <3> QED  BY <1>3, <3>1 DEF Promises, Submitting
    <2>2. (Promises(pending, spot.thread, drafts') <=> Promises(pending, spot.thread, drafts)')
        BY <1>2 DEF Promises, Alone, Submission
    <2> QED  BY <1>2, <1>3, <2>1, <2>2 DEF EnvInv, Undisturbed, Prepares
  <1>7. ModeSound'  BY <1>2, ModeSoundSame DEF EnvInv
  <1> QED  BY <1>4, <1>5, <1>6, <1>7 DEF EnvInv

LEMMA SubmitNewThreadStep ==
    ASSUME EnvInv, SubmitNewThread
    PROVE  EnvInv'
  <1>1. /\ pending \in Seq(Request) /\ spot.ws \in Spaces /\ draft \in Drafts
        /\ turns \subseteq Nat \ {NewThread}
        /\ history \in [disturbed : BOOLEAN, erased : BOOLEAN, failed : BOOLEAN]
      BY DEF EnvInv, EnvTypes
  <1>2. /\ spot.thread = NewThread /\ NewThread \in drafts
        /\ UNCHANGED <<repo, trees, threads, spot, status, drafts, turns>>
        /\ history' = [history EXCEPT !.disturbed = @ \/ Submitting]
      BY DEF SubmitNewThread
  <1>3. PICK r \in Request :
          /\ pending' = Append(pending, r)
          /\ r.tree = NoTree /\ r.answer = "none" /\ (r.what = "conversation" => r.from = NewThread)
          /\ \/ r.what = "worktree" /\ draft'.preparing
             \/ r.what = "conversation" /\ draft' = draft
          /\ draft' \in Drafts /\ draft'.mode = draft.mode /\ draft'.base = draft.base
    <2>1. CASE draft.mode = "worktree"
      <3>1. PICK r : r = [Ask0("worktree", spot.ws) EXCEPT !.branch = draft.base]  OBVIOUS
      <3>2. r \in Request  BY <1>1, <3>1, Asked DEF Whats, NewThread, Drafts
      <3>3. r.tree = NoTree /\ r.answer = "none" /\ r.what = "worktree"  BY <3>1 DEF Ask0
      <3>4. pending' = Append(pending, r) /\ draft' = [draft EXCEPT !.preparing = TRUE]
          BY <2>1, <3>1 DEF SubmitNewThread
      <3>5. draft' \in Drafts /\ draft'.mode = draft.mode /\ draft'.base = draft.base
          BY <1>1, <3>4 DEF Drafts
      <3>6. draft'.preparing  BY <1>1, <3>4 DEF Drafts
      <3>7. r.what = "worktree" /\ draft'.preparing  BY <3>3, <3>6
      <3>8. r.what # "conversation"  BY <3>3
      <3> QED  BY <3>2, <3>3, <3>4, <3>5, <3>7, <3>8
    <2>2. CASE draft.mode # "worktree"
      <3>1. PICK r : r = [Ask0("conversation", spot.ws) EXCEPT !.tree = NoTree, !.from = spot.thread]  OBVIOUS
      <3>2. r \in Request
        <4>1. "conversation" \in Whats /\ "" \in Labels /\ NoTree \in Nat /\ spot.thread \in Nat
            BY <1>2 DEF Whats, Labels, NewThread, NoTree
        <4> QED  BY <1>1, <3>1, <4>1, Asked
      <3>3. r.tree = NoTree /\ r.answer = "none" /\ r.what = "conversation" /\ r.from = NewThread
          BY <1>2, <3>1 DEF Ask0
      <3>4. spot.thread \notin turns  BY <1>1, <1>2
      <3>5. pending' = Append(pending, r) /\ draft' = draft
          BY <1>2, <2>2, <3>1, <3>4 DEF SubmitNewThread, EnsureConversation
      <3> QED  BY <1>1, <3>2, <3>3, <3>5
    <2> QED  BY <2>1, <2>2
  <1>4. pending' \in Seq(Request) /\ Changed(pending', pending, 0, r, TRUE)  BY <1>1, <1>3, ChangedAppend
  <1>5. /\ history' \in [disturbed : BOOLEAN, erased : BOOLEAN, failed : BOOLEAN]
        /\ history'.erased = history.erased
        /\ ~history'.disturbed => ~history.disturbed /\ ~Submitting
      BY <1>1, <1>2 DEF Submitting
  <1>6. EnvTypes'  BY <1>2, <1>3, <1>4, <1>5 DEF EnvInv, EnvTypes
  <1>7. TreesApart'
    <2>1. Inherits(r, 0, TRUE)  BY <1>3 DEF Inherits, RequestFits, HomeOf, Made
    <2> QED  BY <1>2, <1>4, <2>1, TreesStep DEF EnvInv
  <1>8. Undisturbed'
    <2>1. 0 \notin 1 .. Len(pending)  BY <1>1
    <2>2. ~history'.disturbed => Promises(pending, spot'.thread, drafts')  BY <1>2, <1>5 DEF EnvInv, Undisturbed
    <2>3. r.what = "worktree" => Prepares(r)  BY DEF Prepares
    <2> QED  BY <1>2, <1>3, <1>4, <1>5, <2>1, <2>2, <2>3, UndisturbedStep DEF EnvInv
  <1>9. ModeSound'  BY <1>2, <1>3, ModeSoundSame DEF EnvInv
  <1> QED  BY <1>6, <1>7, <1>8, <1>9 DEF EnvInv

-----------------------------------------------------------------------------
(* The server. *)

LEMMA ServeTypes ==
    ASSUME EnvInv, NEW i \in 1 .. Len(pending), ServeRequest(i)
    PROVE  /\ pending[i] \in Request /\ RequestFits(pending[i]) /\ pending[i].answer = "none"
           /\ UNCHANGED <<spot, acts, status, draft, drafts, turns>>
  <1>1. pending \in Seq(Request)  BY DEF EnvInv, EnvTypes
  <1> QED  BY <1>1 DEF EnvInv, TreesApart, ServeRequest

\* A request is answered, with whatever it reports, and the worktrees and the conversations
\* stay.
LEMMA AnswerStep ==
    ASSUME EnvInv, NEW i \in 1 .. Len(pending), NEW r \in Request, pending' = [pending EXCEPT ![i] = r],
           pending[i].answer = "none", r.answer # "none",
           r.ws = pending[i].ws /\ r.tree = pending[i].tree /\ r.what = pending[i].what /\ r.from = pending[i].from,
           r.answer = "ok" => r.what \notin {"worktree", "conversation"},
           repo' \in [Spaces -> [level : Levels, branch : Labels]],
           history' \in [disturbed : BOOLEAN, erased : BOOLEAN, failed : BOOLEAN],
           history'.erased = history.erased, history.disturbed => history'.disturbed,
           r.answer = "failed" /\ Submission(r) => history'.disturbed,
           UNCHANGED <<trees, threads, spot, status, draft, drafts, turns>>
    PROVE  EnvInv'
  <1>1. pending \in Seq(Request)  BY DEF EnvInv, EnvTypes
  <1>2. pending' \in Seq(Request) /\ Changed(pending', pending, i, r, TRUE)  BY <1>1, ChangedReplace
  <1>3. EnvTypes'  BY <1>2 DEF EnvInv, EnvTypes
  <1>4. TreesApart'
    <2>1. RequestFits(pending[i])  BY DEF EnvInv, TreesApart
    <2>2. Inherits(r, i, TRUE)  BY <2>1 DEF Inherits, RequestFits, HomeOf, Made, Request
    <2> QED  BY <1>2, <2>2, TreesStep DEF EnvInv
  <1>5. Undisturbed'
    <2>1. Submission(r) => Submission(pending[i])  BY DEF Submission
    <2>2. Prepares(pending[i]) => Prepares(r)  BY DEF Prepares
    <2>3. ~history'.disturbed => Promises(pending, spot'.thread, drafts')  BY DEF EnvInv, Undisturbed
    <2>4. ~history'.disturbed /\ Submission(r) =>
            /\ r.answer # "failed" /\ (r.what = "conversation" => r.from = NewThread)
            /\ spot'.thread = NewThread /\ NewThread \in drafts'
        BY <2>1, <2>3 DEF Promises
    <2>5. draft'.preparing => Prepares(r) \/ (draft.preparing /\ ~Prepares(pending[i]))  BY <2>2
    <2> QED  BY <1>2, <2>1, <2>3, <2>4, <2>5, UndisturbedStep DEF EnvInv
  <1>6. ModeSound'  BY ModeSoundSame DEF EnvInv
  <1> QED  BY <1>3, <1>4, <1>5, <1>6 DEF EnvInv

LEMMA ServeAnswers ==
    ASSUME EnvInv, NEW i \in 1 .. Len(pending), ServeRequest(i), UNCHANGED <<trees, threads>>
    PROVE  EnvInv'
  <1>1. PICK p : p = pending[i]  OBVIOUS
  <1>2. /\ p \in Request /\ p.answer = "none"
        /\ UNCHANGED <<spot, acts, status, draft, drafts, turns>>
      BY <1>1, ServeTypes
  <1>3. /\ pending \in Seq(Request) /\ trees \in Seq(Spaces) /\ threads \in Seq(Thread)
        /\ repo \in [Spaces -> [level : Levels, branch : Labels]]
        /\ history \in [disturbed : BOOLEAN, erased : BOOLEAN, failed : BOOLEAN]
      BY DEF EnvInv, EnvTypes
  <1>4. CASE /\ pending' = [pending EXCEPT ![i].answer = "failed"]
             /\ history' = [history EXCEPT !.failed = TRUE, !.disturbed = @ \/ Submission(p)]
             /\ UNCHANGED <<repo, trees, threads>>
    <2>1. PICK r : r = [p EXCEPT !.answer = "failed"]  OBVIOUS
    <2>2. /\ r \in Request /\ r.answer = "failed"
          /\ r.ws = p.ws /\ r.tree = p.tree /\ r.what = p.what /\ r.from = p.from
        BY <1>2, <2>1 DEF Request
    <2>3. pending' = [pending EXCEPT ![i] = r]  BY <1>1, <1>4, <2>1
    <2>4. /\ history' \in [disturbed : BOOLEAN, erased : BOOLEAN, failed : BOOLEAN]
          /\ history'.erased = history.erased
          /\ history'.disturbed <=> history.disturbed \/ Submission(p)
        BY <1>3, <1>4 DEF Submission
    <2>5. Submission(r) <=> Submission(p)  BY <2>2 DEF Submission
    <2> QED  BY <1>1, <1>2, <1>3, <1>4, <2>2, <2>3, <2>4, <2>5, AnswerStep
  <1>5. CASE /\ p.what = "status"
             /\ pending' = [pending EXCEPT ![i].answer = "ok", ![i].got = StatusOf(p.ws)]
             /\ UNCHANGED <<repo, trees, threads, history>>
    <2>1. PICK s : s = StatusOf(p.ws)  OBVIOUS
    <2>2. s \in Shown  BY <1>2, <1>3, <2>1 DEF StatusOf, Shown, Request
    <2>3. PICK r : r = [p EXCEPT !.answer = "ok", !.got = s]  OBVIOUS
    <2>4. /\ r \in Request /\ r.answer = "ok" /\ r.what = "status"
          /\ r.ws = p.ws /\ r.tree = p.tree /\ r.what = p.what /\ r.from = p.from
        BY <1>2, <1>5, <2>2, <2>3 DEF Request
    <2>5. pending' = [pending EXCEPT ![i] = r]  BY <1>1, <1>5, <2>1, <2>3
    <2> QED  BY <1>1, <1>2, <1>3, <1>5, <2>4, <2>5, AnswerStep
  <1>6. CASE /\ p.what \in {"init", "checkout", "push"}
             /\ repo' = [repo EXCEPT ![p.ws] =
                   CASE p.what = "init" -> [level |-> "ready", branch |-> "main"]
                     [] p.what = "checkout" -> [@ EXCEPT !.branch = p.branch]
                     [] OTHER -> @]
             /\ pending' = [pending EXCEPT ![i].answer = "ok"]
             /\ UNCHANGED <<trees, threads, history>>
    <2>1. PICK r : r = [p EXCEPT !.answer = "ok"]  OBVIOUS
    <2>2. /\ r \in Request /\ r.answer = "ok" /\ r.what \notin {"worktree", "conversation"}
          /\ r.ws = p.ws /\ r.tree = p.tree /\ r.what = p.what /\ r.from = p.from
        BY <1>2, <1>6, <2>1 DEF Request
    <2>3. pending' = [pending EXCEPT ![i] = r]  BY <1>1, <1>6, <2>1
    <2>4. repo' \in [Spaces -> [level : Levels, branch : Labels]]
      <3>1. p.ws \in Spaces /\ p.branch \in Labels  BY <1>2 DEF Request
      <3>2. repo[p.ws] \in [level : Levels, branch : Labels]  BY <1>3, <3>1
      <3>3. [level |-> "ready", branch |-> "main"] \in [level : Levels, branch : Labels]
          BY DEF Levels, Labels, Branches
      <3>4. [repo[p.ws] EXCEPT !.branch = p.branch] \in [level : Levels, branch : Labels]
          BY <3>1, <3>2
      <3>5. PICK x \in [level : Levels, branch : Labels] : repo' = [repo EXCEPT ![p.ws] = x]
        <4>1. CASE p.what = "init"  BY <1>6, <3>3, <4>1
        <4>2. CASE p.what = "checkout"  BY <1>6, <3>4, <4>2
        <4>3. CASE p.what = "push"  BY <1>6, <3>2, <4>3
        <4> QED  BY <1>6, <4>1, <4>2, <4>3
      <3> QED  BY <1>3, <3>1, <3>5
    <2> QED  BY <1>1, <1>2, <1>3, <1>6, <2>2, <2>3, <2>4, AnswerStep
  <1>7. CASE trees' = Append(trees, p.ws)
    <2>1. p.ws \in Spaces  BY <1>2 DEF Request
    <2>2. Len(Append(trees, p.ws)) = Len(trees) + 1 /\ Len(trees) \in Nat  BY <1>3, <2>1, AppendProperties
    <2> QED  BY <1>7, <2>2
  <1>8. CASE threads' = Append(threads, [ws |-> p.ws, tree |-> p.tree])
    <2>1. [ws |-> p.ws, tree |-> p.tree] \in Thread  BY <1>2 DEF Request, Thread
    <2>2. Len(threads') = Len(threads) + 1 /\ Len(threads) \in Nat  BY <1>3, <1>8, <2>1, AppendProperties
    <2> QED  BY <2>2
  <1> QED  BY <1>1, <1>4, <1>5, <1>6, <1>7, <1>8 DEF ServeRequest

LEMMA ServeWorktree ==
    ASSUME EnvInv, NEW i \in 1 .. Len(pending), ServeRequest(i), pending[i].what = "worktree",
           trees' = Append(trees, pending[i].ws),
           pending' = [pending EXCEPT ![i].answer = "ok", ![i].tree = Len(trees')],
           UNCHANGED <<repo, threads, history>>
    PROVE  EnvInv'
  <1>1. PICK p : p = pending[i]  OBVIOUS
  <1>2. /\ p \in Request /\ RequestFits(p) /\ p.answer = "none"
        /\ UNCHANGED <<spot, acts, status, draft, drafts, turns>>
      BY <1>1, ServeTypes
  <1>3. pending \in Seq(Request) /\ trees \in Seq(Spaces) /\ threads \in Seq(Thread)
      BY DEF EnvInv, EnvTypes
  <1>4. p.ws \in Spaces /\ p.tree = NoTree  BY <1>1, <1>2 DEF Request, RequestFits
  <1>5. PICK n : n = Len(trees) /\ n \in Nat  BY <1>3
  <1>6. /\ trees' \in Seq(Spaces) /\ Len(trees') = n + 1 /\ trees'[n + 1] = p.ws
        /\ \A t \in 1 .. n : trees'[t] = trees[t]
      BY <1>1, <1>3, <1>4, <1>5, AppendProperties
  <1>7. n + 1 \in Nat \ {NoTree} /\ n + 1 \in 1 .. n + 1 /\ n + 1 \notin 1 .. n /\ 1 .. n \subseteq 1 .. n + 1
      BY <1>5 DEF NoTree
  <1>8. PICK r : r = [p EXCEPT !.answer = "ok", !.tree = n + 1]  OBVIOUS
  <1>9. r \in Request /\ r.answer = "ok" /\ r.what = "worktree" /\ r.ws = p.ws /\ r.tree = n + 1
      BY <1>1, <1>2, <1>7, <1>8 DEF Request
  <1>10. pending' = [pending EXCEPT ![i] = r]  BY <1>1, <1>6, <1>8
  <1>11. pending' \in Seq(Request) /\ Changed(pending', pending, i, r, TRUE)
    <2>1. pending \in Seq(Request) /\ r \in Request  BY <1>3, <1>9
    <2>2. [pending EXCEPT ![i] = r] \in Seq(Request) /\ Changed([pending EXCEPT ![i] = r], pending, i, r, TRUE)
        BY <2>1, ChangedReplace
    <2> QED  BY <1>10, <2>2
  <1>12. /\ Len(pending') = Len(pending) /\ pending'[i] = r
         /\ \A k \in 1 .. Len(pending) : k # i => pending'[k] = pending[k]
    <2>1. pending \in Seq(Request) /\ r \in Request  BY <1>3, <1>9
    <2>2. PICK q : q = [pending EXCEPT ![i] = r]  OBVIOUS
    <2>3. /\ Len(q) = Len(pending) /\ q[i] = r
          /\ \A k \in 1 .. Len(pending) : k # i => q[k] = pending[k]
        BY <2>1, <2>2, ExceptSeq
    <2> QED  BY <1>10, <2>2, <2>3
  <1>13. EnvTypes'  BY <1>2, <1>6, <1>11 DEF EnvInv, EnvTypes
  <1>14. \A ws, tree : HomeOf(ws, tree) => /\ tree # n + 1
                                           /\ tree # NoTree => tree \in 1 .. n + 1 /\ trees'[tree] = ws
      BY <1>5, <1>6, <1>7 DEF HomeOf
  <1>15. \A c \in 1 .. Len(threads) : threads[c].tree # n + 1  BY <1>14 DEF EnvInv, TreesApart
  <1>16. \A k \in 1 .. Len(pending) : pending[k].tree # n + 1  BY <1>14 DEF EnvInv, TreesApart, RequestFits
  <1>17. TreesApart'
    <2>1. ASSUME NEW k \in 1 .. Len(pending')  PROVE (RequestFits(pending[k]))'
      <3>1. CASE k = i
          BY <1>6, <1>7, <1>9, <1>12, <1>15, <3>1 DEF RequestFits, HomeOf, Made
      <3>2. CASE k # i
        <4>1. PICK x : x = pending[k] /\ x = pending'[k] /\ RequestFits(x)
            BY <1>12, <3>2 DEF EnvInv, TreesApart
        <4> QED  BY <1>6, <1>14, <4>1 DEF RequestFits, HomeOf, Made
      <3> QED  BY <3>1, <3>2
    <2>2. Apart(pending')
      <3> SUFFICES ASSUME NEW k \in 1 .. Len(pending), NEW l \in 1 .. Len(pending), k # l,
                          pending'[k].tree # NoTree
                   PROVE  pending'[k].tree # pending'[l].tree
          BY <1>12 DEF Apart
      <3>1. CASE k = i  BY <1>9, <1>12, <1>16, <3>1
      <3>2. CASE l = i  BY <1>9, <1>12, <1>16, <3>2
      <3>3. CASE k # i /\ l # i  BY <1>12, <3>3 DEF EnvInv, TreesApart, Apart
      <3> QED  BY <3>1, <3>2, <3>3
    <2>3. (\A c \in 1 .. Len(threads) : HomeOf(threads[c].ws, threads[c].tree))'
      <3> SUFFICES ASSUME NEW c \in 1 .. Len(threads)
                   PROVE  (HomeOf(threads[c].ws, threads[c].tree))'
          OBVIOUS
      <3>1. HomeOf(threads[c].ws, threads[c].tree)  BY DEF EnvInv, TreesApart
      <3> QED  BY <1>6, <1>14, <3>1 DEF HomeOf
    <2>4. (Apart(threads))'  BY DEF EnvInv, TreesApart, Apart
    <2>5. (Apart(pending))'  BY <2>2 DEF Apart
    <2> QED  BY <2>1, <2>3, <2>4, <2>5 DEF TreesApart
  <1>18. Undisturbed'
    <2> SUFFICES ASSUME ~history.disturbed
                 PROVE  /\ ~history.erased
                        /\ Promises(pending', spot.thread, drafts)
                        /\ \A t \in 1 .. Len(trees') :
                             \/ \E k \in 1 .. Len(pending') : pending'[k].tree = t
                             \/ \E c \in 1 .. Len(threads) : threads[c].tree = t
                        /\ draft.preparing => \E k \in 1 .. Len(pending') : Prepares(pending'[k])
        BY <1>2 DEF Undisturbed, Promises, Alone, Submission, Prepares
    <2>1. Promises(pending', spot.thread, drafts)
      <3>1. Submission(p)  BY <1>1 DEF Submission
      <3>2. Promises(pending, spot.thread, drafts)  BY DEF EnvInv, Undisturbed
      <3>3. spot.thread = NewThread /\ NewThread \in drafts  BY <1>1, <3>1, <3>2 DEF Promises
      <3> QED  BY <1>1, <1>9, <1>11, <3>1, <3>2, <3>3, PromisesStep
    <2>2. ASSUME NEW t \in 1 .. n + 1
          PROVE  \/ \E k \in 1 .. Len(pending') : pending'[k].tree = t
                 \/ \E c \in 1 .. Len(threads) : threads[c].tree = t
      <3>1. CASE t = n + 1  BY <1>9, <1>12, <3>1
      <3>2. CASE t \in 1 .. n
        <4>1. CASE \E c \in 1 .. Len(threads) : threads[c].tree = t  BY <4>1
        <4>2. CASE \E k \in 1 .. Len(pending) : pending[k].tree = t
          <5>1. PICK k \in 1 .. Len(pending) : pending[k].tree = t  BY <4>2
          <5>2. k # i  BY <1>1, <1>4, <3>2, <5>1 DEF NoTree
          <5> QED  BY <1>12, <5>1, <5>2
        <4> QED  BY <1>5, <3>2, <4>1, <4>2 DEF EnvInv, Undisturbed
      <3> QED  BY <1>5, <3>1, <3>2
    <2>3. \E k \in 1 .. Len(pending') : Prepares(pending'[k])  BY <1>9, <1>12 DEF Prepares
    <2> QED  BY <1>6, <2>1, <2>2, <2>3 DEF EnvInv, Undisturbed
  <1>19. ModeSound'  BY <1>2, ModeSoundSame DEF EnvInv
  <1> QED  BY <1>13, <1>17, <1>18, <1>19 DEF EnvInv

LEMMA ServeConversation ==
    ASSUME EnvInv, NEW i \in 1 .. Len(pending), ServeRequest(i), pending[i].what = "conversation",
           threads' = Append(threads, [ws |-> pending[i].ws, tree |-> pending[i].tree]),
           pending' = [pending EXCEPT ![i].answer = "ok", ![i].got.ws = Len(threads')],
           UNCHANGED <<repo, trees, history>>
    PROVE  EnvInv'
  <1>1. PICK p : p = pending[i]  OBVIOUS
  <1>2. /\ p \in Request /\ RequestFits(p) /\ p.answer = "none"
        /\ UNCHANGED <<spot, acts, status, draft, drafts, turns>>
      BY <1>1, ServeTypes
  <1>3. pending \in Seq(Request) /\ trees \in Seq(Spaces) /\ threads \in Seq(Thread)
      BY DEF EnvInv, EnvTypes
  <1>4. PICK x : x = [ws |-> p.ws, tree |-> p.tree]  OBVIOUS
  <1>5. x \in Thread /\ x.ws = p.ws /\ x.tree = p.tree  BY <1>2, <1>4 DEF Request, Thread
  <1>6. PICK m : m = Len(threads) /\ m \in Nat
    <2>1. threads \in Seq(Thread)  BY <1>3
    <2>2. Len(threads) \in Nat  BY <2>1, LenProperties
    <2> QED  BY <2>2
  <1>7. /\ threads' \in Seq(Thread) /\ Len(threads') = m + 1 /\ threads'[m + 1] = x
        /\ \A c \in 1 .. m : threads'[c] = threads[c]
      BY <1>1, <1>3, <1>4, <1>5, <1>6, AppendProperties
  <1>8. /\ m + 1 \in Nat \ {NewThread} /\ m + 1 \in 1 .. m + 1 /\ m + 1 \notin 1 .. m
        /\ 1 .. m \subseteq 1 .. m + 1 /\ \A c \in 1 .. m + 1 : c \in 1 .. m \/ c = m + 1
      BY <1>6 DEF NewThread
  <1>9. PICK g : g = [p.got EXCEPT !.ws = m + 1]  OBVIOUS
  <1>10. g \in Shown /\ g.ws = m + 1
    <2>1. p.got \in Shown  BY <1>2 DEF Request
    <2> QED  BY <1>8, <1>9, <2>1 DEF Shown
  <1>11. PICK r : r = [p EXCEPT !.answer = "ok", !.got = g]  OBVIOUS
  <1>12. r \in Request  BY <1>2, <1>10, <1>11 DEF Request
  <1>13. /\ r.answer = "ok" /\ r.what = "conversation" /\ r.ws = p.ws /\ r.tree = p.tree /\ r.from = p.from
         /\ r.got.ws = m + 1
      BY <1>1, <1>2, <1>10, <1>11 DEF Request
  <1>14. pending' = [pending EXCEPT ![i] = r]  BY <1>1, <1>7, <1>9, <1>11
  <1>15. pending' \in Seq(Request) /\ Changed(pending', pending, i, r, TRUE)
    <2>1. [pending EXCEPT ![i] = r] \in Seq(Request) /\ Changed([pending EXCEPT ![i] = r], pending, i, r, TRUE)
        BY <1>3, <1>12, ChangedReplace
    <2> QED  BY <1>14, <2>1
  <1>16. /\ Len(pending') = Len(pending) /\ pending'[i] = r
         /\ \A k \in 1 .. Len(pending) : k # i => pending'[k] = pending[k]
    <2>1. PICK q : q = [pending EXCEPT ![i] = r]  OBVIOUS
    <2>2. /\ Len(q) = Len(pending) /\ q[i] = r
          /\ \A k \in 1 .. Len(pending) : k # i => q[k] = pending[k]
        BY <1>3, <1>12, <2>1, ExceptSeq
    <2> QED  BY <1>14, <2>1, <2>2
  <1>17. EnvTypes'  BY <1>2, <1>7, <1>15 DEF EnvInv, EnvTypes
  <1>18. /\ p.tree # NoTree => \A c \in 1 .. m : threads[c].tree # p.tree
         /\ HomeOf(p.ws, p.tree)
      BY <1>2, <1>6 DEF RequestFits, Made
  <1>19. Apart(pending)  BY DEF EnvInv, TreesApart
  <1>20. TreesApart'
    <2>1. ASSUME NEW k \in 1 .. Len(pending')  PROVE (RequestFits(pending[k]))'
      <3>1. CASE k = i
        <4>1. HomeOf(r.ws, r.tree)  BY <1>13, <1>18
        <4>2. \E c \in 1 .. Len(threads') : threads'[c].tree = r.tree  BY <1>5, <1>7, <1>8, <1>13
        <4> QED  BY <1>8, <1>13, <1>16, <3>1, <4>1, <4>2 DEF RequestFits, HomeOf, Made
      <3>2. CASE k # i
        <4>1. PICK y : y = pending[k] /\ y = pending'[k] /\ RequestFits(y)
            BY <1>16, <3>2 DEF EnvInv, TreesApart
        <4>2. y.tree # NoTree => y.tree # p.tree  BY <1>1, <1>16, <1>19, <3>2, <4>1 DEF Apart
        <4>3. (\E c \in 1 .. m : threads[c].tree = y.tree) => \E c \in 1 .. m + 1 : threads'[c].tree = y.tree
            BY <1>7, <1>8
        <4>4. y.tree # NoTree /\ (\A c \in 1 .. m : threads[c].tree # y.tree)
                => \A c \in 1 .. m + 1 : threads'[c].tree # y.tree
            BY <1>5, <1>7, <1>8, <4>2
        <4> QED  BY <1>6, <1>7, <4>1, <4>3, <4>4 DEF RequestFits, HomeOf, Made
      <3> QED  BY <3>1, <3>2
    <2>2. (Apart(pending))'
      <3> SUFFICES ASSUME NEW k \in 1 .. Len(pending), NEW l \in 1 .. Len(pending), k # l,
                          pending'[k].tree # NoTree
                   PROVE  pending'[k].tree # pending'[l].tree
          BY <1>16 DEF Apart
      <3>1. pending'[k].tree = pending[k].tree /\ pending'[l].tree = pending[l].tree
          BY <1>1, <1>13, <1>16
      <3> QED  BY <1>19, <3>1 DEF Apart
    <2>3. (\A c \in 1 .. Len(threads) : HomeOf(threads[c].ws, threads[c].tree))'
      <3> SUFFICES ASSUME NEW c \in 1 .. m + 1
                   PROVE  HomeOf(threads'[c].ws, threads'[c].tree)
          BY <1>7 DEF HomeOf
      <3>1. CASE c = m + 1  BY <1>5, <1>7, <1>18, <3>1
      <3>2. CASE c \in 1 .. m  BY <1>6, <1>7, <3>2 DEF EnvInv, TreesApart
      <3> QED  BY <1>8, <3>1, <3>2
    <2>4. (Apart(threads))'
      <3> SUFFICES ASSUME NEW c \in 1 .. m + 1, NEW d \in 1 .. m + 1, c # d,
                          threads'[c].tree # NoTree
                   PROVE  threads'[c].tree # threads'[d].tree
          BY <1>7 DEF Apart
      <3>1. CASE c \in 1 .. m /\ d \in 1 .. m
          BY <1>6, <1>7, <3>1 DEF EnvInv, TreesApart, Apart
      <3>2. CASE c = m + 1 /\ d \in 1 .. m  BY <1>5, <1>7, <1>18, <3>2
      <3>3. CASE c \in 1 .. m /\ d = m + 1
        <4>1. threads'[d].tree = p.tree /\ threads'[c] = threads[c]  BY <1>5, <1>7, <3>3
        <4> QED  BY <1>18, <3>3, <4>1
      <3> QED  BY <1>8, <3>1, <3>2, <3>3
    <2> QED  BY <2>1, <2>2, <2>3, <2>4 DEF TreesApart
  <1>21. Undisturbed'
    <2> SUFFICES ASSUME ~history.disturbed
                 PROVE  /\ ~history.erased
                        /\ Promises(pending', spot.thread, drafts)
                        /\ \A t \in 1 .. Len(trees) :
                             \/ \E k \in 1 .. Len(pending') : pending'[k].tree = t
                             \/ \E c \in 1 .. Len(threads') : threads'[c].tree = t
                        /\ draft.preparing => \E k \in 1 .. Len(pending') : Prepares(pending'[k])
        BY <1>2 DEF Undisturbed, Promises, Alone, Submission, Prepares
    <2>1. Promises(pending', spot.thread, drafts)
      <3>1. Submission(p)  BY <1>1 DEF Submission
      <3>2. Promises(pending, spot.thread, drafts)  BY DEF EnvInv, Undisturbed
      <3>3. spot.thread = NewThread /\ NewThread \in drafts /\ p.from = NewThread
          BY <1>1, <3>1, <3>2 DEF Promises
      <3> QED  BY <1>1, <1>13, <1>15, <3>1, <3>2, <3>3, PromisesStep
    <2>2. ASSUME NEW t \in 1 .. Len(trees)
          PROVE  \/ \E k \in 1 .. Len(pending') : pending'[k].tree = t
                 \/ \E c \in 1 .. Len(threads') : threads'[c].tree = t
      <3>1. CASE \E c \in 1 .. m : threads[c].tree = t  BY <1>7, <1>8, <3>1
      <3>2. CASE \E k \in 1 .. Len(pending) : pending[k].tree = t
        <4>1. PICK k \in 1 .. Len(pending) : pending[k].tree = t  BY <3>2
        <4>2. pending'[k].tree = t  BY <1>1, <1>13, <1>16, <4>1
        <4> QED  BY <1>16, <4>2
      <3> QED  BY <1>6, <3>1, <3>2 DEF EnvInv, Undisturbed
    <2>3. \A k \in 1 .. Len(pending) : Prepares(pending[k]) => Prepares(pending'[k])
        BY <1>1, <1>13, <1>16 DEF Prepares
    <2> QED  BY <1>16, <2>1, <2>2, <2>3 DEF EnvInv, Undisturbed
  <1>22. ModeSound'  BY <1>2, ModeSoundSame DEF EnvInv
  <1> QED  BY <1>17, <1>20, <1>21, <1>22 DEF EnvInv

LEMMA ServeStep ==
    ASSUME EnvInv, NEW i \in 1 .. Len(pending), ServeRequest(i)
    PROVE  EnvInv'
  BY ServeAnswers, ServeWorktree, ServeConversation DEF ServeRequest

-----------------------------------------------------------------------------
(* The answers. *)

LEMMA ChangeAnsweredStep ==
    ASSUME EnvInv, NEW i \in 1 .. Len(pending), ChangeAnswered(i)
    PROVE  EnvInv'
  <1>1. pending \in Seq(Request) /\ draft \in Drafts  BY DEF EnvInv, EnvTypes
  <1>2. PICK p : p = pending[i]  OBVIOUS
  <1>3. p \in Request /\ RequestFits(p)  BY <1>1, <1>2 DEF EnvInv, TreesApart
  <1>4. /\ p.what \in {"init", "checkout", "push", "worktree"} /\ p.answer # "none"
        /\ pending' = IF p.answer = "failed" THEN RemoveAt(pending, i)
                      ELSE Append(RemoveAt(pending, i), [Ask0("status", p.ws) EXCEPT !.tree = p.tree])
        /\ draft' = [draft EXCEPT !.preparing = @ /\ ~(p.what = "worktree" /\ p.answer = "failed")]
        /\ UNCHANGED <<repo, trees, threads, spot, acts, status, drafts, turns, history>>
      BY <1>2 DEF ChangeAnswered
  <1>5. /\ draft' \in Drafts /\ draft'.mode = draft.mode /\ draft'.base = draft.base
        /\ draft'.preparing => draft.preparing
      BY <1>1, <1>4 DEF Drafts
  <1>6. ModeSound'  BY <1>4, <1>5, ModeSoundSame DEF EnvInv
  <1>7. ~history'.disturbed => Promises(pending, spot'.thread, drafts')  BY <1>4 DEF EnvInv, Undisturbed
  <1>8. CASE p.answer = "failed"
    <2>1. pending' = RemoveAt(pending, i)  BY <1>4, <1>8
    <2>2. pending' \in Seq(Request) /\ Changed(pending', pending, i, p, FALSE)  BY <1>1, <2>1, ChangedRemove
    <2>3. EnvTypes'  BY <1>4, <1>5, <2>2 DEF EnvInv, EnvTypes
    <2>4. TreesApart'
      <3>1. Inherits(p, i, FALSE)  BY DEF Inherits
      <3> QED  BY <1>4, <2>2, <3>1, TreesStep DEF EnvInv
    <2>5. ~history'.disturbed => p.tree = NoTree /\ p.what # "worktree"
        BY <1>2, <1>7, <1>8 DEF Promises, Submission
    <2>6. Undisturbed'
      <3>1. ~history'.disturbed => ~Prepares(pending[i])  BY <1>2, <2>5 DEF Prepares
      <3> QED  BY <1>2, <1>4, <1>5, <1>7, <2>2, <2>5, <3>1, UndisturbedStep DEF EnvInv
    <2> QED  BY <1>6, <2>3, <2>4, <2>6 DEF EnvInv
  <1>9. CASE p.answer # "failed"
    <2>1. PICK r : r = [Ask0("status", p.ws) EXCEPT !.tree = p.tree]  OBVIOUS
    <2>2. r \in Request
      <3>1. "status" \in Whats /\ "" \in Labels /\ NewThread \in Nat /\ p.tree \in Nat /\ p.ws \in Spaces
          BY <1>3 DEF Whats, Labels, NewThread, Request
      <3> QED  BY <2>1, <3>1, Asked
    <2>3. r.what = "status" /\ r.ws = p.ws /\ r.tree = p.tree /\ r.answer = "none"  BY <2>1 DEF Ask0
    <2>4. pending' = Append(RemoveAt(pending, i), r)  BY <1>4, <1>9, <2>1
    <2>5. pending' \in Seq(Request) /\ Changed(pending', pending, i, r, TRUE)
        BY <1>1, <2>2, <2>4, ChangedMove
    <2>6. EnvTypes'  BY <1>4, <1>5, <2>5 DEF EnvInv, EnvTypes
    <2>7. TreesApart'
      <3>1. Inherits(r, i, TRUE)  BY <1>2, <1>3, <1>4, <2>2, <2>3 DEF Inherits, RequestFits, Made
      <3> QED  BY <1>4, <2>5, <3>1, TreesStep DEF EnvInv
    <2>8. Undisturbed'
      <3>1. Submission(r) => Submission(pending[i])  BY <1>2, <2>3 DEF Submission
      <3>2. ~history'.disturbed /\ Submission(r) => spot'.thread = NewThread /\ NewThread \in drafts'
          BY <1>7, <3>1 DEF Promises
      <3>3. Prepares(pending[i]) => Prepares(r)
          BY <1>2, <1>3, <1>4, <1>9, <2>3 DEF Prepares, RequestFits, Request
      <3>4. draft'.preparing => Prepares(r) \/ (draft.preparing /\ ~Prepares(pending[i]))
          BY <1>5, <3>3
      <3> QED  BY <1>2, <1>4, <1>7, <2>3, <2>5, <3>1, <3>2, <3>4, UndisturbedStep DEF EnvInv
    <2> QED  BY <1>6, <2>6, <2>7, <2>8 DEF EnvInv
  <1> QED  BY <1>8, <1>9

LEMMA ConversationAnsweredStep ==
    ASSUME EnvInv, NEW i \in 1 .. Len(pending), ConversationAnswered(i)
    PROVE  EnvInv'
  <1>1. /\ pending \in Seq(Request) /\ draft \in Drafts /\ spot \in [ws : Spaces, thread : Nat]
        /\ drafts \subseteq Nat /\ turns \subseteq Nat \ {NewThread}
        /\ history \in [disturbed : BOOLEAN, erased : BOOLEAN, failed : BOOLEAN]
      BY DEF EnvInv, EnvTypes
  <1>2. PICK p : p = pending[i]  OBVIOUS
  <1>3. p \in Request /\ RequestFits(p)  BY <1>1, <1>2 DEF EnvInv, TreesApart
  <1>4. PICK d : d = [draft EXCEPT !.preparing = @ /\ p.tree = NoTree]  OBVIOUS
  <1>5. d \in Drafts /\ d.mode = draft.mode /\ d.base = draft.base
        /\ (d.preparing => draft.preparing /\ p.tree = NoTree)
      BY <1>1, <1>4 DEF Drafts
  <1>6. /\ p.what = "conversation" /\ p.answer # "none" /\ pending' = RemoveAt(pending, i)
        /\ UNCHANGED <<repo, trees, threads, acts, status>>
      BY <1>2 DEF ConversationAnswered
  <1>7. pending' \in Seq(Request) /\ Changed(pending', pending, i, p, FALSE)  BY <1>1, <1>6, ChangedRemove
  <1>8. TreesApart'
    <2>1. Inherits(p, i, FALSE)  BY DEF Inherits
    <2> QED  BY <1>6, <1>7, <2>1, TreesStep DEF EnvInv
  <1>9. ~Prepares(pending[i]) <=> p.tree = NoTree  BY <1>2, <1>6 DEF Prepares
  <1>10. ~history.disturbed => /\ Promises(pending, spot.thread, drafts)
                               /\ p.answer # "failed" /\ p.from = NewThread
      BY <1>2, <1>6 DEF EnvInv, Undisturbed, Promises, Submission
  <1>11. CASE p.answer = "failed"
    <2>1. draft' = d /\ UNCHANGED <<spot, turns, drafts, history>>
        BY <1>2, <1>4, <1>11 DEF ConversationAnswered
    <2>2. EnvTypes'  BY <1>5, <1>6, <1>7, <2>1 DEF EnvInv, EnvTypes
    <2>3. Undisturbed'  BY <1>10, <1>11, <2>1 DEF Undisturbed
    <2>4. ModeSound'  BY <1>5, <1>6, <2>1, ModeSoundSame DEF EnvInv
    <2> QED  BY <1>8, <2>2, <2>3, <2>4 DEF EnvInv
  <1>12. CASE p.answer # "failed"
    <2>1. PICK made : made = p.got.ws  OBVIOUS
    <2>2. Made(p) /\ made \in Nat \ {NewThread}  BY <1>3, <1>6, <1>12, <2>1 DEF RequestFits, Made, Request
    <2>3. /\ spot' = [spot EXCEPT !.thread = made] /\ draft' = PlaceEffects(d, made)
          /\ turns' = turns \cup {made} /\ drafts' = drafts \ {p.from}
          /\ history' = [history EXCEPT !.erased = @ \/ (p.from \in drafts /\ p.from # NewThread)]
        BY <1>2, <1>4, <1>12, <2>1 DEF ConversationAnswered
    <2>4. /\ draft' \in Drafts /\ draft'.preparing = d.preparing /\ draft'.base = draft.base
          /\ draft'.mode = "worktree" => draft.mode = "worktree" /\ made = NewThread
        BY <1>5, <2>3, PlaceEffect
    <2>5. /\ history' \in [disturbed : BOOLEAN, erased : BOOLEAN, failed : BOOLEAN]
          /\ history'.disturbed = history.disturbed
          /\ p.from = NewThread => history'.erased = history.erased
        BY <1>1, <2>3
    <2>6. EnvTypes'
      <3>1. spot' \in [ws : Spaces, thread : Nat]  BY <1>1, <2>2, <2>3
      <3>2. drafts' \subseteq Nat /\ turns' \subseteq Nat \ {NewThread}  BY <1>1, <2>2, <2>3
      <3> QED  BY <1>6, <1>7, <2>4, <2>5, <3>1, <3>2 DEF EnvInv, EnvTypes
    <2>7. ModeSound'
      <3>1. status' = status /\ draft'.mode # "worktree"  BY <1>6, <2>2, <2>4
      <3> QED  BY <2>4, <3>1 DEF EnvInv, ModeSound, KnownBranches
    <2>8. ~history'.disturbed => Promises(pending', spot'.thread, drafts')
      <3> HAVE ~history'.disturbed
      <3>1. Promises(pending, spot.thread, drafts)  BY <1>10, <2>5
      <3>2. Submission(pending[i])  BY <1>2, <1>6 DEF Submission
      <3>3. \A k \in 1 .. Len(pending') : ~Submission(pending'[k])
          BY <1>7, <3>1, <3>2 DEF Changed, Left, Promises, Alone
      <3> QED  BY <3>3 DEF Promises, Alone
    <2>9. Undisturbed'
      <3>1. p.tree # NoTree => \E c \in 1 .. Len(threads) : threads[c].tree = p.tree
          BY <1>3, <2>2 DEF RequestFits
      <3>2. draft'.preparing => draft.preparing /\ ~Prepares(pending[i])  BY <1>5, <1>9, <2>4
      <3> QED  BY <1>2, <1>6, <1>7, <1>10, <2>5, <2>8, <3>1, <3>2, UndisturbedKept DEF EnvInv
    <2> QED  BY <1>8, <2>6, <2>7, <2>9 DEF EnvInv
  <1> QED  BY <1>11, <1>12

LEMMA StatusAnsweredStep ==
    ASSUME EnvInv, NEW i \in 1 .. Len(pending), StatusAnswered(i)
    PROVE  EnvInv'
  <1>1. /\ pending \in Seq(Request) /\ draft \in Drafts /\ spot \in [ws : Spaces, thread : Nat]
        /\ turns \subseteq Nat \ {NewThread} /\ status \in Shown
      BY DEF EnvInv, EnvTypes
  <1>2. PICK p : p = pending[i]  OBVIOUS
  <1>3. p \in Request /\ RequestFits(p)  BY <1>1, <1>2 DEF EnvInv, TreesApart
  <1>4. PICK others : others = RemoveAt(pending, i)  OBVIOUS
  <1>5. PICK shown : shown = IF p.answer = "ok" THEN p.got ELSE status  OBVIOUS
  <1>6. PICK settled : settled = IF p.answer = "ok" THEN StatusEffects(draft, shown) ELSE draft  OBVIOUS
  <1>7. PICK next : next = EnsureConversation(p.ws, p.tree, others)  OBVIOUS
  <1>8. /\ p.what = "status" /\ p.answer # "none" /\ status' = shown
        /\ pending' = IF p.tree = NoTree THEN others ELSE next
        /\ draft' = IF p.tree # NoTree /\ next = others THEN [settled EXCEPT !.preparing = FALSE] ELSE settled
        /\ UNCHANGED <<repo, trees, threads, spot, acts, drafts, turns, history>>
      BY <1>2, <1>4, <1>5, <1>6, <1>7 DEF StatusAnswered
  <1>9. shown \in Shown  BY <1>1, <1>3, <1>5 DEF Request
  <1>10. /\ settled \in Drafts /\ settled.preparing = draft.preparing
         /\ settled.mode = "worktree" => draft.mode = "worktree" /\ shown.level = "ready"
         /\ shown # NoStatus => settled.base = shown.branch \/ settled.base \in KnownBranches(shown)
    <2>1. CASE p.answer = "ok"  BY <1>1, <1>6, <1>9, <2>1, StatusEffect
    <2>2. CASE p.answer # "ok"
      <3>1. settled = draft /\ shown = status  BY <1>5, <1>6, <2>2
      <3> QED  BY <1>1, <3>1 DEF EnvInv, ModeSound
    <2> QED  BY <2>1, <2>2
  <1>11. /\ draft' \in Drafts /\ draft'.mode = settled.mode /\ draft'.base = settled.base
         /\ draft'.preparing => draft.preparing
    <2>1. CASE draft' = settled  BY <1>10, <2>1
    <2>2. CASE draft' = [settled EXCEPT !.preparing = FALSE]  BY <1>10, <2>2 DEF Drafts
    <2> QED  BY <1>8, <2>1, <2>2
  <1>12. ModeSound'
    <2>1. draft'.mode = "worktree" => spot'.thread = NewThread /\ status'.level = "ready"
        BY <1>8, <1>10, <1>11 DEF EnvInv, ModeSound
    <2>2. status' # NoStatus => draft'.base = status'.branch \/ draft'.base \in KnownBranches(status')
        BY <1>8, <1>10, <1>11
    <2> QED  BY <2>1, <2>2 DEF ModeSound, NoStatus, KnownBranches
  <1>13. pending' \in Seq(Request) => EnvTypes'  BY <1>8, <1>9, <1>11 DEF EnvInv, EnvTypes
  <1>14. ~history'.disturbed => Promises(pending, spot'.thread, drafts')  BY <1>8 DEF EnvInv, Undisturbed
  <1>15. p.tree # NoTree => Submission(pending[i])  BY <1>2 DEF Submission
  <1>16. ~history'.disturbed /\ p.tree # NoTree => spot.thread = NewThread /\ NewThread \in drafts
      BY <1>8, <1>14, <1>15 DEF Promises
  <1>17. CASE pending' = others /\ (p.tree = NoTree \/ NewThread \notin drafts \/ spot.thread \in turns)
    <2>1. pending' \in Seq(Request) /\ Changed(pending', pending, i, p, FALSE)
        BY <1>1, <1>4, <1>17, ChangedRemove
    <2>2. TreesApart'
      <3>1. Inherits(p, i, FALSE)  BY DEF Inherits
      <3> QED  BY <1>8, <2>1, <3>1, TreesStep DEF EnvInv
    <2>3. ~history'.disturbed => p.tree = NoTree  BY <1>1, <1>16, <1>17
    <2>4. Undisturbed'
      <3>1. ~history'.disturbed => ~Prepares(pending[i])  BY <1>2, <1>8, <2>3 DEF Prepares
      <3> QED  BY <1>2, <1>8, <1>11, <1>14, <2>1, <2>3, <3>1, UndisturbedStep DEF EnvInv
    <2> QED  BY <1>12, <1>13, <2>1, <2>2, <2>4 DEF EnvInv
  <1>18. CASE p.tree # NoTree /\ NewThread \in drafts /\ spot.thread \notin turns
    <2>1. PICK r : r = [Ask0("conversation", p.ws) EXCEPT !.tree = p.tree, !.from = spot.thread]  OBVIOUS
    <2>2. r \in Request
      <3>1. "conversation" \in Whats /\ "" \in Labels /\ spot.thread \in Nat /\ p.tree \in Nat /\ p.ws \in Spaces
          BY <1>1, <1>3 DEF Whats, Labels, Request
      <3> QED  BY <2>1, <3>1, Asked
    <2>3. /\ r.what = "conversation" /\ r.ws = p.ws /\ r.tree = p.tree /\ r.answer = "none"
          /\ r.from = spot.thread
        BY <2>1 DEF Ask0
    <2>4. pending' = Append(RemoveAt(pending, i), r)
        BY <1>4, <1>7, <1>8, <1>18, <2>1 DEF EnsureConversation
    <2>5. pending' \in Seq(Request) /\ Changed(pending', pending, i, r, TRUE)
        BY <1>1, <2>2, <2>4, ChangedMove
    <2>6. TreesApart'
      <3>1. Inherits(r, i, TRUE)  BY <1>2, <1>3, <1>8, <2>2, <2>3 DEF Inherits, RequestFits, Made
      <3> QED  BY <1>8, <2>5, <3>1, TreesStep DEF EnvInv
    <2>7. Undisturbed'
      <3>1. Prepares(r)  BY <1>18, <2>3 DEF Prepares
      <3> QED  BY <1>2, <1>8, <1>14, <1>15, <1>16, <1>18, <2>3, <2>5, <3>1, UndisturbedStep DEF EnvInv
    <2> QED  BY <1>12, <1>13, <2>5, <2>6, <2>7 DEF EnvInv
  <1> QED  BY <1>7, <1>8, <1>17, <1>18 DEF EnsureConversation

-----------------------------------------------------------------------------

LEMMA EnvInvInit == EnvInit => EnvInv
  <1> SUFFICES ASSUME EnvInit PROVE EnvInv
      OBVIOUS
  <1>1. PICK home \in Spaces : home = (CHOOSE ws \in DOMAIN Repos : Repos[ws] = "ready")
      BY ReposAssumption DEF Spaces
  <1>2. spot = [ws |-> home, thread |-> NewThread]  BY <1>1 DEF EnvInit
  <1>3. PICK r : r = Ask0("status", home)  OBVIOUS
  <1>4. r \in Request  BY <1>3, Asked DEF Whats, Labels, NewThread
  <1>5. r.what = "status" /\ r.tree = NoTree /\ r.answer = "none"  BY <1>3 DEF Ask0
  <1>6. pending = <<r>>
    <2>1. pending = <<Ask0("status", spot.ws)>>  BY DEF EnvInit
    <2>2. spot.ws = home  BY <1>2
    <2> QED  BY <1>3, <2>1, <2>2
  <1>7. pending \in Seq(Request) /\ Len(pending) = 1 /\ pending[1] = r  BY <1>4, <1>6
  <1>8. \A i \in 1 .. Len(pending) : i = 1 /\ pending[i] = r  BY <1>7
  <1>9. trees = <<>> /\ threads = <<>> /\ status = NoStatus /\ drafts = {} /\ turns = {}
      BY DEF EnvInit
  <1>10. /\ history = [disturbed |-> FALSE, erased |-> FALSE, failed |-> FALSE]
         /\ draft = [mode |-> "local", base |-> "", preparing |-> FALSE]
      BY DEF EnvInit
  <1>11. EnvTypes
    <2>1. repo \in [Spaces -> [level : Levels, branch : Labels]]
      <3>1. \A ws \in Spaces : Repos[ws] \in Levels  BY ReposAssumption DEF Spaces, Levels
      <3>2. "" \in Labels /\ "main" \in Labels  BY DEF Labels, Branches
      <3> QED  BY <3>1, <3>2 DEF EnvInit, Spaces
    <2>2. trees \in Seq(Spaces) /\ threads \in Seq(Thread)  BY <1>9
    <2>3. status \in Shown  BY <1>9 DEF NoStatus, Shown, Levels, Labels
    <2>4. draft \in Drafts  BY <1>10 DEF Drafts, Labels
    <2> QED  BY <1>2, <1>7, <1>9, <1>10, <2>1, <2>2, <2>3, <2>4 DEF EnvTypes, NewThread
  <1>12. TreesApart
    <2>1. RequestFits(r)  BY <1>5 DEF RequestFits, HomeOf, Made
    <2>2. Apart(pending)  BY <1>8 DEF Apart
    <2>3. 1 .. Len(threads) = {}  BY <1>9
    <2> QED  BY <1>8, <2>1, <2>2, <2>3 DEF TreesApart, Apart
  <1>13. Undisturbed
    <2>1. ~Submission(r)  BY <1>5 DEF Submission
    <2>2. 1 .. Len(trees) = {}  BY <1>9
    <2> QED  BY <1>8, <1>10, <2>1, <2>2 DEF Undisturbed, Promises, Alone
  <1>14. ModeSound  BY <1>9, <1>10 DEF ModeSound
  <1> QED  BY <1>11, <1>12, <1>13, <1>14 DEF EnvInv

LEMMA EnvInvStep == EnvInv /\ [EnvNext]_envVars => EnvInv'
  <1> SUFFICES ASSUME EnvInv, [EnvNext]_envVars PROVE EnvInv'
      OBVIOUS
  <1>1. CASE UNCHANGED envVars
    <2>1. UNCHANGED <<repo, trees, threads, spot, status, draft, drafts, turns, pending, history>>
        BY <1>1 DEF envVars
    <2>2. EnvTypes'  BY <2>1 DEF EnvInv, EnvTypes
    <2>3. TreesApart'  BY <2>1 DEF EnvInv, TreesApart, RequestFits, HomeOf, Made, Apart
    <2>4. Undisturbed'  BY <2>1 DEF EnvInv, Undisturbed, Promises, Alone, Submission, Prepares
    <2>5. ModeSound'  BY <2>1, ModeSoundSame DEF EnvInv
    <2> QED  BY <2>2, <2>3, <2>4, <2>5 DEF EnvInv
  <1>2. CASE EnvNext
      BY <1>2, SpotStep, DraftStep, AskStep, ComposerStep, SubmitNewThreadStep, ServeStep,
         StatusAnsweredStep, ChangeAnsweredStep, ConversationAnsweredStep
      DEF EnvNext
  <1> QED  BY <1>1, <1>2

\* However status answers, branch changes, submissions and moves of the user
\* interleave, worktrees and conversations match (WorktreesSound): a worktree
\* belongs to one conversation of its own workspace, an undisturbed submission
\* leaves none without a conversation, and the worktree mode follows the status
\* on screen (App.tsx, draftConversationSubmit.ts, useGitStatus.ts).
THEOREM WorktreesStaySound == EnvInit /\ [][EnvNext]_envVars => []WorktreesSound
  <1>1. EnvInv => WorktreesSound
    <2> SUFFICES ASSUME EnvInv PROVE WorktreesSound
        OBVIOUS
    <2>1. TreesAtHome
      <3>1. \A c \in 1 .. Len(threads) : threads[c].tree # NoTree => trees[threads[c].tree] = threads[c].ws
          BY DEF EnvInv, TreesApart, HomeOf
      <3>2. Apart(threads)  BY DEF EnvInv, TreesApart
      <3> QED  BY <3>1, <3>2 DEF TreesAtHome, Apart
    <2>2. TreesUsed
      <3> SUFFICES ASSUME ~history.disturbed, ~Submitting
                   PROVE  /\ \A t \in 1 .. Len(trees) : \E c \in 1 .. Len(threads) : threads[c].tree = t
                          /\ ~draft.preparing
          BY DEF EnvInv, Undisturbed, TreesUsed
      <3>1. \A i \in 1 .. Len(pending) : pending[i].tree = NoTree /\ pending[i].what # "worktree"
          BY DEF Submitting, Submission
      <3>2. Len(trees) \in Nat  BY DEF EnvInv, EnvTypes
      <3>3. \A t \in 1 .. Len(trees) : t # NoTree  BY <3>2 DEF NoTree
      <3> QED  BY <3>1, <3>3 DEF EnvInv, Undisturbed, Prepares
    <2> QED  BY <2>1, <2>2 DEF EnvInv, WorktreesSound
  <1> QED  BY <1>1, EnvInvInit, EnvInvStep, PTL
=============================================================================
