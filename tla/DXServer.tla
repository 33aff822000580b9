------------------------------ MODULE DXServer ------------------------------
(***************************************************************************)
(* The render server: the communicator in front of request dispatching.    *)
(*                                                                         *)
(* The communicator runs in the main thread.  It gives every connection a  *)
(* key and keeps _clients, from keys to sockets.  A message is handled     *)
(* under the key its socket has at that moment, and the reply goes to the  *)
(* socket the key has when the reply is ready.  With the message clientKey *)
(* a browser that had a key before asks for it back.                       *)
(*                                                                         *)
(* The keys come from rand(), which nothing seeds: a restarted server      *)
(* draws the same keys again, KeySeq, while the browsers keep theirs.      *)
(***************************************************************************)
EXTENDS Dispatch

CONSTANTS
  Sockets,      \* connections, each used once
  Browsers,
  BrowserOf,    \* the browser a connection belongs to
  KeySeq,       \* what genHash returns, from the start of the process on
  MaxRestarts   \* bound of the model

NoKey == "none"   \* a string the server knows no client by
NoBrowser == "none"

ASSUME ServerAssumption ==
  /\ NoKey \notin Clients
  /\ BrowserOf \in [Sockets -> Browsers]
  /\ KeySeq \in Seq(Clients)
  /\ IsInjective(KeySeq)
  /\ MaxRestarts \in Nat

VARIABLES
  conn,          \* state of each connection
  clientSocket,  \* _clients: key -> socket
  generated,     \* number of keys drawn by this process
  greeted,       \* connections that have sent clientKey
  epoch,         \* number of restarts
  told,          \* keys each browser has been told by clientKey
  delivered,     \* replies written to each socket
  \* What the properties remember:
  asker,         \* asker[c][t + 1] is the socket that asked for ticket t
  lastKey,       \* the key each socket had last
  drawnFor       \* the browser whose connection a key was drawn for

commVars == <<conn, clientSocket, generated, greeted, epoch, told, delivered,
              asker, lastKey, drawnFor>>
serverVars == <<vars, commVars>>

ServerTypeOK ==
  /\ TypeOK
  /\ conn \in [Sockets -> {"new", "open", "closed"}]
  /\ DOMAIN clientSocket \subseteq Clients
  /\ Range(clientSocket) \subseteq Sockets
  /\ generated \in 0 .. Len(KeySeq)
  /\ greeted \subseteq Sockets
  /\ epoch \in 0 .. MaxRestarts
  /\ told \in [Browsers -> SUBSET Clients]
  /\ delivered \in [Sockets -> Seq([client : Clients, exp : Nat])]
  /\ asker \in [Clients -> Seq(Sockets)]
  /\ \A c \in Clients : Len(asker[c]) = next[c]
  /\ lastKey \in [Sockets -> Clients \cup {NoKey}]
  /\ drawnFor \in [Clients -> Browsers \cup {NoBrowser}]

EmptyMap == [k \in {} |-> NoKey]

ServerInit ==
  /\ Init
  /\ conn = [s \in Sockets |-> "new"]
  /\ clientSocket = EmptyMap
  /\ generated = 0
  /\ greeted = {}
  /\ epoch = 0
  /\ told = [b \in Browsers |-> {}]
  /\ delivered = [s \in Sockets |-> <<>>]
  /\ asker = [c \in Clients |-> <<>>]
  /\ lastKey = [s \in Sockets |-> NoKey]
  /\ drawnFor = [c \in Clients |-> NoBrowser]

\* getKey: whether socket s has a key, and which.
HasKey(s) == s \in Range(clientSocket)
KeyOf(s) == CHOOSE c \in DOMAIN clientSocket : clientSocket[c] = s

Erase(c) == Restrict(clientSocket, DOMAIN clientSocket \ {c})

\* _clients[c] = s
Assign(map, c, s) == [k \in DOMAIN map \cup {c} |-> IF k = c THEN s ELSE map[k]]

-----------------------------------------------------------------------------
OnNewConnection(s) ==
  /\ conn[s] = "new"
  /\ generated < Len(KeySeq)
  /\ LET key == KeySeq[generated + 1] IN
       /\ clientSocket' = Assign(clientSocket, key, s)
       /\ lastKey' = [lastKey EXCEPT ![s] = key]
       /\ drawnFor' = [drawnFor EXCEPT ![key] = BrowserOf[s]]
  /\ generated' = generated + 1
  /\ conn' = [conn EXCEPT ![s] = "open"]
  /\ UNCHANGED <<vars, greeted, epoch, told, delivered, asker>>

\* Mutant: the closure erases the key the connection was last known by.
ClosureErasesLastKey(s) ==
  /\ conn[s] = "open"
  /\ conn' = [conn EXCEPT ![s] = "closed"]
  /\ clientSocket' = Erase(lastKey[s])
  /\ UNCHANGED <<vars, generated, greeted, epoch, told, delivered, asker,
                 lastKey, drawnFor>>

OnClientClosure(s) ==
  /\ conn[s] = "open"
  /\ conn' = [conn EXCEPT ![s] = "closed"]
  /\ clientSocket' = IF HasKey(s) THEN Erase(KeyOf(s)) ELSE clientSocket
  /\ UNCHANGED <<vars, generated, greeted, epoch, told, delivered, asker,
                 lastKey, drawnFor>>

\* A message of a socket without a key is dropped: no action for it.
\* processTextMessage emits newRequest, a direct call in the main thread.
ProcessRequest(s, m) ==
  /\ conn[s] = "open"
  /\ HasKey(s)
  /\ LET c == KeyOf(s) IN
       /\ NewRequest(c, m)
       /\ asker' = [asker EXCEPT ![c] =
            [t \in 1 .. next'[c] |-> IF t <= next[c] THEN @[t] ELSE s]]
  /\ UNCHANGED <<conn, clientSocket, generated, greeted, epoch, told, delivered,
                 lastKey, drawnFor>>

\* Mutant: an old client does not give up its new key.
RemapKeepsNewKey(s, key) ==
  /\ conn[s] = "open" /\ HasKey(s) /\ s \notin greeted
  /\ greeted' = greeted \cup {s}
  /\ IF key \in known
     THEN clientSocket' = Assign(clientSocket, key, s) /\ UNCHANGED told
     ELSE /\ told' = [told EXCEPT ![BrowserOf[s]] = @ \cup {KeyOf(s)}]
          /\ UNCHANGED clientSocket
  /\ UNCHANGED <<vars, conn, generated, epoch, delivered, asker, lastKey, drawnFor>>

\* Mutant: an old client gives up its new key and does not get the old one.
RemapForgetsOldKey(s, key) ==
  /\ conn[s] = "open" /\ HasKey(s) /\ s \notin greeted
  /\ greeted' = greeted \cup {s}
  /\ IF key \in known
     THEN clientSocket' = Erase(KeyOf(s)) /\ UNCHANGED told
     ELSE /\ told' = [told EXCEPT ![BrowserOf[s]] = @ \cup {KeyOf(s)}]
          /\ UNCHANGED clientSocket
  /\ UNCHANGED <<vars, conn, generated, epoch, delivered, asker, lastKey, drawnFor>>

\* Mutant: a new client is told the key that was drawn last.
TellsNewestKey(s, key) ==
  /\ conn[s] = "open" /\ HasKey(s) /\ s \notin greeted
  /\ greeted' = greeted \cup {s}
  /\ IF key \in known
     THEN /\ clientSocket' = Assign(Erase(KeyOf(s)), key, s)
          /\ lastKey' = [lastKey EXCEPT ![s] = key]
          /\ UNCHANGED told
     ELSE /\ told' = [told EXCEPT ![BrowserOf[s]] = @ \cup {KeySeq[generated]}]
          /\ UNCHANGED <<clientSocket, lastKey>>
  /\ UNCHANGED <<vars, conn, generated, epoch, delivered, asker, drawnFor>>

\* The browsers send clientKey once per connection, with a key they were told.
ProcessClientKey(s, key) ==
  /\ conn[s] = "open"
  /\ HasKey(s)
  /\ s \notin greeted
  /\ greeted' = greeted \cup {s}
  /\ IF key \in known
     THEN /\ clientSocket' = Assign(Erase(KeyOf(s)), key, s)
          /\ lastKey' = [lastKey EXCEPT ![s] = key]
          /\ UNCHANGED told
     ELSE /\ told' = [told EXCEPT ![BrowserOf[s]] = @ \cup {KeyOf(s)}]
          /\ UNCHANGED <<clientSocket, lastKey>>
  /\ UNCHANGED <<vars, conn, generated, epoch, delivered, asker, drawnFor>>

\* Mutant: without contains, _clients[clientId] inserts a null socket.
SendWithoutContains ==
  /\ OnResolve
  /\ LET c == replyList[Head(events)].client IN
       clientSocket' = IF c \in DOMAIN clientSocket THEN clientSocket
                       ELSE Assign(clientSocket, c, NoKey)
  /\ UNCHANGED <<conn, generated, greeted, epoch, told, delivered, asker,
                 lastKey, drawnFor>>

\* Mutant: the reply goes to the newest connection.
SendToNewest ==
  /\ OnResolve
  /\ LET r == replyList[Head(events)]
         c == KeySeq[generated]
     IN  delivered' =
           IF c \in DOMAIN clientSocket
           THEN [delivered EXCEPT ![clientSocket[c]] =
                   Append(@, [client |-> r.client, exp |-> r.exp])]
           ELSE delivered
  /\ UNCHANGED <<conn, clientSocket, generated, greeted, epoch, told, asker,
                 lastKey, drawnFor>>

\* sendScene, sendFrame, sendDatabase, notifyProjectOpened: the reply goes to
\* the socket the key has now, or nowhere.
ServerOnResolve ==
  /\ OnResolve
  /\ LET r == replyList[Head(events)] IN
       delivered' =
         IF r.client \in DOMAIN clientSocket
         THEN [delivered EXCEPT ![clientSocket[r.client]] =
                 Append(@, [client |-> r.client, exp |-> r.exp])]
         ELSE delivered
  /\ UNCHANGED <<conn, clientSocket, generated, greeted, epoch, told, asker,
                 lastKey, drawnFor>>

\* The process ends and is started again; only the browsers remember.
Restart ==
  /\ epoch < MaxRestarts
  /\ epoch' = epoch + 1
  /\ known' = {}
  /\ next' = [c \in Clients |-> 0]
  /\ curr' = [c \in Clients |-> 0]
  /\ queue' = [h \in Handlers |-> <<>>]
  /\ pc' = [h \in Handlers |-> "idle"]
  /\ hand' = [h \in Handlers |-> NoRequest]
  /\ slot' = [h \in Handlers |-> 0]
  /\ replyList' = [i \in {} |-> NoRequest]
  /\ replyNext' = 0
  /\ events' = <<>>
  /\ sent' = [c \in Clients |-> <<>>]
  /\ conn' = [s \in Sockets |-> IF conn[s] = "open" THEN "closed" ELSE conn[s]]
  /\ clientSocket' = EmptyMap
  /\ generated' = 0
  /\ asker' = [c \in Clients |-> <<>>]
  /\ drawnFor' = [c \in Clients |-> NoBrowser]
  /\ UNCHANGED <<greeted, told, delivered, lastKey>>

ServerNext ==
  \/ \E s \in Sockets : OnNewConnection(s) \/ OnClientClosure(s)
  \/ \E s \in Sockets, m \in Methods : ProcessRequest(s, m)
  \/ \E s \in Sockets : \E key \in told[BrowserOf[s]] \cup {NoKey} :
       ProcessClientKey(s, key)
  \/ \E h \in Handlers : ProcessNextRequest(h) /\ UNCHANGED commVars
  \/ ServerOnResolve
  \/ Restart

ServerSpec == ServerInit /\ [][ServerNext]_serverVars

-----------------------------------------------------------------------------
(***************************************************************************)
(* Properties.                                                             *)
(***************************************************************************)

\* _clients holds raw QWebSocket pointers, and a closed socket is deleted: a
\* key never leads to a closed socket, in spite of takeovers, and a socket has
\* one key, which getKey relies on.
KeysLeadToLiveSockets ==
  /\ \A c \in DOMAIN clientSocket : conn[clientSocket[c]] = "open"
  /\ IsInjective(clientSocket)

\* A socket that is open and has no key, whose messages are all dropped, lost
\* it to another connection that asked for the same key back.
OrphanedByTakeover ==
  \A s \in Sockets : conn[s] = "open" /\ ~ HasKey(s) =>
    \E other \in greeted \ {s} : lastKey[other] = lastKey[s]

\* A connection that still has the key it asked under has received every
\* reply that was sent for it: none went to an earlier or a later connection.
KeptConnectionIsAnswered ==
  \A c \in DOMAIN clientSocket : \A i \in DOMAIN sent[c] :
    LET t == sent[c][i].exp
        s == asker[c][t + 1]
    IN  clientSocket[c] = s =>
          \E j \in DOMAIN delivered[s] : delivered[s][j] = [client |-> c, exp |-> t]

\* A key leaves _clients only with its own socket: the closure of a
\* connection whose key was taken over does not unmap the new owner.
OnlyOwnerUnmaps ==
  [][\A c \in DOMAIN clientSocket :
       c \notin DOMAIN clientSocket' =>
         LET s == clientSocket[c]
         IN  conn'[s] = "closed" \/ s \in Range(clientSocket')]_serverVars

\* While the server is not restarted, a key only ever leads to connections of
\* the browser it was drawn for: no browser gets the frames of another.
KeyStaysInBrowser ==
  epoch = 0 =>
    \A c \in DOMAIN clientSocket : drawnFor[c] = BrowserOf[clientSocket[c]]

\* Communicator.cpp:281 "found an old client, change its current key back to
\* the old key": who presents a key the server knows is the client that had
\* it, also when the server was restarted in between.
KnownKeyIsOldClient ==
  \A c \in DOMAIN clientSocket : drawnFor[c] = BrowserOf[clientSocket[c]]
=============================================================================
