--------------------------- MODULE DXServerProofs ---------------------------
(***************************************************************************)
(* Proofs about the communicator in front of request dispatching: which    *)
(* socket a key leads to, through new connections, closures, clients that  *)
(* take their old key back and restarts of the process.                    *)
(***************************************************************************)
EXTENDS DXServer, DispatchProofs

-----------------------------------------------------------------------------
(***************************************************************************)
(* The map of the connections.                                             *)
(***************************************************************************)
LEMMA AssignProperties ==
  ASSUME NEW map, NEW c, NEW s
  PROVE  /\ DOMAIN Assign(map, c, s) = DOMAIN map \cup {c}
         /\ Assign(map, c, s)[c] = s
         /\ \A k \in DOMAIN map \ {c} : Assign(map, c, s)[k] = map[k]
  BY DEF Assign

LEMMA EraseProperties ==
  ASSUME NEW c
  PROVE  /\ DOMAIN Erase(c) = DOMAIN clientSocket \ {c}
         /\ \A k \in DOMAIN clientSocket \ {c} : Erase(c)[k] = clientSocket[k]
  BY DEF Erase, Restrict

LEMMA HasKeyMeans ==
  \A s : HasKey(s) <=> \E c \in DOMAIN clientSocket : clientSocket[c] = s
  BY DEF HasKey, Range

LEMMA KeyOfIsKey ==
  ASSUME NEW s, HasKey(s)
  PROVE  KeyOf(s) \in DOMAIN clientSocket /\ clientSocket[KeyOf(s)] = s
<1>1. \E c \in DOMAIN clientSocket : clientSocket[c] = s
  BY HasKeyMeans
<1> QED
  BY <1>1 DEF KeyOf

\* The keys this process has drawn.
Drawn == {KeySeq[i] : i \in 1 .. generated}

LEMMA NextKeyIsNew ==
  ASSUME ServerAssumption, generated \in Nat, generated < Len(KeySeq)
  PROVE  /\ KeySeq[generated + 1] \in Clients
         /\ KeySeq[generated + 1] \notin Drawn
<1>1. /\ DOMAIN KeySeq = 1 .. Len(KeySeq) /\ Len(KeySeq) \in Nat
      /\ \A i \in DOMAIN KeySeq : KeySeq[i] \in Clients
  BY DEF ServerAssumption
<1>2. generated + 1 \in DOMAIN KeySeq /\ \A i \in 1 .. generated : i \in DOMAIN KeySeq
  BY <1>1
<1>3. \A i \in 1 .. generated : KeySeq[i] # KeySeq[generated + 1]
  BY <1>2 DEF ServerAssumption, IsInjective
<1> QED
  BY <1>1, <1>2, <1>3 DEF Drawn

-----------------------------------------------------------------------------
(***************************************************************************)
(* The communicator takes nothing from dispatching but its guarantees: all *)
(* steps are steps of Dispatch, but a restart, which begins anew.          *)
(***************************************************************************)
DispatchInv == ReplyInv /\ TicketInv /\ OrderInv

LEMMA ServerNextIsDispatchStep ==
  ASSUME ServerTypeOK, [ServerNext]_serverVars
  PROVE  DispatchStep \/ Restart
<1>1. ASSUME NEW s \in Sockets, NEW m \in Methods, ProcessRequest(s, m)
      PROVE  DispatchStep
  <2>1. HasKey(s) /\ NewRequest(KeyOf(s), m)
    BY <1>1 DEF ProcessRequest
  <2>2. KeyOf(s) \in Clients
    BY <2>1, KeyOfIsKey DEF ServerTypeOK
  <2> QED
    BY <2>1, <2>2 DEF DispatchStep
<1>2. ASSUME NEW h \in Handlers, ProcessNextRequest(h)
      PROVE  DispatchStep
  BY <1>2 DEF ProcessNextRequest, Dequeue, TakesReady, DispatchStep, ServerStep
<1>3. ASSUME ServerOnResolve
      PROVE  DispatchStep
  BY <1>3 DEF ServerOnResolve, DispatchStep, ServerStep
<1>4. ASSUME NEW s \in Sockets, NEW key,
             OnNewConnection(s) \/ OnClientClosure(s) \/ ProcessClientKey(s, key)
      PROVE  UNCHANGED vars
  BY <1>4 DEF OnNewConnection, OnClientClosure, ProcessClientKey
<1>5. ASSUME UNCHANGED serverVars
      PROVE  UNCHANGED vars
  BY <1>5 DEF serverVars
<1> QED
  BY <1>1, <1>2, <1>3, <1>4, <1>5 DEF ServerNext, DispatchStep, ServerStep

LEMMA RestartInit == Restart => Init'
  BY DEF Restart, Init

LEMMA StepDispatchInv ==
  ServerTypeOK /\ DispatchInv /\ [ServerNext]_serverVars => TypeOK' /\ DispatchInv'
<1>1. Init => TypeOK /\ DispatchInv
  BY InitTyped, InitTickets, InitOrder DEF DispatchInv
<1>2. Init' => TypeOK' /\ DispatchInv'
  BY <1>1, PTL
<1>3. ServerTypeOK /\ DispatchInv /\ DispatchStep => TypeOK' /\ DispatchInv'
  BY StepTyped, StepTickets, StepOrder DEF DispatchInv, ServerTypeOK
<1> QED
  BY <1>2, <1>3, RestartInit, ServerNextIsDispatchStep

-----------------------------------------------------------------------------
(***************************************************************************)
(* Keys and sockets.  A key in use or known to the client list was drawn   *)
(* by this process; a socket has at most one key, the one it had last; the *)
(* keys a browser was told before a restart were drawn for it; and a       *)
(* socket that asked under a key and has not sent clientKey since has had  *)
(* no other key.                                                           *)
(***************************************************************************)
KeysDrawn == known \subseteq Drawn /\ DOMAIN clientSocket \subseteq Drawn

LastKeyIsKey == \A c \in DOMAIN clientSocket : lastKey[clientSocket[c]] = c

GreetedWasNew == \A s \in greeted : conn[s] # "new"

ToldIsDrawnFor ==
  epoch = 0 => \A b \in Browsers : \A c \in told[b] : c \in Drawn /\ drawnFor[c] = b

AskersKept ==
  \A c \in Clients : \A i \in 1 .. next[c] :
    LET s == asker[c][i] IN conn[s] # "new" /\ (s \in greeted \/ lastKey[s] = c)

KeysInv ==
  /\ KeysLeadToLiveSockets
  /\ KeysDrawn
  /\ LastKeyIsKey
  /\ GreetedWasNew
  /\ ToldIsDrawnFor
  /\ KeyStaysInBrowser
  /\ OrphanedByTakeover
  /\ AskersKept

\* What the steps below use of the types.
LEMMA ServerFacts ==
  ASSUME ServerTypeOK
  PROVE  /\ \A c \in DOMAIN clientSocket : c \in Clients /\ clientSocket[c] \in Sockets
         /\ \A c \in Clients : /\ next[c] \in Nat
                               /\ Len(asker[c]) = next[c]
                               /\ \A i \in 1 .. next[c] : asker[c][i] \in Sockets
         /\ generated \in Nat
         /\ known \subseteq Clients
<1>1. \A c \in DOMAIN clientSocket : clientSocket[c] \in Sockets
  BY DEF ServerTypeOK, Range
<1>2. ASSUME NEW c \in Clients
      PROVE  /\ next[c] \in Nat
             /\ \A i \in 1 .. next[c] : asker[c][i] \in Sockets
  <2>1. asker[c] \in Seq(Sockets) /\ Len(asker[c]) = next[c]
    BY DEF ServerTypeOK
  <2> QED
    BY <2>1
<1> QED
  BY <1>1, <1>2 DEF ServerTypeOK, TypeOK

LEMMA InitKeys == ServerInit => KeysInv
  BY DEF ServerInit, Init, EmptyMap, KeysInv, KeysLeadToLiveSockets, IsInjective,
         KeysDrawn, LastKeyIsKey, GreetedWasNew, ToldIsDrawnFor, KeyStaysInBrowser,
         OrphanedByTakeover, AskersKept

\* A new connection gets a key that leads nowhere yet.
LEMMA NewConnectionKeys ==
  ASSUME ServerTypeOK, ServerAssumption, KeysInv, NEW s \in Sockets, OnNewConnection(s)
  PROVE  KeysInv'
<1>1. PICK key : key = KeySeq[generated + 1]
  OBVIOUS
<1>2. /\ conn[s] = "new" /\ generated < Len(KeySeq)
      /\ clientSocket' = Assign(clientSocket, key, s)
      /\ lastKey' = [lastKey EXCEPT ![s] = key]
      /\ drawnFor' = [drawnFor EXCEPT ![key] = BrowserOf[s]]
      /\ generated' = generated + 1
      /\ conn' = [conn EXCEPT ![s] = "open"]
      /\ UNCHANGED <<vars, greeted, epoch, told, delivered, asker>>
  BY <1>1 DEF OnNewConnection
<1>3. key \in Clients /\ key \notin Drawn
  BY <1>1, <1>2, NextKeyIsNew, ServerFacts
<1>4. Drawn' = Drawn \cup {key}
  BY <1>1, <1>2, ServerFacts DEF Drawn
<1>5. key \notin DOMAIN clientSocket
  BY <1>3 DEF KeysInv, KeysDrawn
<1>6. /\ DOMAIN clientSocket' = DOMAIN clientSocket \cup {key}
      /\ clientSocket'[key] = s
      /\ \A c \in DOMAIN clientSocket : clientSocket'[c] = clientSocket[c]
  BY <1>2, <1>5 DEF Assign
<1>7. /\ conn'[s] = "open"
      /\ \A x \in Sockets \ {s} : conn'[x] = conn[x] /\ lastKey'[x] = lastKey[x]
      /\ lastKey'[s] = key
      /\ drawnFor'[key] = BrowserOf[s]
      /\ \A c \in Clients \ {key} : drawnFor'[c] = drawnFor[c]
  BY <1>2, <1>3 DEF ServerTypeOK
<1>8. \A c \in DOMAIN clientSocket :
        clientSocket[c] \in Sockets \ {s} /\ c \in Clients /\ c # key
  BY <1>2, <1>5, ServerFacts DEF KeysInv, KeysLeadToLiveSockets
<1>9. KeysLeadToLiveSockets'
  BY <1>6, <1>7, <1>8 DEF KeysInv, KeysLeadToLiveSockets, IsInjective
<1>10. KeysDrawn'
  BY <1>2, <1>4, <1>6 DEF KeysInv, KeysDrawn, vars
<1>11. LastKeyIsKey'
  BY <1>6, <1>7, <1>8 DEF KeysInv, LastKeyIsKey
<1>12. GreetedWasNew'
  BY <1>2, <1>7 DEF KeysInv, GreetedWasNew, ServerTypeOK
<1>13. ToldIsDrawnFor'
  BY <1>2, <1>3, <1>4, <1>7 DEF KeysInv, ToldIsDrawnFor, ServerTypeOK
<1>14. KeyStaysInBrowser'
  BY <1>2, <1>6, <1>7, <1>8 DEF KeysInv, KeyStaysInBrowser
<1>15. OrphanedByTakeover'
  <2> SUFFICES ASSUME NEW x \in Sockets, conn'[x] = "open", ~ HasKey(x)'
               PROVE  \E other \in greeted' \ {x} : lastKey'[other] = lastKey'[x]
    BY DEF OrphanedByTakeover
  <2>1. \A c \in DOMAIN clientSocket' : clientSocket'[c] # x
    BY DEF HasKey, Range
  <2>2. x # s /\ ~ HasKey(x)
    BY <1>6, <2>1, HasKeyMeans
  <2>3. PICK other \in greeted \ {x} : lastKey[other] = lastKey[x]
    BY <1>7, <2>2 DEF KeysInv, OrphanedByTakeover
  <2>4. other # s /\ other \in Sockets
    BY <1>2, <2>3 DEF KeysInv, GreetedWasNew, ServerTypeOK
  <2> QED
    BY <1>2, <1>7, <2>2, <2>3, <2>4
<1>16. AskersKept'
  <2> SUFFICES ASSUME NEW c \in Clients, NEW i \in 1 .. next[c], NEW x, x = asker[c][i]
               PROVE  conn'[x] # "new" /\ (x \in greeted' \/ lastKey'[x] = c)
    BY <1>2 DEF AskersKept, vars
  <2>1. conn[x] # "new" /\ (x \in greeted \/ lastKey[x] = c) /\ x \in Sockets
    BY ServerFacts DEF KeysInv, AskersKept
  <2> QED
    BY <1>2, <1>7, <2>1
<1> QED
  BY <1>9, <1>10, <1>11, <1>12, <1>13, <1>14, <1>15, <1>16 DEF KeysInv

\* The socket that closes takes its own key out of the map, and no other.
LEMMA ClosureKeys ==
  ASSUME ServerTypeOK, KeysInv, NEW s \in Sockets, OnClientClosure(s)
  PROVE  KeysInv'
<1>1. /\ conn[s] = "open"
      /\ conn' = [conn EXCEPT ![s] = "closed"]
      /\ UNCHANGED <<vars, generated, greeted, epoch, told, delivered, asker,
                     lastKey, drawnFor>>
  BY DEF OnClientClosure
<1>2. conn'[s] = "closed" /\ \A x \in Sockets \ {s} : conn'[x] = conn[x]
  BY <1>1 DEF ServerTypeOK
<1>3. /\ DOMAIN clientSocket' = {c \in DOMAIN clientSocket : clientSocket[c] # s}
      /\ \A c \in DOMAIN clientSocket' : clientSocket'[c] = clientSocket[c]
  <2>1. CASE HasKey(s)
    <3>1. clientSocket' = Erase(KeyOf(s))
      BY <2>1 DEF OnClientClosure
    <3>2. \A c \in DOMAIN clientSocket : clientSocket[c] = s <=> c = KeyOf(s)
      BY <2>1, KeyOfIsKey DEF KeysInv, KeysLeadToLiveSockets, IsInjective
    <3> QED
      BY <3>1, <3>2, EraseProperties
  <2>2. CASE ~ HasKey(s)
    BY <2>2, HasKeyMeans DEF OnClientClosure
  <2> QED
    BY <2>1, <2>2
<1>4. Drawn' = Drawn
  BY <1>1 DEF Drawn
<1>5. KeysLeadToLiveSockets'
  BY <1>2, <1>3, ServerFacts DEF KeysInv, KeysLeadToLiveSockets, IsInjective
<1>6. KeysDrawn'
  BY <1>1, <1>3, <1>4 DEF KeysInv, KeysDrawn, vars
<1>7. LastKeyIsKey' /\ KeyStaysInBrowser'
  BY <1>1, <1>3 DEF KeysInv, LastKeyIsKey, KeyStaysInBrowser
<1>8. GreetedWasNew' /\ ToldIsDrawnFor'
  BY <1>1, <1>2, <1>4 DEF KeysInv, GreetedWasNew, ToldIsDrawnFor, ServerTypeOK
<1>9. OrphanedByTakeover'
  <2> SUFFICES ASSUME NEW x \in Sockets, conn'[x] = "open", ~ HasKey(x)'
               PROVE  \E other \in greeted' \ {x} : lastKey'[other] = lastKey'[x]
    BY DEF OrphanedByTakeover
  <2>1. x # s /\ conn[x] = "open"
    BY <1>2
  <2>2. \A c \in DOMAIN clientSocket' : clientSocket'[c] # x
    BY DEF HasKey, Range
  <2>3. ~ HasKey(x)
    BY <1>3, <2>1, <2>2, HasKeyMeans
  <2> QED
    BY <1>1, <2>1, <2>3 DEF KeysInv, OrphanedByTakeover
<1>10. AskersKept'
  <2>1. \A x \in Sockets : conn[x] # "new" => conn'[x] # "new"
    BY <1>2
  <2> QED
    BY <1>1, <2>1, ServerFacts DEF KeysInv, AskersKept, vars
<1> QED
  BY <1>5, <1>6, <1>7, <1>8, <1>9, <1>10 DEF KeysInv

\* A browser that is new is told its key; one that is known exchanges its key
\* for the old one, which may be another connection's.
LEMMA NewClientKeys ==
  ASSUME ServerTypeOK, ServerAssumption, KeysInv, NEW s \in Sockets, NEW key,
         ProcessClientKey(s, key), key \notin known
  PROVE  KeysInv'
<1>1. /\ conn[s] = "open" /\ HasKey(s)
      /\ greeted' = greeted \cup {s}
      /\ told' = [told EXCEPT ![BrowserOf[s]] = @ \cup {KeyOf(s)}]
      /\ UNCHANGED <<known, next, conn, clientSocket, generated, epoch, asker,
                     lastKey, drawnFor>>
  BY DEF ProcessClientKey, vars
<1>2. PICK old \in DOMAIN clientSocket : old = KeyOf(s) /\ clientSocket[old] = s
  BY <1>1, KeyOfIsKey
<1>3. Drawn' = Drawn
  BY <1>1 DEF Drawn
<1>4. KeysLeadToLiveSockets' /\ KeysDrawn' /\ LastKeyIsKey' /\ KeyStaysInBrowser'
  BY <1>1, <1>3
     DEF KeysInv, KeysLeadToLiveSockets, KeysDrawn, LastKeyIsKey, KeyStaysInBrowser
<1>5. GreetedWasNew' /\ AskersKept'
  BY <1>1 DEF KeysInv, GreetedWasNew, AskersKept
<1>6. ToldIsDrawnFor'
  <2> SUFFICES ASSUME epoch = 0, NEW b \in Browsers, NEW c \in told'[b]
               PROVE  c \in Drawn /\ drawnFor[c] = b
    BY <1>1, <1>3 DEF ToldIsDrawnFor
  <2>1. c \in told[b] \/ (c = old /\ b = BrowserOf[s])
    BY <1>1, <1>2 DEF ServerTypeOK, ServerAssumption
  <2>2. old \in Drawn /\ drawnFor[old] = BrowserOf[s]
    BY <1>2 DEF KeysInv, KeysDrawn, KeyStaysInBrowser
  <2> QED
    BY <2>1, <2>2 DEF KeysInv, ToldIsDrawnFor
<1>7. OrphanedByTakeover'
  BY <1>1 DEF KeysInv, OrphanedByTakeover, HasKey
<1> QED
  BY <1>4, <1>5, <1>6, <1>7 DEF KeysInv

\* What a takeover does to the map: s is moved from its key to the old one.
LEMMA OldClientMap ==
  ASSUME ServerTypeOK, KeysInv, NEW s \in Sockets, NEW key,
         ProcessClientKey(s, key), key \in known
  PROVE  \E old \in DOMAIN clientSocket :
           /\ \A c \in DOMAIN clientSocket : clientSocket[c] = s <=> c = old
           /\ DOMAIN clientSocket' = (DOMAIN clientSocket \ {old}) \cup {key}
           /\ clientSocket'[key] = s
           /\ \A c \in DOMAIN clientSocket \ {old, key} : clientSocket'[c] = clientSocket[c]
<1>1. HasKey(s) /\ clientSocket' = Assign(Erase(KeyOf(s)), key, s)
  BY DEF ProcessClientKey
<1>2. PICK old \in DOMAIN clientSocket : old = KeyOf(s) /\ clientSocket[old] = s
  BY <1>1, KeyOfIsKey
<1>3. \A c \in DOMAIN clientSocket : clientSocket[c] = s <=> c = old
  BY <1>2 DEF KeysInv, KeysLeadToLiveSockets, IsInjective
<1>4. PICK left : left = Erase(old)
  OBVIOUS
<1>5. /\ DOMAIN left = DOMAIN clientSocket \ {old}
      /\ \A c \in DOMAIN clientSocket \ {old} : left[c] = clientSocket[c]
  BY <1>4, EraseProperties
<1>6. clientSocket' = Assign(left, key, s)
  BY <1>1, <1>2, <1>4
<1>7. /\ DOMAIN clientSocket' = DOMAIN left \cup {key}
      /\ clientSocket'[key] = s
      /\ \A c \in DOMAIN left \ {key} : clientSocket'[c] = left[c]
  BY <1>6 DEF Assign
<1> QED
  BY <1>3, <1>5, <1>7

LEMMA OldClientKeys ==
  ASSUME ServerTypeOK, ServerAssumption, KeysInv, NEW s \in Sockets,
         NEW key \in told[BrowserOf[s]] \cup {NoKey},
         ProcessClientKey(s, key), key \in known
  PROVE  KeysInv'
<1>1. /\ conn[s] = "open" /\ s \notin greeted
      /\ greeted' = greeted \cup {s}
      /\ lastKey' = [lastKey EXCEPT ![s] = key]
      /\ UNCHANGED <<known, next, conn, told, generated, epoch, asker, drawnFor>>
  BY DEF ProcessClientKey, vars
<1>2. PICK old \in DOMAIN clientSocket :
        /\ \A c \in DOMAIN clientSocket : clientSocket[c] = s <=> c = old
        /\ DOMAIN clientSocket' = (DOMAIN clientSocket \ {old}) \cup {key}
        /\ clientSocket'[key] = s
        /\ \A c \in DOMAIN clientSocket \ {old, key} : clientSocket'[c] = clientSocket[c]
  BY OldClientMap
<1>3. lastKey'[s] = key /\ \A x \in Sockets \ {s} : lastKey'[x] = lastKey[x]
  BY <1>1 DEF ServerTypeOK
<1>4. Drawn' = Drawn /\ key \in Drawn /\ key \in Clients
  BY <1>1, ServerFacts DEF Drawn, KeysInv, KeysDrawn
<1>5. \A c \in DOMAIN clientSocket \ {old, key} : clientSocket[c] \in Sockets \ {s}
  BY <1>2, ServerFacts
<1>6. KeysLeadToLiveSockets'
  <2>1. \A c \in DOMAIN clientSocket' : conn[clientSocket'[c]] = "open"
    BY <1>1, <1>2 DEF KeysInv, KeysLeadToLiveSockets
  <2>2. IsInjective(clientSocket)'
    BY <1>2 DEF KeysInv, KeysLeadToLiveSockets, IsInjective
  <2> QED
    BY <1>1, <2>1, <2>2 DEF KeysLeadToLiveSockets
<1>7. KeysDrawn'
  BY <1>1, <1>2, <1>4 DEF KeysInv, KeysDrawn
<1>8. LastKeyIsKey'
  BY <1>2, <1>3, <1>5 DEF KeysInv, LastKeyIsKey
<1>9. GreetedWasNew' /\ ToldIsDrawnFor'
  BY <1>1, <1>4 DEF KeysInv, GreetedWasNew, ToldIsDrawnFor
<1>10. KeyStaysInBrowser'
  <2> SUFFICES ASSUME epoch = 0, NEW c \in DOMAIN clientSocket'
               PROVE  drawnFor[c] = BrowserOf[clientSocket'[c]]
    BY <1>1 DEF KeyStaysInBrowser
  <2>1. CASE c = key
    <3>1. key \in told[BrowserOf[s]] /\ BrowserOf[s] \in Browsers
      BY <1>4 DEF ServerAssumption
    <3> QED
      BY <1>2, <2>1, <3>1 DEF KeysInv, ToldIsDrawnFor
  <2>2. CASE c # key
    BY <1>2, <2>2 DEF KeysInv, KeyStaysInBrowser
  <2> QED
    BY <2>1, <2>2
<1>11. OrphanedByTakeover'
  <2> SUFFICES ASSUME NEW x \in Sockets, conn[x] = "open", ~ HasKey(x)'
               PROVE  \E other \in greeted' \ {x} : lastKey'[other] = lastKey'[x]
    BY <1>1 DEF OrphanedByTakeover
  <2>1. \A c \in DOMAIN clientSocket' : clientSocket'[c] # x
    BY DEF HasKey, Range
  <2>2. x # s
    BY <1>2, <2>1
  <2>3. CASE HasKey(x)
    <3>1. PICK c \in DOMAIN clientSocket : clientSocket[c] = x
      BY <2>3, HasKeyMeans
    <3>2. c = key
      BY <1>2, <2>1, <2>2, <3>1
    <3>3. lastKey'[x] = key
      BY <1>3, <2>2, <3>1, <3>2 DEF KeysInv, LastKeyIsKey
    <3> QED
      BY <1>1, <1>3, <2>2, <3>3
  <2>4. CASE ~ HasKey(x)
    <3>1. PICK other \in greeted \ {x} : lastKey[other] = lastKey[x]
      BY <2>4 DEF KeysInv, OrphanedByTakeover
    <3>2. other \in Sockets \ {s}
      BY <1>1, <3>1 DEF ServerTypeOK
    <3> QED
      BY <1>1, <1>3, <2>2, <3>1, <3>2
  <2> QED
    BY <2>3, <2>4
<1>12. AskersKept'
  <2> SUFFICES ASSUME NEW c \in Clients, NEW i \in 1 .. next[c], NEW x, x = asker[c][i]
               PROVE  conn[x] # "new" /\ (x \in greeted' \/ lastKey'[x] = c)
    BY <1>1 DEF AskersKept
  <2>1. conn[x] # "new" /\ (x \in greeted \/ lastKey[x] = c) /\ x \in Sockets
    BY ServerFacts DEF KeysInv, AskersKept
  <2> QED
    BY <1>1, <1>3, <2>1
<1> QED
  BY <1>6, <1>7, <1>8, <1>9, <1>10, <1>11, <1>12 DEF KeysInv

\* A request changes what the client list knows, and its asker is its socket.
LEMMA RequestAskers ==
  ASSUME ServerTypeOK, NEW s \in Sockets, NEW m \in Methods, ProcessRequest(s, m)
  PROVE  \E c \in DOMAIN clientSocket :
           /\ clientSocket[c] = s
           /\ NewRequest(c, m)
           /\ next' \in [Clients -> Nat] /\ next[c] <= next'[c]
           /\ \A d \in Clients \ {c} : next'[d] = next[d] /\ asker'[d] = asker[d]
           /\ asker'[c] = [t \in 1 .. next'[c] |-> IF t <= next[c] THEN asker[c][t] ELSE s]
           /\ DOMAIN asker' = Clients
<1>1. PICK c \in DOMAIN clientSocket : c = KeyOf(s) /\ clientSocket[c] = s
  BY KeyOfIsKey DEF ProcessRequest
<1>2. /\ NewRequest(c, m)
      /\ asker' = [asker EXCEPT ![c] =
           [t \in 1 .. next'[c] |-> IF t <= next[c] THEN asker[c][t] ELSE s]]
  BY <1>1 DEF ProcessRequest
<1>3. c \in Clients /\ next \in [Clients -> Nat] /\ asker \in [Clients -> Seq(Sockets)]
  BY ServerFacts DEF ServerTypeOK, TypeOK
<1>4. \E n \in {1, 2} : next' = [next EXCEPT ![c] = @ + n]
  BY <1>2 DEF NewRequest, One, Two
<1>5. /\ next' \in [Clients -> Nat] /\ next[c] <= next'[c]
      /\ \A d \in Clients \ {c} : next'[d] = next[d]
  BY <1>3, <1>4
<1> QED
  BY <1>1, <1>2, <1>3, <1>5

LEMMA RequestKeys ==
  ASSUME ServerTypeOK, KeysInv, NEW s \in Sockets, NEW m \in Methods, ProcessRequest(s, m)
  PROVE  KeysInv'
<1>1. PICK c \in DOMAIN clientSocket :
        /\ clientSocket[c] = s
        /\ NewRequest(c, m)
        /\ next' \in [Clients -> Nat] /\ next[c] <= next'[c]
        /\ \A d \in Clients \ {c} : next'[d] = next[d] /\ asker'[d] = asker[d]
        /\ asker'[c] = [t \in 1 .. next'[c] |-> IF t <= next[c] THEN asker[c][t] ELSE s]
  BY RequestAskers
<1>2. /\ UNCHANGED <<conn, clientSocket, generated, greeted, epoch, told, lastKey, drawnFor>>
      /\ known' = known \cup {c}
  BY <1>1 DEF ProcessRequest, NewRequest
<1>3. KeysDrawn'
  BY <1>2 DEF KeysInv, KeysDrawn, Drawn
<1>4. AskersKept'
  <2> SUFFICES ASSUME NEW d \in Clients, NEW i \in 1 .. next'[d], NEW x, x = asker'[d][i]
               PROVE  conn[x] # "new" /\ (x \in greeted \/ lastKey[x] = d)
    BY <1>2 DEF AskersKept
  <2>1. CASE i \in 1 .. next[d] /\ asker'[d][i] = asker[d][i]
    BY <2>1 DEF KeysInv, AskersKept
  <2>2. CASE d = c /\ x = s
    BY <1>1, <2>2 DEF KeysInv, KeysLeadToLiveSockets, LastKeyIsKey
  <2>3. d = c => x = IF i <= next[c] THEN asker[c][i] ELSE s
    BY <1>1
  <2>4. next[d] \in Nat /\ i \in Nat /\ i >= 1
    BY <1>1, ServerFacts
  <2> QED
    BY <1>1, <2>1, <2>2, <2>3, <2>4
<1> QED
  BY <1>2, <1>3, <1>4
     DEF KeysInv, KeysLeadToLiveSockets, LastKeyIsKey, GreetedWasNew, ToldIsDrawnFor,
         Drawn, KeyStaysInBrowser, OrphanedByTakeover, HasKey

\* After a restart no key leads anywhere, and no socket is open.
LEMMA RestartKeys ==
  ASSUME ServerTypeOK, KeysInv, Restart
  PROVE  KeysInv'
<1>1. /\ epoch' = epoch + 1 /\ epoch \in Nat /\ known' = {}
      /\ next' = [c \in Clients |-> 0]
      /\ conn' = [s \in Sockets |-> IF conn[s] = "open" THEN "closed" ELSE conn[s]]
      /\ DOMAIN clientSocket' = {}
      /\ UNCHANGED <<greeted, told, lastKey>>
  BY DEF Restart, EmptyMap, ServerTypeOK
<1>2. epoch' # 0 /\ \A s \in Sockets : conn'[s] # "open" /\ (conn[s] # "new" => conn'[s] # "new")
  BY <1>1
<1>3. GreetedWasNew' /\ OrphanedByTakeover'
  BY <1>1, <1>2 DEF KeysInv, GreetedWasNew, OrphanedByTakeover, ServerTypeOK
<1>4. AskersKept'
  BY <1>1 DEF AskersKept
<1> QED
  BY <1>1, <1>2, <1>3, <1>4
     DEF KeysInv, KeysLeadToLiveSockets, IsInjective, KeysDrawn, LastKeyIsKey,
         ToldIsDrawnFor, KeyStaysInBrowser

LEMMA StepKeys ==
  ASSUME ServerTypeOK, ServerAssumption, KeysInv, [ServerNext]_serverVars
  PROVE  KeysInv'
<1>1. CASE UNCHANGED <<known, next, conn, clientSocket, generated, greeted, epoch,
                       told, asker, lastKey, drawnFor>>
  BY <1>1
     DEF KeysInv, KeysLeadToLiveSockets, KeysDrawn, LastKeyIsKey, GreetedWasNew,
         ToldIsDrawnFor, Drawn, KeyStaysInBrowser, OrphanedByTakeover, HasKey, AskersKept
<1>2. ASSUME NEW h \in Handlers, ProcessNextRequest(h), UNCHANGED commVars
      PROVE  KeysInv'
  BY <1>1, <1>2
     DEF ProcessNextRequest, Dequeue, Execute, Post, IncrementCurrCounter,
         UnknownMethod, commVars
<1>3. CASE ServerOnResolve
  BY <1>1, <1>3 DEF ServerOnResolve, OnResolve
<1>4. CASE UNCHANGED serverVars
  BY <1>1, <1>4 DEF serverVars, vars, commVars
<1> QED
  BY <1>2, <1>3, <1>4, NewConnectionKeys, ClosureKeys, RequestKeys, NewClientKeys,
     OldClientKeys, RestartKeys
     DEF ServerNext

-----------------------------------------------------------------------------
(***************************************************************************)
(* Types.                                                                  *)
(***************************************************************************)
LEMMA InitServerTyped == ServerAssumption /\ ServerInit => ServerTypeOK
<1> SUFFICES ASSUME ServerAssumption, ServerInit PROVE ServerTypeOK
  OBVIOUS
<1>1. TypeOK
  BY InitTyped DEF ServerInit
<1>2. /\ DOMAIN clientSocket = {} /\ Range(clientSocket) = {}
      /\ 0 \in 0 .. Len(KeySeq) /\ 0 \in 0 .. MaxRestarts
  BY DEF ServerInit, EmptyMap, Range, ServerAssumption
<1>3. \A c \in Clients : asker[c] = <<>> /\ Len(asker[c]) = next[c]
  BY DEF ServerInit, Init
<1>4. delivered \in [Sockets -> Seq([client : Clients, exp : Nat])]
  BY DEF ServerInit
<1>5. /\ asker \in [Clients -> Seq(Sockets)]
      /\ told \in [Browsers -> SUBSET Clients]
      /\ conn \in [Sockets -> {"new", "open", "closed"}]
  BY DEF ServerInit
<1> QED
  BY <1>1, <1>2, <1>3, <1>4, <1>5 DEF ServerInit, ServerTypeOK

\* The steps that change the map of the connections.
LEMMA KeyStepTyped ==
  ASSUME ServerTypeOK, ServerAssumption, KeysInv, NEW s \in Sockets,
         NEW key \in told[BrowserOf[s]] \cup {NoKey},
         OnNewConnection(s) \/ OnClientClosure(s) \/ ProcessClientKey(s, key)
  PROVE  ServerTypeOK'
<1>1. UNCHANGED <<vars, epoch, delivered, asker>> /\ TypeOK'
  BY DEF OnNewConnection, OnClientClosure, ProcessClientKey, ServerTypeOK, TypeOK, vars
<1>2. CASE OnNewConnection(s)
  <2>1. PICK new \in Clients : new = KeySeq[generated + 1]
    BY <1>2, NextKeyIsNew, ServerFacts DEF OnNewConnection
  <2>2. /\ clientSocket' = Assign(clientSocket, new, s)
        /\ lastKey' = [lastKey EXCEPT ![s] = new]
        /\ drawnFor' = [drawnFor EXCEPT ![new] = BrowserOf[s]]
        /\ conn' = [conn EXCEPT ![s] = "open"]
        /\ generated' = generated + 1 /\ generated < Len(KeySeq)
        /\ UNCHANGED <<greeted, told>>
    BY <1>2, <2>1 DEF OnNewConnection
  <2>3. DOMAIN clientSocket' \subseteq Clients /\ Range(clientSocket') \subseteq Sockets
    <3>1. \A c \in DOMAIN clientSocket' : c \in Clients /\ clientSocket'[c] \in Sockets
      BY <2>1, <2>2, ServerFacts DEF Assign
    <3> QED
      BY <3>1 DEF Range
  <2>4. generated' \in 0 .. Len(KeySeq)
    BY <2>2 DEF ServerTypeOK, ServerAssumption
  <2>5. drawnFor' \in [Clients -> Browsers \cup {NoBrowser}]
    BY <2>2 DEF ServerTypeOK, ServerAssumption
  <2> QED
    BY <1>1, <2>1, <2>2, <2>3, <2>4, <2>5 DEF ServerTypeOK, vars
<1>3. CASE OnClientClosure(s)
  <2>1. /\ DOMAIN clientSocket' \subseteq DOMAIN clientSocket
        /\ \A c \in DOMAIN clientSocket' : clientSocket'[c] = clientSocket[c]
    BY <1>3, EraseProperties DEF OnClientClosure
  <2>2. DOMAIN clientSocket' \subseteq Clients /\ Range(clientSocket') \subseteq Sockets
    BY <2>1, ServerFacts DEF Range
  <2>3. /\ conn' \in [Sockets -> {"new", "open", "closed"}]
        /\ UNCHANGED <<generated, greeted, told, lastKey, drawnFor>>
    BY <1>3 DEF OnClientClosure, ServerTypeOK
  <2> QED
    BY <1>1, <2>2, <2>3 DEF ServerTypeOK, vars
<1>4. CASE ProcessClientKey(s, key) /\ key \notin known
  <2>1. /\ told' = [told EXCEPT ![BrowserOf[s]] = @ \cup {KeyOf(s)}]
        /\ UNCHANGED <<conn, clientSocket, generated, lastKey, drawnFor>>
        /\ greeted' = greeted \cup {s}
        /\ KeyOf(s) \in Clients
    BY <1>4, KeyOfIsKey DEF ProcessClientKey, ServerTypeOK
  <2>2. told' \in [Browsers -> SUBSET Clients]
    BY <2>1 DEF ServerTypeOK
  <2> QED
    BY <1>1, <2>1, <2>2 DEF ServerTypeOK, vars
<1>5. CASE ProcessClientKey(s, key) /\ key \in known
  <2>1. key \in Clients
    BY <1>5, ServerFacts
  <2>2. PICK old \in DOMAIN clientSocket :
          /\ DOMAIN clientSocket' = (DOMAIN clientSocket \ {old}) \cup {key}
          /\ clientSocket'[key] = s
          /\ \A c \in DOMAIN clientSocket \ {old, key} : clientSocket'[c] = clientSocket[c]
    BY <1>5, OldClientMap
  <2>3. DOMAIN clientSocket' \subseteq Clients /\ Range(clientSocket') \subseteq Sockets
    BY <2>1, <2>2, ServerFacts DEF Range
  <2>4. /\ lastKey' = [lastKey EXCEPT ![s] = key]
        /\ greeted' = greeted \cup {s}
        /\ UNCHANGED <<conn, generated, told, drawnFor>>
    BY <1>5 DEF ProcessClientKey
  <2> QED
    BY <1>1, <2>1, <2>3, <2>4 DEF ServerTypeOK, vars
<1> QED
  BY <1>2, <1>3, <1>4, <1>5

LEMMA RequestTyped ==
  ASSUME ServerTypeOK, TypeOK', NEW s \in Sockets, NEW m \in Methods,
         ProcessRequest(s, m)
  PROVE  ServerTypeOK'
<1>1. PICK c \in DOMAIN clientSocket :
        /\ clientSocket[c] = s
        /\ next' \in [Clients -> Nat] /\ next[c] <= next'[c]
        /\ \A d \in Clients \ {c} : next'[d] = next[d] /\ asker'[d] = asker[d]
        /\ asker'[c] = [t \in 1 .. next'[c] |-> IF t <= next[c] THEN asker[c][t] ELSE s]
        /\ DOMAIN asker' = Clients
  BY RequestAskers
<1>2. UNCHANGED <<conn, clientSocket, generated, greeted, epoch, told, delivered,
                  lastKey, drawnFor>>
  BY DEF ProcessRequest
<1>3. ASSUME NEW d \in Clients
      PROVE  asker'[d] \in Seq(Sockets) /\ Len(asker'[d]) = next'[d]
  <2>1. CASE d = c
    <3>1. next'[c] \in Nat /\ next[c] \in Nat /\ \A i \in 1 .. next[c] : asker[c][i] \in Sockets
      BY <1>1, <2>1, ServerFacts
    <3>2. asker'[c] \in [1 .. next'[c] -> Sockets]
      BY <1>1, <3>1
    <3> QED
      BY <2>1, <3>1, <3>2
  <2>2. CASE d # c
    BY <1>1, <2>2 DEF ServerTypeOK
  <2> QED
    BY <2>1, <2>2
<1>4. asker' \in [Clients -> Seq(Sockets)]
  <2>1. asker' = [d \in Clients |-> asker'[d]]
    <3>1. asker' = [asker EXCEPT ![KeyOf(s)] =
            [t \in 1 .. next'[KeyOf(s)] |->
               IF t <= next[KeyOf(s)] THEN asker[KeyOf(s)][t] ELSE s]]
      BY DEF ProcessRequest
    <3> QED
      BY <1>1, <3>1
  <2> QED
    BY <1>3, <2>1
<1> QED
  BY <1>2, <1>3, <1>4 DEF ServerTypeOK

\* What onResolve delivers, and to whom.
LEMMA ResolveDelivers ==
  ASSUME ServerTypeOK, ReplyInv, ServerOnResolve
  PROVE  \E c \in Clients, t \in Nat :
           /\ sent' = [sent EXCEPT ![c] = Append(sent[c], [exp |-> t, resolve |-> Coming(1).resolve])]
           /\ c \notin DOMAIN clientSocket => UNCHANGED delivered
           /\ c \in DOMAIN clientSocket =>
                delivered' = [delivered EXCEPT ![clientSocket[c]] =
                  Append(delivered[clientSocket[c]], [client |-> c, exp |-> t])]
<1>1. 1 \in DOMAIN events /\ Head(events) = events[1]
  BY DEF ServerOnResolve, OnResolve, ServerTypeOK, TypeOK
<1>2. PICK r : r = replyList[Head(events)] /\ r = Coming(1)
  BY <1>1 DEF Coming
<1>3. r.client \in Clients /\ r.exp \in Nat
  BY <1>1, <1>2, ComingTyped DEF ServerTypeOK
<1>4. /\ sent' = [sent EXCEPT ![r.client] =
           Append(sent[r.client], [exp |-> r.exp, resolve |-> Coming(1).resolve])]
      /\ r.client \notin DOMAIN clientSocket => UNCHANGED delivered
      /\ r.client \in DOMAIN clientSocket =>
           delivered' = [delivered EXCEPT ![clientSocket[r.client]] =
             Append(delivered[clientSocket[r.client]], [client |-> r.client, exp |-> r.exp])]
  BY <1>2 DEF ServerOnResolve, OnResolve
<1> QED
  BY <1>3, <1>4

LEMMA ResolveTyped ==
  ASSUME ServerTypeOK, ReplyInv, TypeOK', ServerOnResolve
  PROVE  ServerTypeOK'
<1> DEFINE D == [client : Clients, exp : Nat]
<1>1. PICK c \in Clients, t \in Nat :
        /\ c \notin DOMAIN clientSocket => UNCHANGED delivered
        /\ c \in DOMAIN clientSocket =>
             delivered' = [delivered EXCEPT ![clientSocket[c]] =
               Append(delivered[clientSocket[c]], [client |-> c, exp |-> t])]
  BY ResolveDelivers
<1>2. UNCHANGED <<next, conn, clientSocket, generated, greeted, epoch, told, asker,
                  lastKey, drawnFor>>
  BY DEF ServerOnResolve, OnResolve
<1>3. PICK x \in D : x = [client |-> c, exp |-> t]
  OBVIOUS
<1>4. delivered \in [Sockets -> Seq(D)]
  BY DEF ServerTypeOK
<1> HIDE DEF D
<1>5. delivered' \in [Sockets -> Seq(D)]
  <2>1. CASE c \in DOMAIN clientSocket
    <3>1. PICK s \in Sockets : s = clientSocket[c]
      BY <2>1, ServerFacts
    <3>2. delivered' = [delivered EXCEPT ![s] = Append(delivered[s], x)]
      BY <1>1, <1>3, <2>1, <3>1
    <3>3. Append(delivered[s], x) \in Seq(D)
      BY <1>4, AppendProperties
    <3> QED
      BY <1>4, <3>2, <3>3
  <2>2. CASE c \notin DOMAIN clientSocket
    BY <1>1, <1>4, <2>2
  <2> QED
    BY <2>1, <2>2
<1>6. delivered' \in [Sockets -> Seq([client : Clients, exp : Nat])]
  BY <1>5 DEF D
<1> QED
  BY <1>2, <1>6 DEF ServerTypeOK

LEMMA RestartTyped ==
  ASSUME ServerTypeOK, TypeOK', ServerAssumption, Restart
  PROVE  ServerTypeOK'
<1>1. /\ epoch' = epoch + 1 /\ epoch < MaxRestarts
      /\ next' = [c \in Clients |-> 0]
      /\ asker' = [c \in Clients |-> <<>>]
      /\ conn' = [s \in Sockets |-> IF conn[s] = "open" THEN "closed" ELSE conn[s]]
      /\ DOMAIN clientSocket' = {} /\ Range(clientSocket') = {}
      /\ generated' = 0
      /\ drawnFor' = [c \in Clients |-> NoBrowser]
      /\ UNCHANGED <<greeted, told, delivered, lastKey>>
  BY DEF Restart, EmptyMap, Range
<1>2. epoch' \in 0 .. MaxRestarts /\ generated' \in 0 .. Len(KeySeq)
  BY <1>1 DEF ServerTypeOK, ServerAssumption
<1>3. asker' \in [Clients -> Seq(Sockets)] /\ \A c \in Clients : Len(asker'[c]) = next'[c]
  BY <1>1
<1>4. conn' \in [Sockets -> {"new", "open", "closed"}]
  BY <1>1 DEF ServerTypeOK
<1> QED
  BY <1>1, <1>2, <1>3, <1>4 DEF ServerTypeOK

LEMMA StepServerTyped ==
  ASSUME ServerTypeOK, ServerAssumption, KeysInv, DispatchInv, [ServerNext]_serverVars
  PROVE  ServerTypeOK'
<1>1. TypeOK'
  BY StepDispatchInv
<1>2. CASE UNCHANGED <<next, commVars>>
  BY <1>1, <1>2 DEF ServerTypeOK, commVars
<1>3. ASSUME NEW h \in Handlers, ProcessNextRequest(h), UNCHANGED commVars
      PROVE  ServerTypeOK'
  BY <1>2, <1>3
     DEF ProcessNextRequest, Dequeue, Execute, Post, IncrementCurrCounter, UnknownMethod
<1>4. CASE UNCHANGED serverVars
  BY <1>2, <1>4 DEF serverVars, vars
<1> QED
  BY <1>1, <1>3, <1>4, KeyStepTyped, RequestTyped, ResolveTyped, RestartTyped
     DEF ServerNext, DispatchInv

-----------------------------------------------------------------------------
(***************************************************************************)
(* Replies.  What was sent has a ticket that was handed out, so its asker  *)
(* stays; and a socket that asked under a key does not get that key later. *)
(***************************************************************************)
LEMMA SentHandedOut ==
  ASSUME TypeOK, DispatchInv, NEW c \in Clients, NEW i \in DOMAIN sent[c]
  PROVE  sent[c][i].exp \in Nat /\ sent[c][i].exp < next[c]
<1>1. sent[c][i].exp \in Nat /\ curr[c] \in Nat /\ next[c] \in Nat
  BY ComingTyped, RequestFacts DEF DispatchInv
<1>2. MayBeAnswered(c, sent[c][i].exp)
  BY DEF DispatchInv, OrderInv, AnsweredBelowTurn
<1>3. curr[c] <= next[c]
  BY DEF DispatchInv, TicketInv, CountersOrdered
<1>4. \A h \in Handlers : pc[h] = "count" => hand[h].exp = curr[hand[h].client]
                                          /\ hand[h].exp < next[hand[h].client]
  BY DEF DispatchInv, TicketInv, TurnInHand, Busy
<1> QED
  BY <1>1, <1>2, <1>3, <1>4 DEF MayBeAnswered

WasDelivered(c, t, s) ==
  \E j \in DOMAIN delivered[s] : delivered[s][j] = [client |-> c, exp |-> t]

LEMMA KeptMeans ==
  KeptConnectionIsAnswered <=>
    \A c \in DOMAIN clientSocket : \A i \in DOMAIN sent[c] : \A t :
      t = sent[c][i].exp /\ clientSocket[c] = asker[c][t + 1]
        => WasDelivered(c, t, clientSocket[c])
  BY DEF KeptConnectionIsAnswered, WasDelivered

LEMMA QuietKept ==
  ASSUME ServerTypeOK, DispatchInv, KeptConnectionIsAnswered,
         UNCHANGED <<sent, delivered>>,
         \A c \in Clients : \A i \in 1 .. next[c] : asker'[c][i] = asker[c][i],
         \A c \in DOMAIN clientSocket' : c \in Clients,
         \A c \in DOMAIN clientSocket' : \A i \in 1 .. next[c] :
           clientSocket'[c] = asker[c][i] =>
             c \in DOMAIN clientSocket /\ clientSocket[c] = clientSocket'[c]
  PROVE  KeptConnectionIsAnswered'
<1> SUFFICES ASSUME NEW c \in DOMAIN clientSocket', NEW i \in DOMAIN sent[c],
                    NEW t, t = sent[c][i].exp, clientSocket'[c] = asker'[c][t + 1]
             PROVE  WasDelivered(c, t, clientSocket'[c])
  BY DEF KeptConnectionIsAnswered, WasDelivered
<1>1. t \in Nat /\ t < next[c] /\ c \in Clients /\ next[c] \in Nat
  BY SentHandedOut, ServerFacts DEF ServerTypeOK
<1>2. t + 1 \in 1 .. next[c]
  BY <1>1
<1>3. clientSocket'[c] = asker[c][t + 1]
  BY <1>1, <1>2
<1>4. c \in DOMAIN clientSocket /\ clientSocket[c] = clientSocket'[c]
  BY <1>2, <1>3
<1> QED
  BY <1>3, <1>4, KeptMeans

\* A connection that takes a key over had it already when it asked under it.
LEMMA OldClientKept ==
  ASSUME ServerTypeOK, KeysInv, DispatchInv, KeptConnectionIsAnswered,
         NEW s \in Sockets, NEW key, ProcessClientKey(s, key), key \in known
  PROVE  KeptConnectionIsAnswered'
<1>1. PICK old \in DOMAIN clientSocket :
        /\ \A c \in DOMAIN clientSocket : clientSocket[c] = s <=> c = old
        /\ DOMAIN clientSocket' = (DOMAIN clientSocket \ {old}) \cup {key}
        /\ clientSocket'[key] = s
        /\ \A c \in DOMAIN clientSocket \ {old, key} : clientSocket'[c] = clientSocket[c]
  BY OldClientMap
<1>2. s \notin greeted /\ UNCHANGED <<sent, delivered, asker>>
  BY DEF ProcessClientKey, vars
<1>3. lastKey[s] = old
  BY <1>1 DEF KeysInv, LastKeyIsKey
<1>4. key \in Clients
  BY ServerFacts
<1>5. \A i \in 1 .. next[key] : asker[key][i] = s => key = old
  BY <1>2, <1>3, <1>4 DEF KeysInv, AskersKept
<1>6. \A c \in DOMAIN clientSocket' : c \in Clients
  BY <1>1, <1>4, ServerFacts
<1>7. ASSUME NEW c \in DOMAIN clientSocket', NEW i \in 1 .. next[c],
             clientSocket'[c] = asker[c][i]
      PROVE  c \in DOMAIN clientSocket /\ clientSocket[c] = clientSocket'[c]
  <2>1. CASE c = key
    BY <1>1, <1>5, <1>7, <2>1
  <2>2. CASE c # key
    BY <1>1, <2>2
  <2> QED
    BY <2>1, <2>2
<1> QED
  BY <1>2, <1>6, <1>7, QuietKept

\* A reply that is sent is delivered to the connection its key leads to.
LEMMA ResolveKept ==
  ASSUME ServerTypeOK, DispatchInv, KeptConnectionIsAnswered, ServerOnResolve
  PROVE  KeptConnectionIsAnswered'
<1>1. PICK c \in Clients, t \in Nat :
        /\ sent' = [sent EXCEPT ![c] = Append(sent[c], [exp |-> t, resolve |-> Coming(1).resolve])]
        /\ c \notin DOMAIN clientSocket => UNCHANGED delivered
        /\ c \in DOMAIN clientSocket =>
             delivered' = [delivered EXCEPT ![clientSocket[c]] =
               Append(delivered[clientSocket[c]], [client |-> c, exp |-> t])]
  BY ResolveDelivers DEF DispatchInv
<1>2. UNCHANGED <<clientSocket, asker>>
  BY DEF ServerOnResolve
\* The new reply is the last of its client.
<1>3. ASSUME NEW d \in Clients, NEW i \in DOMAIN sent'[d]
      PROVE  \/ d = c /\ sent'[d][i].exp = t
             \/ i \in DOMAIN sent[d] /\ sent'[d][i] = sent[d][i]
  <2> DEFINE R == [exp : Nat, resolve : RpcMethods \cup {NoReply}]
  <2>1. sent \in [Clients -> Seq(R)]
    BY DEF ServerTypeOK, TypeOK
  <2> HIDE DEF R
  <2>2. PICK x : x = [exp |-> t, resolve |-> Coming(1).resolve]
    OBVIOUS
  <2>3. CASE d = c
    <3>1. sent'[c] = Append(sent[c], x) /\ sent[c] \in Seq(R)
      BY <1>1, <2>1, <2>2
    <3>2. DOMAIN sent'[c] = 1 .. Len(sent[c]) + 1 /\ Len(sent[c]) \in Nat
      BY <3>1
    <3>3. i = Len(sent[c]) + 1 \/ i \in 1 .. Len(sent[c])
      BY <2>3, <3>2
    <3>4. x.exp = t
      BY <2>2
    <3> QED
      BY <2>3, <3>1, <3>3, <3>4
  <2>4. CASE d # c
    BY <1>1, <2>1, <2>4
  <2> QED
    BY <2>3, <2>4
\* Deliveries are only added, and the new reply's to its socket.
<1>4. /\ \A d, u : \A s \in Sockets : WasDelivered(d, u, s) => WasDelivered(d, u, s)'
      /\ c \in DOMAIN clientSocket => WasDelivered(c, t, clientSocket[c])'
  <2>1. CASE c \notin DOMAIN clientSocket
    BY <1>1, <2>1 DEF WasDelivered
  <2>2. CASE c \in DOMAIN clientSocket
    <3> DEFINE D == [client : Clients, exp : Nat]
    <3>1. PICK s \in Sockets : s = clientSocket[c]
      BY <2>2, ServerFacts
    <3>2. PICK x : x \in D /\ x = [client |-> c, exp |-> t]
      OBVIOUS
    <3>3. delivered \in [Sockets -> Seq(D)]
      BY DEF ServerTypeOK
    <3> HIDE DEF D
    <3>4. delivered' = [delivered EXCEPT ![s] = Append(delivered[s], x)]
      BY <1>1, <2>2, <3>1, <3>2
    <3>5. /\ delivered'[s] = Append(delivered[s], x) /\ delivered[s] \in Seq(D)
          /\ \A y \in Sockets \ {s} : delivered'[y] = delivered[y]
      BY <3>3, <3>4
    <3>6. /\ DOMAIN delivered[s] \subseteq DOMAIN delivered'[s]
          /\ \A j \in DOMAIN delivered[s] : delivered'[s][j] = delivered[s][j]
          /\ \E j \in DOMAIN delivered'[s] : delivered'[s][j] = x
      <4>1. /\ DOMAIN delivered'[s] = 1 .. Len(delivered[s]) + 1
            /\ DOMAIN delivered[s] = 1 .. Len(delivered[s])
            /\ Len(delivered[s]) \in Nat
            /\ delivered'[s][Len(delivered[s]) + 1] = x
            /\ \A j \in 1 .. Len(delivered[s]) : delivered'[s][j] = delivered[s][j]
        BY <3>2, <3>5
      <4> QED
        BY <4>1
    <3>7. \A d, u : \A y \in Sockets : WasDelivered(d, u, y) => WasDelivered(d, u, y)'
      BY <3>5, <3>6 DEF WasDelivered
    <3>8. WasDelivered(c, t, clientSocket[c])'
      BY <1>2, <3>1, <3>2, <3>6 DEF WasDelivered
    <3> QED
      BY <3>7, <3>8
  <2> QED
    BY <2>1, <2>2
<1>5. ASSUME NEW d \in DOMAIN clientSocket, NEW i \in DOMAIN sent'[d], NEW u,
             u = sent'[d][i].exp, clientSocket[d] = asker[d][u + 1]
      PROVE  WasDelivered(d, u, clientSocket[d])'
  <2>1. d \in Clients /\ clientSocket[d] \in Sockets
    BY ServerFacts
  <2>2. CASE d = c /\ u = t
    BY <1>4, <2>2
  <2>3. CASE i \in DOMAIN sent[d] /\ sent'[d][i] = sent[d][i]
    <3>1. WasDelivered(d, u, clientSocket[d])
      BY <1>5, <2>3, KeptMeans
    <3>2. PICK s \in Sockets : s = clientSocket[d]
      BY <2>1
    <3>3. WasDelivered(d, u, s)'
      BY <1>4, <3>1, <3>2
    <3> QED
      BY <1>2, <3>2, <3>3 DEF WasDelivered
  <2> QED
    BY <1>3, <1>5, <2>1, <2>2, <2>3
<1> QED
  BY <1>2, <1>5 DEF KeptConnectionIsAnswered, WasDelivered

LEMMA StepKept ==
  ASSUME ServerTypeOK, ServerAssumption, KeysInv, DispatchInv, KeptConnectionIsAnswered,
         [ServerNext]_serverVars
  PROVE  KeptConnectionIsAnswered'
<1>1. CASE UNCHANGED <<sent, delivered, asker, clientSocket>>
  BY <1>1 DEF KeptConnectionIsAnswered
<1>2. ASSUME NEW s \in Sockets, OnNewConnection(s)
      PROVE  KeptConnectionIsAnswered'
  <2>1. PICK key : key = KeySeq[generated + 1]
    OBVIOUS
  <2>2. /\ conn[s] = "new" /\ key \in Clients
        /\ clientSocket' = Assign(clientSocket, key, s)
        /\ UNCHANGED <<sent, delivered, asker>>
    BY <1>2, <2>1, NextKeyIsNew, ServerFacts DEF OnNewConnection, vars
  <2>3. \A i \in 1 .. next[key] : asker[key][i] # s
    BY <2>2 DEF KeysInv, AskersKept
  <2>4. /\ DOMAIN clientSocket' = DOMAIN clientSocket \cup {key}
        /\ clientSocket'[key] = s
        /\ \A c \in DOMAIN clientSocket \ {key} : clientSocket'[c] = clientSocket[c]
    BY <2>2 DEF Assign
  <2>5. \A c \in DOMAIN clientSocket' : c \in Clients
    BY <2>2, <2>4, ServerFacts
  <2>6. \A c \in DOMAIN clientSocket' : \A i \in 1 .. next[c] :
          clientSocket'[c] = asker[c][i] =>
            c \in DOMAIN clientSocket /\ clientSocket[c] = clientSocket'[c]
    BY <2>3, <2>4
  <2> QED
    BY <2>2, <2>5, <2>6, QuietKept
<1>3. ASSUME NEW s \in Sockets, OnClientClosure(s)
      PROVE  KeptConnectionIsAnswered'
  <2>1. /\ DOMAIN clientSocket' \subseteq DOMAIN clientSocket
        /\ \A c \in DOMAIN clientSocket' : clientSocket'[c] = clientSocket[c]
        /\ UNCHANGED <<sent, delivered, asker>>
    BY <1>3, EraseProperties DEF OnClientClosure, vars
  <2>2. \A c \in DOMAIN clientSocket' : c \in Clients
    BY <2>1, ServerFacts
  <2> QED
    BY <2>1, <2>2, QuietKept
<1>4. ASSUME NEW s \in Sockets, NEW m \in Methods, ProcessRequest(s, m)
      PROVE  KeptConnectionIsAnswered'
  <2>1. PICK c \in DOMAIN clientSocket :
          /\ clientSocket[c] = s
          /\ NewRequest(c, m)
          /\ next' \in [Clients -> Nat] /\ next[c] <= next'[c]
          /\ \A d \in Clients \ {c} : next'[d] = next[d] /\ asker'[d] = asker[d]
          /\ asker'[c] = [t \in 1 .. next'[c] |-> IF t <= next[c] THEN asker[c][t] ELSE s]
          /\ DOMAIN asker' = Clients
    BY <1>4, RequestAskers
  <2>2. UNCHANGED <<sent, delivered, clientSocket>>
    BY <1>4, <2>1 DEF ProcessRequest, NewRequest
  <2>3. \A d \in Clients : \A i \in 1 .. next[d] : asker'[d][i] = asker[d][i]
    <3>1. c \in Clients /\ next[c] \in Nat /\ next'[c] \in Nat
      BY <2>1, ServerFacts
    <3>2. \A i \in 1 .. next[c] : i \in 1 .. next'[c] /\ i <= next[c]
      BY <2>1, <3>1
    <3> QED
      BY <2>1, <3>2
  <2> QED
    BY <2>2, <2>3, QuietKept, ServerFacts
<1>5. ASSUME NEW s \in Sockets, NEW key, ProcessClientKey(s, key), key \notin known
      PROVE  KeptConnectionIsAnswered'
  BY <1>1, <1>5 DEF ProcessClientKey, vars
<1>6. ASSUME NEW h \in Handlers, ProcessNextRequest(h), UNCHANGED commVars
      PROVE  KeptConnectionIsAnswered'
  BY <1>1, <1>6
     DEF ProcessNextRequest, Dequeue, Execute, Post, IncrementCurrCounter,
         UnknownMethod, commVars
<1>7. ASSUME Restart
      PROVE  KeptConnectionIsAnswered'
  BY <1>7 DEF Restart, EmptyMap, KeptConnectionIsAnswered
<1>8. CASE UNCHANGED serverVars
  BY <1>1, <1>8 DEF serverVars, vars, commVars
<1> QED
  BY <1>2, <1>3, <1>4, <1>5, <1>6, <1>7, <1>8, OldClientKept, ResolveKept
     DEF ServerNext

-----------------------------------------------------------------------------
(***************************************************************************)
(* The theorems.                                                           *)
(***************************************************************************)
ServerInv ==
  ServerTypeOK /\ DispatchInv /\ KeysInv /\ KeptConnectionIsAnswered

LEMMA ServerInvariant == ServerSpec => []ServerInv
<1>1. ServerInit => ServerInv
  <2>1. ServerInit => KeptConnectionIsAnswered
    BY DEF ServerInit, EmptyMap, KeptConnectionIsAnswered
  <2> QED
    BY <2>1, ServerAssumption, InitServerTyped, InitKeys, InitTyped, InitTickets, InitOrder
       DEF ServerInv, DispatchInv, ServerInit
<1>2. ServerInv /\ [ServerNext]_serverVars => ServerInv'
  BY ServerAssumption, StepServerTyped, StepDispatchInv, StepKeys, StepKept DEF ServerInv
<1> QED
  BY <1>1, <1>2, PTL DEF ServerSpec

\* Every variable of the communicator keeps its type, and every ticket has an
\* asker, in spite of restarts.
THEOREM ServerTypeCorrect == ServerSpec => []ServerTypeOK
<1>1. ServerInv => ServerTypeOK
  BY DEF ServerInv
<1> QED
  BY <1>1, ServerInvariant, PTL

\* The promises of dispatching hold behind any number of connections, takeovers
\* of keys and restarts: no turn twice, none of one client in two threads, and
\* replies in order.
THEOREM ServerKeepsTickets == ServerSpec => [](TicketInv /\ RepliesInOrder)
<1>1. ServerInv => TicketInv /\ RepliesInOrder
  BY DEF ServerInv, DispatchInv, OrderInv
<1> QED
  BY <1>1, ServerInvariant, PTL

\* The map of the communicator never holds a pointer to a deleted socket, nor a
\* socket twice.
THEOREM KeysLeadSafely == ServerSpec => []KeysLeadToLiveSockets
<1>1. ServerInv => KeysLeadToLiveSockets
  BY DEF ServerInv, KeysInv
<1> QED
  BY <1>1, ServerInvariant, PTL

\* Until the first restart every key leads to the browser it was drawn for.
THEOREM BrowsersApart == ServerSpec => []KeyStaysInBrowser
<1>1. ServerInv => KeyStaysInBrowser
  BY DEF ServerInv, KeysInv
<1> QED
  BY <1>1, ServerInvariant, PTL

\* Whoever is open and unheard has lost its key to a connection that asked for
\* it, not by a fault of the server.
THEOREM OrphansWereTakenOver == ServerSpec => []OrphanedByTakeover
<1>1. ServerInv => OrphanedByTakeover
  BY DEF ServerInv, KeysInv
<1> QED
  BY <1>1, ServerInvariant, PTL

\* A connection that keeps its key gets all its replies.
THEOREM KeptIsAnswered == ServerSpec => []KeptConnectionIsAnswered
<1>1. ServerInv => KeptConnectionIsAnswered
  BY DEF ServerInv
<1> QED
  BY <1>1, ServerInvariant, PTL

\* A key leaves the map when its own socket closes or moves to another key.
LEMMA StepUnmaps ==
  ASSUME ServerTypeOK, KeysInv, [ServerNext]_serverVars,
         NEW c \in DOMAIN clientSocket, c \notin DOMAIN clientSocket'
  PROVE  conn'[clientSocket[c]] = "closed" \/ clientSocket[c] \in Range(clientSocket')
<1>0. PICK x \in Sockets : x = clientSocket[c] /\ conn[x] = "open"
  BY ServerFacts DEF KeysInv, KeysLeadToLiveSockets
<1>1. ASSUME NEW s \in Sockets, OnNewConnection(s)
      PROVE  FALSE
  <2>1. \E key : clientSocket' = Assign(clientSocket, key, s)
    BY <1>1 DEF OnNewConnection
  <2> QED
    BY <2>1 DEF Assign
<1>2. ASSUME NEW s \in Sockets, OnClientClosure(s)
      PROVE  conn'[x] = "closed"
  <2>1. HasKey(s) /\ clientSocket' = Erase(KeyOf(s)) /\ conn' = [conn EXCEPT ![s] = "closed"]
    BY <1>2 DEF OnClientClosure
  <2>2. c = KeyOf(s)
    BY <2>1, EraseProperties
  <2>3. x = s
    BY <1>0, <2>1, <2>2, KeyOfIsKey
  <2> QED
    BY <2>1, <2>3 DEF ServerTypeOK
<1>3. ASSUME NEW s \in Sockets, NEW key, ProcessClientKey(s, key)
      PROVE  x \in Range(clientSocket')
  <2>1. key \in known
    BY <1>3 DEF ProcessClientKey
  <2>2. PICK old \in DOMAIN clientSocket :
          /\ \A k \in DOMAIN clientSocket : clientSocket[k] = s <=> k = old
          /\ DOMAIN clientSocket' = (DOMAIN clientSocket \ {old}) \cup {key}
          /\ clientSocket'[key] = s
          /\ \A k \in DOMAIN clientSocket \ {old, key} : clientSocket'[k] = clientSocket[k]
    BY <1>3, <2>1, OldClientMap
  <2>3. x = s /\ key \in DOMAIN clientSocket'
    BY <1>0, <2>2
  <2> QED
    BY <2>2, <2>3 DEF Range
<1>4. ASSUME Restart
      PROVE  conn'[x] = "closed"
  BY <1>0, <1>4 DEF Restart
<1>5. CASE UNCHANGED clientSocket
  BY <1>5
<1>6. ASSUME NEW s \in Sockets, NEW m \in Methods, ProcessRequest(s, m)
      PROVE  UNCHANGED clientSocket
  BY <1>6 DEF ProcessRequest
<1>7. ASSUME ServerOnResolve \/ UNCHANGED commVars \/ UNCHANGED serverVars
      PROVE  UNCHANGED clientSocket
  BY <1>7 DEF ServerOnResolve, commVars, serverVars
<1> QED
  BY <1>0, <1>1, <1>2, <1>3, <1>4, <1>5, <1>6, <1>7 DEF ServerNext

\* The closure of a connection unmaps no key that another one took over.
THEOREM OwnersUnmap == ServerSpec => OnlyOwnerUnmaps
<1>1. ServerInv /\ [ServerNext]_serverVars =>
        \A c \in DOMAIN clientSocket :
          c \notin DOMAIN clientSocket' =>
            LET s == clientSocket[c]
            IN  conn'[s] = "closed" \/ s \in Range(clientSocket')
  BY StepUnmaps DEF ServerInv
<1> QED
  BY <1>1, ServerInvariant, PTL DEF ServerSpec, OnlyOwnerUnmaps
=============================================================================
