------------------------------ MODULE LiveHub ------------------------------
(***************************************************************************)
(* The WebSocket hub (backend/app/websocket/manager.py), the handler of    *)
(* one connection (websocket/route.py) and the endpoints that move the     *)
(* control lease (api/control.py, api/config.py).  Everything here runs on *)
(* the event loop: an action is the code from one await to the next.       *)
(*                                                                         *)
(* A handler is one connection.  What a client knows of the operator and   *)
(* of the connected clients is the last such message put in its buffer;    *)
(* the buffer itself is not modelled.  A client that does not identify is  *)
(* one with an id of its own.                                              *)
(*                                                                         *)
(* An operator named Bug... is a wrong variant of the operator after it,   *)
(* which no specification uses.                                            *)
(***************************************************************************)
EXTENDS ControlLease

CONSTANTS Handler,    \* connections, each used again when it has ended
          NoHandler

ASSUME HubAssumption == NoHandler \notin Handler

VARIABLES
    clients,   \* _clients: the connection registered for each client id
    stage,     \* where each handler is
    owner,     \* client_id of each connection
    closed,    \* _closed: its buffer takes no more messages
    peer,      \* the client's end of the socket is still there
    told,      \* the operator and the presence list sent to it last
    putting,   \* clients whose PUT /api/config passed the lease check
    promised   \* history: time each client still has of its last grant

hubVars == <<clients, stage, owner, closed, peer, told>>
vars == <<operator, remaining, clients, stage, owner, closed, peer, told, putting, promised>>

\* "status" awaits metrics_dict(), "receive" receive_json(), "closing" the
\* cancelled send task; "failed" ended by an exception before its try block.
Stage == {"free", "status", "receive", "closing", "failed"}

Told == [operator : Client \cup {NoClient}, roster : SUBSET Client]
Nothing == [operator |-> NoClient, roster |-> {}]

TypeOK ==
    /\ LeaseTypeOK
    /\ clients \in [Client -> Handler \cup {NoHandler}]
    /\ stage \in [Handler -> Stage]
    /\ owner \in [Handler -> Client \cup {NoClient}]
    /\ closed \in [Handler -> BOOLEAN]
    /\ peer \in [Handler -> BOOLEAN]
    /\ told \in [Handler -> Told]
    /\ putting \subseteq Client
    /\ promised \in [Client -> 0 .. Ttl]

Init ==
    /\ LeaseInit
    /\ clients = [c \in Client |-> NoHandler]
    /\ stage = [h \in Handler |-> "free"]
    /\ owner = [h \in Handler |-> NoClient]
    /\ closed = [h \in Handler |-> TRUE]
    /\ peer = [h \in Handler |-> FALSE]
    /\ told = [h \in Handler |-> Nothing]
    /\ putting = {}
    /\ promised = [c \in Client |-> 0]

Roster == {c \in Client : clients[c] # NoHandler}
Registered(h) == \E c \in Client : clients[c] = h

\* broadcast_presence() and broadcast_control() reach the connections that
\* are registered, and open, after the step.  What others were told before
\* is forgotten.
Hears(h) == Registered(h)' /\ ~closed'[h]
Presence(op) ==
    told' = [h \in Handler |->
               IF Hears(h) THEN [operator |-> op, roster |-> Roster'] ELSE Nothing]

-----------------------------------------------------------------------------
(* A connection.                                                            *)

\* register(), the hello message and the presence broadcast.
BugConnect(h, c) ==
    /\ stage[h] \in {"free", "failed"} /\ ~Registered(h)
    /\ clients' = [clients EXCEPT ![c] = h]
    /\ closed' = [closed EXCEPT ![h] = FALSE]
    /\ stage' = [stage EXCEPT ![h] = "status"]
    /\ owner' = [owner EXCEPT ![h] = c]
    /\ peer' = [peer EXCEPT ![h] = TRUE]
    /\ ReadOperator
    /\ Presence(Operator)
    /\ UNCHANGED <<putting, promised>>

Connect(h, c) ==
    /\ stage[h] \in {"free", "failed"} /\ ~Registered(h)
    /\ clients' = [clients EXCEPT ![c] = h]
    /\ closed' = [g \in Handler |-> IF g = h THEN FALSE ELSE closed[g] \/ g = clients[c]]
    /\ stage' = [stage EXCEPT ![h] = "status"]
    /\ owner' = [owner EXCEPT ![h] = c]
    /\ peer' = [peer EXCEPT ![h] = TRUE]
    /\ ReadOperator
    /\ Presence(Operator)
    /\ UNCHANGED <<putting, promised>>

\* The status snapshot is there, or its query failed: the exception leaves
\* the handler, and the connection stays registered.
StatusSent(h) ==
    /\ stage[h] = "status"
    /\ stage' = [stage EXCEPT ![h] = "receive"]
    /\ UNCHANGED <<leaseVars, clients, owner, closed, peer, told, putting, promised>>

StatusFails(h) ==
    /\ stage[h] = "status"
    /\ stage' = [stage EXCEPT ![h] = "failed"]
    /\ peer' = [peer EXCEPT ![h] = FALSE]
    /\ UNCHANGED <<leaseVars, clients, owner, closed, told, putting, promised>>

\* identify with a new display name.
Rename(h) ==
    /\ stage[h] = "receive" /\ peer[h]
    /\ ReadOperator
    /\ clients' = clients /\ closed' = closed
    /\ Presence(Operator)
    /\ UNCHANGED <<stage, owner, peer, putting, promised>>

\* The client leaves, reloads or loses the network.
PeerGone(h) ==
    /\ peer[h]
    /\ peer' = [peer EXCEPT ![h] = FALSE]
    /\ UNCHANGED <<leaseVars, clients, stage, owner, closed, told, putting, promised>>

\* run_send_loop() fails on a dead socket before receive_json() does.
SendFails(h) ==
    /\ stage[h] \in {"status", "receive", "failed"} /\ ~peer[h] /\ ~closed[h]
    /\ closed' = [closed EXCEPT ![h] = TRUE]
    /\ UNCHANGED <<leaseVars, clients, stage, owner, peer, told, putting, promised>>

\* receive_json() raises; the handler closes its connection and awaits the
\* cancelled send task.
Hangup(h) ==
    /\ stage[h] = "receive" /\ ~peer[h]
    /\ stage' = [stage EXCEPT ![h] = "closing"]
    /\ closed' = [closed EXCEPT ![h] = TRUE]
    /\ UNCHANGED <<leaseVars, clients, owner, peer, told, putting, promised>>

\* unregister(), and the release of the lease if this client operates.
Finish(h) ==
    /\ stage[h] = "closing"
    /\ stage' = [stage EXCEPT ![h] = "free"]
    /\ LET c == owner[h]
       IN  /\ clients' = [clients EXCEPT ![c] = NoHandler]
           /\ closed' = [g \in Handler |-> closed[g] \/ g = clients[c]]
           /\ IF Operator = c THEN Release(c) ELSE ReadOperator
           /\ promised' = [promised EXCEPT ![c] = 0]
    /\ Presence(operator')
    /\ owner' = [owner EXCEPT ![h] = NoClient]
    /\ UNCHANGED <<peer, putting>>

-----------------------------------------------------------------------------
(* The endpoints.                                                           *)

\* POST /api/control/acquire.
AcquireControl(c) ==
    /\ Acquire(c)
    /\ clients' = clients /\ closed' = closed
    /\ IF MayAcquire(c)
       THEN Presence(c) /\ promised' = [promised EXCEPT ![c] = Ttl]
       ELSE UNCHANGED <<told, promised>>
    /\ UNCHANGED <<stage, owner, peer, putting>>

\* POST /api/control/release, when it releases.
ReleaseControl(c) ==
    /\ Release(c)
    /\ clients' = clients /\ closed' = closed
    /\ Presence(NoClient)
    /\ promised' = [promised EXCEPT ![c] = 0]
    /\ UNCHANGED <<stage, owner, peer, putting>>

\* PUT /api/config: the check, which other requests make too, and the
\* renewal after the update's awaits.
PutConfig(c) ==
    /\ ReadOperator
    /\ putting' = IF Operator = c THEN putting \cup {c} ELSE putting
    /\ UNCHANGED <<hubVars, promised>>

PutDone(c) ==
    /\ c \in putting
    /\ Renew(c)
    /\ putting' = putting \ {c}
    /\ UNCHANGED <<hubVars, promised>>

Tick ==
    /\ TimePasses
    /\ promised' = [c \in Client |-> IF promised[c] = 0 THEN 0 ELSE promised[c] - 1]
    /\ UNCHANGED <<hubVars, putting>>

Next ==
    \/ \E h \in Handler, c \in Client : Connect(h, c)
    \/ \E h \in Handler : StatusSent(h) \/ StatusFails(h) \/ Rename(h) \/ PeerGone(h)
                          \/ SendFails(h) \/ Hangup(h) \/ Finish(h)
    \/ \E c \in Client : AcquireControl(c) \/ ReleaseControl(c) \/ PutConfig(c) \/ PutDone(c)
    \/ Tick

Spec == Init /\ [][Next]_vars

-----------------------------------------------------------------------------
(* Properties.                                                              *)

\* A client that acquired the lease operates for the whole time it was
\* granted, unless it releases it or a connection of its own ends: neither
\* another client, nor a late renewal of a lease that lapsed, nor the end of
\* somebody else's connection takes it away (ControlLease).
GrantHonoured == \A c \in Client : promised[c] > 0 => operator = c /\ promised[c] <= remaining

\* While somebody operates, every client that is connected was last told so,
\* whatever connected, lapsed, moved or was released since (route.py and
\* control.py broadcast by hand wherever they touch the lease).
OperatorKnown ==
    \A h \in Handler : Registered(h) /\ ~closed[h] /\ Operator # NoClient =>
        told[h].operator = Operator

\* Every connected client was last told exactly who is connected, and a
\* connection that is not registered, or was replaced, takes no more messages.
PresenceKnown ==
    \A h \in Handler :
        /\ Registered(h) /\ ~closed[h] => told[h].roster = Roster
        /\ ~closed[h] => Registered(h)

\* What a connected client was last told is so, of the operator and of the
\* others.
ClientsInformed == OperatorKnown /\ PresenceKnown

\* A connection that is registered is served by a handler that will remove
\* it, or its status snapshot failed: nobody stays in the presence list for a
\* connection that ended, also when it was replaced or removed by another.
RegisteredIsServed ==
    \A c \in Client : clients[c] # NoHandler =>
        owner[clients[c]] = c /\ stage[clients[c]] # "free"

\* register() replaces the prior connection of a client by its new one, and
\* a connection stays registered until it is replaced or its own handler
\* ends, not the handler of the connection it replaced.
StaysRegistered ==
    [][\A c \in Client : clients[c] # NoHandler /\ clients'[c] = NoHandler =>
         stage[clients[c]] = "closing"]_vars
=============================================================================
