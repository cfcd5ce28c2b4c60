--------------------------- MODULE LiveHubProofs ---------------------------
(***************************************************************************)
(* What LiveHub keeps for every set of clients and connections and every   *)
(* term of the lease.                                                      *)
(***************************************************************************)
EXTENDS LiveHub, TLAPS

USE LeaseAssumption, HubAssumption

-----------------------------------------------------------------------------
(* The lease.                                                               *)

LEMMA OperatorIs == Operator = IF Expired THEN NoClient ELSE operator
BY DEF Operator

\* What each method does to the lease keeps its type.
LEMMA LeaseType ==
  ASSUME LeaseTypeOK, NEW c \in Client,
         \/ UNCHANGED leaseVars \/ ReadOperator \/ Acquire(c) \/ Release(c) \/ Renew(c)
         \/ TimePasses
  PROVE  LeaseTypeOK'
BY DEF LeaseTypeOK, leaseVars, ReadOperator, Operator, Expired, Acquire, Granted, Release,
       Renew, TimePasses

\* Nobody else's call shortens a running lease.
LEMMA LeaseKept ==
  ASSUME LeaseTypeOK, NEW c \in Client, NEW d \in Client, operator = d, remaining > 0,
         \/ UNCHANGED leaseVars \/ ReadOperator \/ Acquire(c) \/ Renew(c)
         \/ c # d /\ Release(c)
  PROVE  operator' = d /\ remaining' \in Nat /\ remaining' >= remaining
BY DEF LeaseTypeOK, leaseVars, ReadOperator, Operator, Expired, Acquire, MayAcquire, Granted,
       Release, Renew

\* A client that acquires the lease has it for a full term, and nobody else
\* was in it.
LEMMA LeaseAcquired ==
  ASSUME LeaseTypeOK, NEW c \in Client, Acquire(c), MayAcquire(c)
  PROVE  /\ operator' = c /\ remaining' = Ttl
         /\ operator # c => operator = NoClient \/ remaining = 0
BY DEF LeaseTypeOK, Acquire, MayAcquire, Granted, Operator, Expired

-----------------------------------------------------------------------------
(* Types.                                                                   *)

LEMMA ToldType ==
  ASSUME TypeOK, NEW op \in Client \cup {NoClient}, Presence(op)
  PROVE  told' \in [Handler -> Told]
BY DEF Presence, Told, Nothing, Roster

LEMMA InitType == Init => TypeOK
BY DEF Init, TypeOK, LeaseInit, LeaseTypeOK, Stage, Told, Nothing

LEMMA ConnectionType ==
  ASSUME TypeOK, NEW h \in Handler,
         StatusSent(h) \/ StatusFails(h) \/ PeerGone(h) \/ SendFails(h) \/ Hangup(h)
  PROVE  TypeOK'
<1>1. LeaseTypeOK'
    BY DEF TypeOK, LeaseTypeOK, leaseVars, StatusSent, StatusFails, PeerGone, SendFails, Hangup
<1> QED
    BY <1>1 DEF TypeOK, Stage, StatusSent, StatusFails, PeerGone, SendFails, Hangup

LEMMA ConnectType ==
  ASSUME TypeOK, NEW h \in Handler, NEW c \in Client, Connect(h, c)
  PROVE  TypeOK'
<1>1. LeaseTypeOK'
    BY LeaseType DEF Connect, TypeOK
<1>2. told' \in [Handler -> Told]
  <2>1. Operator \in Client \cup {NoClient}
      BY OperatorIs DEF TypeOK, LeaseTypeOK
  <2> QED
      BY <2>1, ToldType DEF Connect
<1> QED
    BY <1>1, <1>2 DEF TypeOK, Stage, Connect

LEMMA RenameType ==
  ASSUME TypeOK, NEW h \in Handler, Rename(h)
  PROVE  TypeOK'
<1>1. /\ Operator \in Client \cup {NoClient}
      /\ \A c \in Client : LeaseTypeOK'
    BY OperatorIs, LeaseType DEF TypeOK, LeaseTypeOK, Rename
<1>2. LeaseTypeOK'
    BY OperatorIs DEF TypeOK, LeaseTypeOK, Rename, ReadOperator, Expired
<1>3. told' \in [Handler -> Told]
    BY <1>1, ToldType DEF Rename
<1> QED
    BY <1>2, <1>3 DEF TypeOK, Rename

\* A handler that ends is the handler of a client.
Owned == \A h \in Handler : stage[h] # "free" => owner[h] \in Client

LEMMA FinishType ==
  ASSUME TypeOK, Owned, NEW h \in Handler, Finish(h)
  PROVE  TypeOK'
<1>1. owner[h] \in Client
    BY DEF Finish, Owned
<1>2. LeaseTypeOK'
    BY <1>1, LeaseType DEF TypeOK, Finish
<1>3. told' \in [Handler -> Told]
    BY <1>2, ToldType DEF Finish, LeaseTypeOK
<1>4. closed' \in [Handler -> BOOLEAN]
    BY DEF Finish
<1>5. peer' \in [Handler -> BOOLEAN] /\ putting' \subseteq Client
    BY DEF TypeOK, Finish
<1>6. promised' \in [Client -> 0 .. Ttl]
    BY <1>1 DEF TypeOK, Finish
<1>7. clients' \in [Client -> Handler \cup {NoHandler}]
    BY DEF TypeOK, Finish
<1>8. /\ stage' \in [Handler -> Stage]
      /\ owner' \in [Handler -> Client \cup {NoClient}]
    BY DEF TypeOK, Stage, Finish
<1> QED
    BY <1>2, <1>3, <1>4, <1>5, <1>6, <1>7, <1>8 DEF TypeOK

LEMMA EndpointType ==
  ASSUME TypeOK, NEW c \in Client,
         AcquireControl(c) \/ ReleaseControl(c) \/ PutConfig(c) \/ PutDone(c)
  PROVE  TypeOK'
<1>1. LeaseTypeOK'
    BY LeaseType DEF TypeOK, AcquireControl, ReleaseControl, PutConfig, PutDone
<1>2. told' \in [Handler -> Told]
    BY ToldType DEF TypeOK, AcquireControl, ReleaseControl, PutConfig, PutDone, hubVars
<1> QED
    BY <1>1, <1>2 DEF TypeOK, AcquireControl, ReleaseControl, PutConfig, PutDone, hubVars

LEMMA TickType ==
  ASSUME TypeOK, Tick
  PROVE  TypeOK'
<1>1. LeaseTypeOK'
    BY DEF TypeOK, LeaseTypeOK, Tick, TimePasses
<1> QED
    BY <1>1 DEF TypeOK, Tick, hubVars

-----------------------------------------------------------------------------
(* The registry.                                                            *)

Registry == Owned /\ RegisteredIsServed /\ \A h \in Handler : ~closed[h] => Registered(h)

LEMMA InitRegistry == Init => Registry
BY DEF Init, Registry, Owned, RegisteredIsServed

LEMMA ConnectRegistry ==
  ASSUME TypeOK, Registry, NEW h \in Handler, NEW c \in Client, Connect(h, c)
  PROVE  Registry'
<1>1. Owned'
    BY DEF TypeOK, Registry, Owned, Connect
<1>2. RegisteredIsServed'
    BY DEF TypeOK, Registry, RegisteredIsServed, Registered, Connect
<1>3. ASSUME NEW g \in Handler, ~closed'[g]
      PROVE  Registered(g)'
  <2>1. CASE g = h
      BY <2>1 DEF TypeOK, Connect, Registered
  <2>2. CASE g # h
    <3>1. ~closed[g] /\ g # clients[c]
        BY <1>3, <2>2 DEF TypeOK, Connect
    <3>2. PICK d \in Client : clients[d] = g
        BY <3>1 DEF Registry, Registered
    <3> QED
        BY <3>1, <3>2 DEF TypeOK, Connect, Registered
  <2> QED
      BY <2>1, <2>2
<1> QED
    BY <1>1, <1>2, <1>3 DEF Registry

LEMMA FinishRegistry ==
  ASSUME TypeOK, Registry, NEW h \in Handler, Finish(h)
  PROVE  Registry'
<1>1. Owned'
    BY DEF TypeOK, Registry, Owned, Finish
<1>2. RegisteredIsServed'
    BY DEF TypeOK, Registry, RegisteredIsServed, Finish
<1>3. ASSUME NEW g \in Handler, ~closed'[g]
      PROVE  Registered(g)'
  <2>1. ~closed[g] /\ g # clients[owner[h]]
      BY <1>3 DEF TypeOK, Finish
  <2>2. PICK d \in Client : clients[d] = g
      BY <2>1 DEF Registry, Registered
  <2> QED
      BY <2>1, <2>2 DEF TypeOK, Finish, Registered
<1> QED
    BY <1>1, <1>2, <1>3 DEF Registry

LEMMA OtherRegistry ==
  ASSUME TypeOK, Registry,
         \/ \E h \in Handler : StatusSent(h) \/ StatusFails(h) \/ Rename(h) \/ PeerGone(h)
                               \/ SendFails(h) \/ Hangup(h)
         \/ \E c \in Client : AcquireControl(c) \/ ReleaseControl(c) \/ PutConfig(c) \/ PutDone(c)
         \/ Tick
         \/ UNCHANGED vars
  PROVE  Registry'
<1>1. /\ UNCHANGED <<clients, owner>>
      /\ \A h \in Handler : stage[h] = "free" <=> stage'[h] = "free"
      /\ \A h \in Handler : closed[h] => closed'[h]
    BY DEF TypeOK, StatusSent, StatusFails, Rename, PeerGone, SendFails, Hangup, AcquireControl,
           ReleaseControl, PutConfig, PutDone, Tick, hubVars, vars
<1> QED
    BY <1>1 DEF TypeOK, Registry, Owned, RegisteredIsServed, Registered

LEMMA NextType ==
  ASSUME TypeOK, Registry, [Next]_vars
  PROVE  TypeOK' /\ Registry'
<1>1. TypeOK'
  <2>1. CASE UNCHANGED vars
      BY <2>1 DEF vars, TypeOK, LeaseTypeOK
  <2> QED
      BY <2>1, ConnectType, ConnectionType, RenameType, FinishType, EndpointType, TickType
      DEF Next, Registry
<1>2. Registry'
    BY ConnectRegistry, FinishRegistry, OtherRegistry DEF Next
<1> QED
    BY <1>1, <1>2

\* The hub's variables keep their types: the lease lasts at most its term, the
\* registry maps clients to connections, and what was sent is a message.
THEOREM TypeCorrect == Spec => []TypeOK
<1>1. Init => TypeOK /\ Registry
    BY InitType, InitRegistry
<1>2. TypeOK /\ Registry /\ [Next]_vars => (TypeOK /\ Registry)'
    BY NextType
<1> QED
    BY <1>1, <1>2, PTL DEF Spec

\* A registered connection is served by a handler that has not ended
\* (register and unregister of websocket/manager.py).
THEOREM RegistryServed == Spec => []RegisteredIsServed
<1>1. Init => TypeOK /\ Registry
    BY InitType, InitRegistry
<1>2. TypeOK /\ Registry /\ [Next]_vars => (TypeOK /\ Registry)'
    BY NextType
<1>3. Registry => RegisteredIsServed
    BY DEF Registry
<1> QED
    BY <1>1, <1>2, <1>3, PTL DEF Spec

-----------------------------------------------------------------------------
(* The promise of a grant.                                                  *)

LEMMA KeptGrant ==
  ASSUME TypeOK, GrantHonoured, UNCHANGED promised,
         UNCHANGED leaseVars \/ ReadOperator \/ \E c \in Client : Renew(c)
  PROVE  GrantHonoured'
<1>1. ASSUME NEW d \in Client, promised'[d] > 0
      PROVE  operator' = d /\ promised'[d] <= remaining'
  <2>1. operator = d /\ promised[d] \in Nat /\ promised[d] <= remaining /\ remaining \in Nat
      BY <1>1 DEF GrantHonoured, TypeOK, LeaseTypeOK
  <2>2. operator' = d /\ remaining' \in Nat /\ remaining' >= remaining
      BY <1>1, <2>1, LeaseKept DEF TypeOK
  <2> QED
      BY <2>1, <2>2
<1> QED
    BY <1>1 DEF GrantHonoured

LEMMA FinishGrant ==
  ASSUME TypeOK, Registry, GrantHonoured, NEW h \in Handler, Finish(h)
  PROVE  GrantHonoured'
<1>1. owner[h] \in Client /\ promised' = [promised EXCEPT ![owner[h]] = 0]
    BY DEF Finish, Registry, Owned
<1>2. ASSUME NEW d \in Client, promised'[d] > 0
      PROVE  operator' = d /\ promised'[d] <= remaining'
  <2>1. d # owner[h] /\ promised'[d] = promised[d] /\ promised[d] \in Nat
      BY <1>1, <1>2 DEF TypeOK
  <2>2. operator = d /\ promised[d] <= remaining /\ remaining \in Nat
      BY <1>2, <2>1 DEF GrantHonoured, TypeOK, LeaseTypeOK
  <2>3. operator' = d /\ remaining' \in Nat /\ remaining' >= remaining
      BY <1>1, <1>2, <2>1, <2>2, LeaseKept DEF Finish, TypeOK
  <2> QED
      BY <2>1, <2>2, <2>3
<1> QED
    BY <1>2 DEF GrantHonoured

LEMMA EndpointGrant ==
  ASSUME TypeOK, GrantHonoured, NEW c \in Client,
         AcquireControl(c) \/ ReleaseControl(c) \/ PutConfig(c) \/ PutDone(c)
  PROVE  GrantHonoured'
<1>1. CASE AcquireControl(c) /\ MayAcquire(c)
  <2>1. /\ operator' = c /\ remaining' = Ttl
        /\ operator # c => operator = NoClient \/ remaining = 0
        /\ promised' = [promised EXCEPT ![c] = Ttl]
      BY <1>1, LeaseAcquired DEF AcquireControl, TypeOK
  <2>2. ASSUME NEW d \in Client, d # c
        PROVE  promised'[d] = 0
    <3>1. promised'[d] = promised[d] /\ promised[d] \in Nat
        BY <2>1, <2>2 DEF TypeOK
    <3> QED
        BY <2>1, <2>2, <3>1 DEF GrantHonoured, TypeOK, LeaseTypeOK
  <2> QED
      BY <2>1, <2>2 DEF GrantHonoured, TypeOK
<1>2. CASE ReleaseControl(c)
  <2>1. operator = c /\ promised' = [promised EXCEPT ![c] = 0]
      BY <1>2 DEF ReleaseControl, Release
  <2> QED
      BY <2>1 DEF GrantHonoured, TypeOK
<1>3. CASE (AcquireControl(c) /\ ~MayAcquire(c)) \/ PutConfig(c) \/ PutDone(c)
  <2>1. UNCHANGED promised /\ (UNCHANGED leaseVars \/ ReadOperator \/ Renew(c))
      BY <1>3 DEF AcquireControl, Acquire, PutConfig, PutDone
  <2> QED
      BY <2>1, KeptGrant
<1> QED
    BY <1>1, <1>2, <1>3

LEMMA TickGrant ==
  ASSUME TypeOK, GrantHonoured, Tick
  PROVE  GrantHonoured'
<1>1. ASSUME NEW d \in Client, promised'[d] > 0
      PROVE  operator' = d /\ promised'[d] <= remaining'
  <2>1. promised[d] \in Nat \ {0} /\ promised'[d] = promised[d] - 1
      BY <1>1 DEF TypeOK, Tick
  <2> QED
      BY <2>1 DEF GrantHonoured, TypeOK, LeaseTypeOK, Tick, TimePasses
<1> QED
    BY <1>1 DEF GrantHonoured

LEMMA ConnectionGrant ==
  ASSUME TypeOK, GrantHonoured, NEW h \in Handler,
         \/ \E c \in Client : Connect(h, c)
         \/ StatusSent(h) \/ StatusFails(h) \/ Rename(h) \/ PeerGone(h) \/ SendFails(h)
         \/ Hangup(h)
  PROVE  GrantHonoured'
<1>1. UNCHANGED promised /\ (UNCHANGED leaseVars \/ ReadOperator)
    BY DEF Connect, StatusSent, StatusFails, Rename, PeerGone, SendFails, Hangup
<1> QED
    BY <1>1, KeptGrant

LEMMA NextGrant ==
  ASSUME TypeOK, Registry, GrantHonoured, [Next]_vars
  PROVE  GrantHonoured'
<1>1. CASE UNCHANGED vars
    BY <1>1 DEF vars, GrantHonoured
<1> QED
    BY <1>1, ConnectionGrant, FinishGrant, EndpointGrant, TickGrant DEF Next

\* A client that was granted the lease operates for as long as it was told,
\* unless it gave the lease up or a connection of its own ended: no call of
\* another client and no late renewal takes it away (ControlLease).
THEOREM GrantsHonoured == Spec => []GrantHonoured
<1>1. Init => TypeOK /\ Registry /\ GrantHonoured
    BY InitType, InitRegistry DEF Init, GrantHonoured
<1>2. TypeOK /\ Registry /\ GrantHonoured /\ [Next]_vars => (TypeOK /\ Registry /\ GrantHonoured)'
    BY NextType, NextGrant
<1> QED
    BY <1>1, <1>2, PTL DEF Spec

-----------------------------------------------------------------------------
(* What connected clients know.                                             *)

Known == OperatorKnown /\ PresenceKnown

\* A broadcast of the operator makes it known, and a step without one keeps
\* it known if the operator stays or the lease ends.
LEMMA Broadcast ==
  ASSUME TypeOK, NEW op, Presence(op), Operator' \in {op, NoClient}, Registry'
  PROVE  Known'
BY DEF Presence, Hears, Known, OperatorKnown, PresenceKnown, Registry

LEMMA NoBroadcast ==
  ASSUME TypeOK, Known, UNCHANGED <<clients, told>>, \A h \in Handler : closed[h] => closed'[h],
         Operator' \in {Operator, NoClient}, Registry'
  PROVE  Known'
BY DEF Known, OperatorKnown, PresenceKnown, Registry, Registered, Roster

\* Reading, renewing and waiting do not hand the lease to anybody.
LEMMA OperatorStays ==
  ASSUME LeaseTypeOK, NEW c \in Client,
         \/ UNCHANGED leaseVars \/ ReadOperator \/ Renew(c) \/ TimePasses \/ Release(c)
         \/ Acquire(c) /\ ~MayAcquire(c)
  PROVE  Operator' \in {Operator, NoClient}
BY DEF LeaseTypeOK, leaseVars, ReadOperator, Renew, TimePasses, Release, Acquire, Granted, Operator,
       Expired

LEMMA OperatorRead ==
  ASSUME LeaseTypeOK, ReadOperator
  PROVE  Operator' = Operator /\ operator' = Operator
BY DEF LeaseTypeOK, ReadOperator, Operator, Expired

LEMMA ConnectionKnown ==
  ASSUME TypeOK, Known, Registry', NEW h \in Handler,
         \/ \E c \in Client : Connect(h, c)
         \/ StatusSent(h) \/ StatusFails(h) \/ Rename(h) \/ PeerGone(h) \/ SendFails(h)
         \/ Hangup(h)
  PROVE  Known'
<1>1. CASE Rename(h) \/ \E c \in Client : Connect(h, c)
    BY <1>1, OperatorRead, Broadcast DEF Rename, Connect, TypeOK
<1>2. CASE StatusSent(h) \/ StatusFails(h) \/ PeerGone(h) \/ SendFails(h) \/ Hangup(h)
  <2>1. UNCHANGED leaseVars /\ UNCHANGED <<clients, told>>
      BY <1>2 DEF StatusSent, StatusFails, PeerGone, SendFails, Hangup
  <2>2. Operator' = Operator
      BY <2>1 DEF leaseVars, Operator, Expired
  <2>3. \A g \in Handler : closed[g] => closed'[g]
      BY <1>2 DEF TypeOK, StatusSent, StatusFails, PeerGone, SendFails, Hangup
  <2> QED
      BY <2>1, <2>2, <2>3, NoBroadcast
<1> QED
    BY <1>1, <1>2

LEMMA FinishKnown ==
  ASSUME TypeOK, Registry, Registry', NEW h \in Handler, Finish(h)
  PROVE  Known'
<1>1. owner[h] \in Client /\ Presence(operator')
    BY DEF Finish, Registry, Owned
<1>2. Operator' \in {operator', NoClient}
    BY DEF Operator
<1> QED
    BY <1>1, <1>2, Broadcast

LEMMA EndpointKnown ==
  ASSUME TypeOK, Known, Registry', NEW c \in Client,
         AcquireControl(c) \/ ReleaseControl(c) \/ PutConfig(c) \/ PutDone(c)
  PROVE  Known'
<1>1. CASE AcquireControl(c) /\ MayAcquire(c)
  <2>1. Presence(c) /\ operator' = c
      BY <1>1, LeaseAcquired DEF AcquireControl, TypeOK
  <2>2. Operator' \in {c, NoClient}
      BY <2>1 DEF Operator
  <2> QED
      BY <2>1, <2>2, Broadcast
<1>2. CASE ReleaseControl(c)
  <2>1. Presence(NoClient) /\ operator' = NoClient
      BY <1>2 DEF ReleaseControl, Release
  <2>2. Operator' = NoClient
      BY <2>1 DEF Operator
  <2> QED
      BY <2>1, <2>2, Broadcast
<1>3. CASE (AcquireControl(c) /\ ~MayAcquire(c)) \/ PutConfig(c) \/ PutDone(c)
  <2>1. CASE AcquireControl(c) /\ ~MayAcquire(c)
    <3>1. UNCHANGED <<clients, told, closed>> /\ Acquire(c)
        BY <2>1 DEF AcquireControl
    <3> QED
        BY <2>1, <3>1, OperatorStays, NoBroadcast DEF TypeOK
  <2>2. CASE PutConfig(c) \/ PutDone(c)
    <3>1. UNCHANGED <<clients, told, closed>> /\ (ReadOperator \/ Renew(c))
        BY <2>2 DEF PutConfig, PutDone, hubVars
    <3> QED
        BY <3>1, OperatorStays, NoBroadcast DEF TypeOK
  <2> QED
      BY <1>3, <2>1, <2>2
<1> QED
    BY <1>1, <1>2, <1>3

LEMMA TickKnown ==
  ASSUME TypeOK, Known, Registry', Tick
  PROVE  Known'
<1>1. UNCHANGED <<clients, told, closed>> /\ TimePasses
    BY DEF Tick, hubVars
<1>2. Operator' \in {Operator, NoClient}
    BY <1>1 DEF TimePasses, Operator, Expired
<1> QED
    BY <1>1, <1>2, NoBroadcast

LEMMA NextKnown ==
  ASSUME TypeOK, Registry, Known, [Next]_vars
  PROVE  Known'
<1>1. Registry'
    BY NextType
<1>2. CASE UNCHANGED vars
    BY <1>2 DEF vars, Known, OperatorKnown, PresenceKnown, Registered, Roster, Operator, Expired
<1> QED
    BY <1>1, <1>2, ConnectionKnown, FinishKnown, EndpointKnown, TickKnown DEF Next

\* Every connected client knows who operates and who else is connected,
\* however many clients come, go, reconnect and take turns (the broadcasts of
\* websocket/route.py and api/control.py).
THEOREM ClientsKnow == Spec => []ClientsInformed
<1>1. Init => TypeOK /\ Registry /\ Known
    BY InitType, InitRegistry
    DEF Init, LeaseInit, Known, OperatorKnown, PresenceKnown, Registered
<1>2. TypeOK /\ Registry /\ Known /\ [Next]_vars => (TypeOK /\ Registry /\ Known)'
    BY NextType, NextKnown
<1> QED
    BY <1>1, <1>2, PTL DEF Spec, Known, ClientsInformed
=============================================================================
