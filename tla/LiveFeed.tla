----------------------------- MODULE LiveFeed -----------------------------
(***************************************************************************)
(* The live data of the browser: the connection that opens, drops and      *)
(* reconnects (frontend/src/lib/ws.ts), the buffer that feeds it           *)
(* (SendBuffer), the store (frontend/src/store/store.ts), the REST answers *)
(* that prime it (frontend/src/App.tsx), and the commands that the pages   *)
(* Dashboard, Investigate and Scope send and write into the store          *)
(* themselves.                                                             *)
(*                                                                         *)
(* The server goes through states, each with a number: whether it scans,   *)
(* whether it is focused, and the number of the configuration in force.    *)
(*                                                                         *)
(* An operator named Bug... is a wrong variant of the operator after it,   *)
(* which no specification uses.                                            *)
(***************************************************************************)
EXTENDS SendBuffer

CONSTANTS Command,     \* numbers, bound on the commands of this browser in flight
          MaxBackoff,  \* doublings of the delay until MAX_BACKOFF_MS
          MaxChanges   \* bound on the changes of the server

ASSUME FeedAssumption ==
    /\ {"status", "config"} \subseteq ReliableType
    /\ Command \subseteq Nat
    /\ {MaxBackoff, MaxChanges} \subseteq Nat

VARIABLES
    log,         \* the states of the server, the last one now
    socket,      \* this.ws: "none", "opening", "open", or "lost" but not yet told
    registered,  \* with the server: "no" until the server has identified it, "yes"
                 \* while it is fed, "removed" when it hears nothing any more
    behind,      \* on the server a handler of an earlier socket is still to act
    timer,       \* reconnectTimer
    ping,        \* pingTimer
    backoff,     \* doublings of the delay
    stopped,
    connection,  \* of the store
    shown,       \* scanning, mode and config of the store
    priming,     \* the REST answers, "none" before and after
    commands     \* the commands in flight

clientVars == <<socket, registered, behind, timer, ping, backoff, stopped, connection>>
vars == <<buf, changes, log, clientVars, shown, priming, commands>>

At(n) == log[n + 1]
server == At(changes)

Server == [scanning : BOOLEAN, focus : BOOLEAN, config : 0 .. MaxChanges]
Op == {"start", "stop", "focus", "sweep"}
Idle == [at |-> "none"]
Issued(op, flipped) == [at |-> "sent", op |-> op, flipped |-> flipped]

FeedTypeOK ==
    /\ changes \in 0 .. MaxChanges /\ log \in Seq(Server) /\ Len(log) = changes + 1
    /\ socket \in {"none", "opening", "open", "lost"}
    /\ registered \in {"no", "yes", "removed"}
    /\ {behind, timer, ping, stopped} \subseteq BOOLEAN
    /\ backoff \in 0 .. MaxBackoff
    /\ connection \in {"connecting", "open", "closed", "reconnecting"}
    /\ shown \in Server
    /\ priming \in {Idle, [at |-> "asked"]} \cup [at : {"answered"}, config : 0 .. MaxChanges]
    /\ commands \in [Command -> {Idle} \cup [at : {"sent", "answered", "refused"}, op : Op,
                                            flipped : BOOLEAN]]

\* The page is loaded on a server that has been started: App mounts, starts
\* the connection and asks for the state.
Init ==
    /\ BufferInit /\ log = <<[scanning |-> FALSE, focus |-> FALSE, config |-> 0]>>
    /\ socket = "opening" /\ registered = "no" /\ behind = FALSE
    /\ timer = FALSE /\ ping = FALSE /\ backoff = 0 /\ stopped = FALSE
    /\ connection = "connecting"
    /\ shown = [scanning |-> FALSE, focus |-> FALSE, config |-> 0]
    /\ priming = [at |-> "asked"]
    /\ commands = [c \in Command |-> Idle]

-----------------------------------------------------------------------------
(* The server.                                                              *)

\* What a command does; focus() starts an idle scan.
After(op) ==
    CASE op = "start" -> [server EXCEPT !.scanning = TRUE]
      [] op = "stop" -> [server EXCEPT !.scanning = FALSE]
      [] op = "focus" -> [server EXCEPT !.scanning = TRUE, !.focus = TRUE]
      [] op = "sweep" -> [server EXCEPT !.focus = FALSE]

Fed == registered = "yes"

\* A change is broadcast, if this client is registered.
Becomes(state, type) ==
    /\ changes < MaxChanges
    /\ changes' = changes + 1
    /\ log' = Append(log, state)
    /\ buf' = IF Fed THEN Enqueue(buf, [type |-> type, n |-> changes + 1]) ELSE buf

\* A command that changes nothing is accepted, too.
Serve(op) ==
    IF After(op) # server THEN Becomes(After(op), "status")
    ELSE /\ buf' = IF Fed /\ op \in {"focus", "sweep"} THEN Enqueue(buf, Now("status")) ELSE buf
         /\ UNCHANGED <<changes, log>>

\* Somebody else commands, or saves a configuration.
OtherCommands(op) ==
    /\ After(op) # server
    /\ Serve(op)
    /\ UNCHANGED <<clientVars, shown, priming, commands>>

OtherSaves ==
    /\ Becomes([server EXCEPT !.config = changes + 1], "config")
    /\ UNCHANGED <<clientVars, shown, priming, commands>>

\* While it scans the server sends frames, and the status once a second.
Tick(t) ==
    /\ Fed /\ server.scanning /\ t \in FrameType \cup {"status"}
    /\ buf' = Enqueue(buf, Now(t))
    /\ UNCHANGED <<changes, log, clientVars, shown, priming, commands>>

\* The identify message arrives and the connection takes the place of an
\* earlier one of this client: hello, and the status snapshot.
Identified ==
    /\ socket = "open" /\ registered = "no"
    /\ registered' = "yes"
    /\ buf' = Enqueue(Enqueue(<< >>, Now("config")), Now("status"))
    /\ UNCHANGED <<changes, log, socket, behind, timer, ping, backoff, stopped, connection,
                   shown, priming, commands>>

\* The handler of an earlier socket ends, which removes whatever is registered
\* for this client by then, or it registers so late that it replaces it: the
\* socket stays open and hears no more.  Without a registration it does
\* nothing to this client; the next registration comes after this socket, the
\* handler of which is behind in its turn.
OldHandler ==
    /\ behind /\ Fed
    /\ behind' = FALSE
    /\ registered' = "removed" /\ buf' = << >>
    /\ UNCHANGED <<changes, log, socket, timer, ping, backoff, stopped, connection,
                   shown, priming, commands>>

-----------------------------------------------------------------------------
(* LiveConnection.                                                          *)

\* connect() from the timer, which has fired; the constructor may throw.
Connect ==
    /\ timer /\ ~stopped
    /\ timer' = FALSE
    /\ socket' = "opening"
    /\ connection' = IF backoff = 0 THEN "connecting" ELSE "reconnecting"
    /\ UNCHANGED <<buf, changes, log, registered, behind, ping, backoff, stopped, shown, priming, commands>>

BugLonger(b) == b + 1

Longer(b) == IF b < MaxBackoff THEN b + 1 ELSE b

\* onopen: identify, and start the pings.
Opened ==
    /\ socket = "opening"
    /\ socket' = "open" /\ connection' = "open"
    /\ backoff' = 0 /\ ping' = TRUE
    /\ UNCHANGED <<buf, changes, log, registered, behind, timer, stopped, shown, priming, commands>>

\* The handler of an open socket goes on until it has noticed that the socket
\* is gone, if it ever does.
Leaves == behind' = (behind \/ socket = "open")

\* The network or the server drops the socket, or refuses it.
Drops ==
    /\ socket \in {"opening", "open"} /\ Leaves
    /\ socket' = "lost" /\ registered' = "no" /\ buf' = << >>
    /\ UNCHANGED <<changes, log, timer, ping, backoff, stopped, connection, shown, priming, commands>>

BugOnclose ==
    /\ socket = "lost"
    /\ socket' = "none" /\ ping' = FALSE
    /\ connection' = "reconnecting"
    /\ timer' = (backoff = 0)
    /\ backoff' = Longer(backoff)
    /\ UNCHANGED <<buf, changes, log, registered, behind, stopped, shown, priming, commands>>

\* onclose, which stop() has not taken away: scheduleReconnect().
Onclose ==
    /\ socket = "lost"
    /\ socket' = "none" /\ ping' = FALSE
    /\ connection' = "reconnecting"
    /\ timer' = TRUE
    /\ backoff' = Longer(backoff)
    /\ UNCHANGED <<buf, changes, log, registered, behind, stopped, shown, priming, commands>>

\* The effect of App is cleaned up, which cancels the priming.
BugStop ==
    /\ ~stopped
    /\ stopped' = TRUE /\ Leaves
    /\ socket' = "none" /\ registered' = "no" /\ buf' = << >>
    /\ ping' = FALSE
    /\ connection' = "closed"
    /\ priming' = Idle
    /\ UNCHANGED <<changes, log, timer, backoff, shown, commands>>

Stop ==
    /\ ~stopped
    /\ stopped' = TRUE /\ Leaves
    /\ socket' = "none" /\ registered' = "no" /\ buf' = << >>
    /\ timer' = FALSE /\ ping' = FALSE
    /\ connection' = "closed"
    /\ priming' = Idle
    /\ UNCHANGED <<changes, log, backoff, shown, commands>>

\* The effect runs again on the same store: start() connects at once.
Start ==
    /\ stopped
    /\ stopped' = FALSE
    /\ socket' = "opening"
    /\ connection' = IF backoff = 0 THEN "connecting" ELSE "reconnecting"
    /\ priming' = [at |-> "asked"]
    /\ UNCHANGED <<buf, changes, log, registered, behind, timer, ping, backoff, shown, commands>>

-----------------------------------------------------------------------------
(* The store.                                                               *)

\* dispatch() of the oldest message.
Dispatched ==
    /\ socket = "open" /\ buf # << >>
    /\ LET m == Head(buf)
       IN  shown' = CASE m.type = "status" -> [At(m.n) EXCEPT !.config = shown.config]
                      [] m.type = "config" -> [shown EXCEPT !.config = At(m.n).config]
                      [] OTHER -> shown
    /\ buf' = Tail(buf)
    /\ UNCHANGED <<changes, log, clientVars, priming, commands>>

\* The REST answers are read, and later written into the store all at once,
\* as an idle sweep; no configuration, nothing is written.
PrimeRead ==
    /\ priming.at = "asked"
    /\ priming' \in {[at |-> "answered", config |-> server.config], Idle}
    /\ UNCHANGED <<buf, changes, log, clientVars, shown, commands>>

Primed ==
    /\ priming.at = "answered"
    /\ priming' = Idle
    /\ \/ shown' = [scanning |-> FALSE, focus |-> FALSE, config |-> priming.config]
       \/ shown' = [shown EXCEPT !.config = priming.config]  \* no device or metrics
    /\ UNCHANGED <<buf, changes, log, clientVars, commands>>

-----------------------------------------------------------------------------
(* The pages.  Leaving one does not call its request back, and a page that  *)
(* is opened again is not busy.                                             *)

Send(c, op, flipped) ==
    /\ commands[c] = Idle /\ \A d \in Command : d < c => commands[d] # Idle
    /\ commands' = [commands EXCEPT ![c] = Issued(op, flipped)]
    /\ UNCHANGED <<buf, changes, log, clientVars, priming>>

Toggle == IF shown.scanning THEN "stop" ELSE "start"

\* toggleScan() of the Dashboard.
ToggleScan(c) == Send(c, Toggle, FALSE) /\ UNCHANGED shown

\* toggleScan() of Investigate flips the store before it asks.
FlipScan(c) ==
    /\ Send(c, Toggle, TRUE)
    /\ shown' = [shown EXCEPT !.scanning = ~shown.scanning]

\* startFocus() of the Scope, from its button, from a link with a centre, or
\* from Investigate, and onBackToSweep(), whose button is shown in focus.
StartFocus(c) == Send(c, "focus", FALSE) /\ UNCHANGED shown
BackToSweep(c) == shown.focus /\ Send(c, "sweep", FALSE) /\ UNCHANGED shown

\* The server carries it out or refuses it, or the answer is lost.
Served(c) ==
    /\ commands[c].at = "sent"
    /\ \/ /\ Serve(commands[c].op)
          /\ \E at \in {"answered", "refused"} : commands' = [commands EXCEPT ![c].at = at]
       \/ /\ commands' = [commands EXCEPT ![c].at = "refused"]
          /\ UNCHANGED <<buf, changes, log>>
    /\ UNCHANGED <<clientVars, shown, priming>>

\* What the page writes into the store: the state it asked for, or, when it
\* had flipped it, the state before.
Written(k) ==
    CASE k.at = "answered" /\ ~k.flipped /\ k.op = "start" -> [shown EXCEPT !.scanning = TRUE]
      [] k.at = "answered" /\ ~k.flipped /\ k.op = "stop" -> [shown EXCEPT !.scanning = FALSE]
      [] k.at = "answered" /\ k.op = "focus" -> [shown EXCEPT !.focus = TRUE]
      [] k.at = "answered" /\ k.op = "sweep" -> [shown EXCEPT !.focus = FALSE]
      [] k.at = "refused" /\ k.flipped -> [shown EXCEPT !.scanning = (k.op = "stop")]
      [] OTHER -> shown

Answered(c) ==
    /\ commands[c].at \in {"answered", "refused"}
    /\ shown' = Written(commands[c])
    /\ commands' = [commands EXCEPT ![c] = Idle]
    /\ UNCHANGED <<buf, changes, log, clientVars, priming>>

Next ==
    \/ \E op \in Op : OtherCommands(op)
    \/ OtherSaves
    \/ \E t \in FrameType \cup {"status"} : Tick(t)
    \/ Identified \/ OldHandler \/ Connect \/ Opened \/ Drops \/ Onclose \/ Stop \/ Start
    \/ Dispatched \/ PrimeRead \/ Primed
    \/ \E c \in Command : \/ ToggleScan(c) \/ FlipScan(c) \/ StartFocus(c) \/ BackToSweep(c)
                          \/ Served(c) \/ Answered(c)

\* Sockets open or fail and timers fire; requests are answered; what is sent
\* arrives.  While it scans the server goes on sending its status.
Fairness ==
    /\ WF_vars(Connect) /\ WF_vars(Opened) /\ WF_vars(Onclose) /\ WF_vars(Identified)
    /\ WF_vars(Dispatched) /\ WF_vars(Tick("status"))
    /\ WF_vars(PrimeRead) /\ WF_vars(Primed)

Spec == Init /\ [][Next]_vars
FairSpec == Spec /\ Fairness

-----------------------------------------------------------------------------
(* Properties.                                                              *)

\* A running client always has exactly one way back to the server, a socket
\* or a timer that will make one, and a stopped one has none: onclose of an
\* old socket never races a new connection (ws.ts:76), and nothing reconnects
\* after stop().
OneWayBack ==
    /\ ~stopped => (timer <=> socket = "none")
    /\ stopped => ~timer /\ socket = "none" /\ ~ping

\* The scan runs on, the commands of this browser are over and the network
\* drops no more, and the client runs on.
Settled == server.scanning /\ ~stopped /\ socket # "lost" /\ \A c \in Command : commands[c] = Idle

ShowsScan == connection = "open" /\ shown.scanning /\ shown.focus = server.focus

\* "periodic server status tick then confirms/corrects it" (Scope.tsx:69):
\* once things have settled, the client is connected and shows the scan and
\* its mode for good, whatever was dropped, removed, evicted, primed late,
\* answered late or in another order, flipped or rolled back before, unless
\* the handler of an earlier socket has removed the registration of this one
\* (LiveHub!StaysRegistered): its socket stays open and hears no status.
ScanIsShown == <>[](Settled /\ registered # "removed") => <>[]ShowsScan
=============================================================================
