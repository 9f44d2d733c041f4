------------------------------ MODULE Lifecycle ------------------------------
(***************************************************************************)
(* The process (main.go): the main goroutine sets up, starts the listener  *)
(* in a goroutine of its own, asks for signals, waits for one, and shuts   *)
(* the server down, which waits for the exchanges in flight for 15 s at    *)
(* most.  Signals may come at any time; until signal.Notify has run they   *)
(* kill the process.                                                       *)
(*                                                                         *)
(* net/http's Server is external, and modelled from what main.go relies    *)
(* on: the order in which ListenAndServe and Shutdown look at each other's *)
(* work, and which connections Shutdown waits for.  It does not wait for   *)
(* hijacked ones, which are what ReverseProxy makes of an upgrade: the     *)
(* websocket tails of Loki.                                                *)
(***************************************************************************)
EXTENDS Naturals

CONSTANTS
    Clients,    \* connections, of one exchange each
    MaxSignals  \* bound: SIGTERM and SIGINT sent

ASSUME MaxSignalsAssumption == MaxSignals \in Nat

VARIABLES
    main,       \* where the main goroutine stands
    listener,   \* where the listener's goroutine stands
    conns,      \* the state of each connection
    sig,        \* signals in the channel
    signals,    \* signals sent so far
    inShutdown, \* Server.inShutdown
    expired,    \* the context of Shutdown has timed out
    status      \* "up", or how the process ended

vars == <<main, listener, conns, sig, signals, inShutdown, expired, status>>

TypeOK ==
    /\ main \in {"setup", "started", "notified", "wait", "stop", "shutdown"}
    /\ listener \in {"none", "start", "bind", "bound", "accepting", "returned"}
    /\ conns \in [Clients -> {"none", "new", "active", "hijacked", "served", "closed",
                              "cut", "dropped"}]
    /\ sig \in 0 .. 1 /\ signals \in 0 .. MaxSignals
    /\ inShutdown \in BOOLEAN /\ expired \in BOOLEAN
    /\ status \in {"up", "ok", "failed", "killed"}

Init ==
    /\ main = "setup" /\ listener = "none" /\ conns = [c \in Clients |-> "none"]
    /\ sig = 0 /\ signals = 0 /\ inShutdown = FALSE /\ expired = FALSE
    /\ status = "up"

In(state) == {c \in Clients : conns[c] = state}

\* The end of the process is the end of the exchanges it has in hand (cut), and of
\* the tails (dropped).
Exit(how) ==
    /\ status' = how
    /\ conns' = [c \in Clients |-> CASE conns[c] \in {"new", "active"} -> "cut"
                                     [] conns[c] = "hijacked" -> "dropped"
                                     [] OTHER -> conns[c]]
    /\ UNCHANGED <<main, listener, sig, signals, inShutdown, expired>>

-----------------------------------------------------------------------------
(* The listener's goroutine.                                               *)

\* ListenAndServe gives up if the server has been shut down already.
Listen ==
    /\ listener = "start"
    /\ listener' = IF inShutdown THEN "returned" ELSE "bind"
    /\ UNCHANGED <<main, conns, sig, signals, inShutdown, expired, status>>

Bind ==
    /\ listener = "bind" /\ listener' = "bound"
    /\ UNCHANGED <<main, conns, sig, signals, inShutdown, expired, status>>

\* Serve makes the listener known to Shutdown, unless that has been called.
Serve ==
    /\ listener = "bound"
    /\ listener' = IF inShutdown THEN "returned" ELSE "accepting"
    /\ UNCHANGED <<main, conns, sig, signals, inShutdown, expired, status>>

\* Variant: the error is logged and the goroutine ends.
VariantListenerFails ==
    /\ listener' = "returned"
    /\ UNCHANGED <<main, conns, sig, signals, inShutdown, expired, status>>

\* Any error but ErrServerClosed ends the process.
ListenerFails == Exit("failed")

BindFails == listener = "bind" /\ ListenerFails

AcceptFails == listener = "accepting" /\ ~inShutdown /\ ListenerFails

\* Shutdown closes the listener; Serve returns ErrServerClosed.
ListenerClosed ==
    /\ listener = "accepting" /\ inShutdown /\ listener' = "returned"
    /\ UNCHANGED <<main, conns, sig, signals, inShutdown, expired, status>>

\* Until the closed listener makes Serve return, a connection may still come.
Accept(c) ==
    /\ listener = "accepting" /\ conns[c] = "none"
    /\ conns' = [conns EXCEPT ![c] = "new"]
    /\ UNCHANGED <<main, listener, sig, signals, inShutdown, expired, status>>

\* The request has been read: from here on Shutdown waits for the exchange.
Activate(c) ==
    /\ conns[c] = "new" /\ conns' = [conns EXCEPT ![c] = "active"]
    /\ UNCHANGED <<main, listener, sig, signals, inShutdown, expired, status>>

Complete(c) ==
    /\ conns[c] = "active" /\ conns' = [conns EXCEPT ![c] = "served"]
    /\ UNCHANGED <<main, listener, sig, signals, inShutdown, expired, status>>

\* The upstream answers with 101, which modifyResponse leaves alone: ReverseProxy
\* takes the connection from the server and copies in both directions.
Hijack(c) ==
    /\ conns[c] = "active" /\ conns' = [conns EXCEPT ![c] = "hijacked"]
    /\ UNCHANGED <<main, listener, sig, signals, inShutdown, expired, status>>

\* Either side ends the tail.
TailEnds(c) ==
    /\ conns[c] = "hijacked" /\ conns' = [conns EXCEPT ![c] = "served"]
    /\ UNCHANGED <<main, listener, sig, signals, inShutdown, expired, status>>

-----------------------------------------------------------------------------
(* Signals.                                                                *)

\* Variant: the channel has no buffer.
VariantCapacity == 0

Capacity == 1

\* Variant: a channel that takes any number.
VariantRoom == TRUE

\* signal.Notify never blocks: what the channel cannot take is dropped.
Room == sig < Capacity \/ (main = "wait" /\ sig = 0)

Signal ==
    /\ signals < MaxSignals /\ main \notin {"setup", "started"}
    /\ signals' = signals + 1
    /\ sig' = IF Room THEN sig + 1 ELSE sig
    /\ UNCHANGED <<main, listener, conns, inShutdown, expired, status>>

\* Before Notify the runtime's default applies.
FatalSignal ==
    /\ signals < MaxSignals /\ main \in {"setup", "started"}
    /\ Exit("killed")

-----------------------------------------------------------------------------
(* The main goroutine.                                                     *)

\* Load, masker.New or NewHandler fails.
SetupFails == main = "setup" /\ Exit("failed")

StartListener ==
    /\ main = "setup" /\ main' = "started" /\ listener' = "start"
    /\ UNCHANGED <<conns, sig, signals, inShutdown, expired, status>>

Notify ==
    /\ main = "started" /\ main' = "notified"
    /\ UNCHANGED <<listener, conns, sig, signals, inShutdown, expired, status>>

Wait ==
    /\ main = "notified" /\ main' = "wait"
    /\ UNCHANGED <<listener, conns, sig, signals, inShutdown, expired, status>>

Receive ==
    /\ main = "wait" /\ sig > 0 /\ main' = "stop" /\ sig' = sig - 1
    /\ UNCHANGED <<listener, conns, signals, inShutdown, expired, status>>

\* Shutdown closes the listener, waits for Serve to return, and then looks at the
\* connections time and again.
Shutdown ==
    /\ main = "stop" /\ main' = "shutdown" /\ inShutdown' = TRUE
    /\ UNCHANGED <<listener, conns, sig, signals, expired, status>>

\* listenerGroup.Wait, which no context bounds, is over.
Polling == main = "shutdown" /\ listener # "accepting"

\* Connections without a request are closed: at once if they had one before, in
\* time if they have been silent.
CloseSilent(c) ==
    /\ Polling /\ conns[c] = "new"
    /\ conns' = [conns EXCEPT ![c] = "closed"]
    /\ UNCHANGED <<main, listener, sig, signals, inShutdown, expired, status>>

\* Variant: srv.Close, which waits for nothing.
VariantQuiet == TRUE

\* What Shutdown waits for: the server has forgotten hijacked connections.
Quiet == In("new") \union In("active") = {}

ShutdownReturns == Polling /\ Quiet /\ Exit("ok")

\* Variant: Shutdown(context.Background()).
VariantGracePeriod == FALSE

\* context.WithTimeout(..., 15s)
GracePeriod == TRUE

Expire ==
    /\ main = "shutdown" /\ GracePeriod /\ ~expired /\ expired' = TRUE
    /\ UNCHANGED <<main, listener, conns, sig, signals, inShutdown, status>>

\* Shutdown returns the context's error, be it that the last exchange has ended
\* since it looked.
ShutdownExpires == Polling /\ expired /\ Exit("failed")

Next ==
    \/ /\ status = "up"
       /\ \/ Listen \/ Bind \/ Serve \/ BindFails \/ AcceptFails \/ ListenerClosed
          \/ (\E c \in Clients : \/ Accept(c) \/ Activate(c) \/ Complete(c)
                                \/ Hijack(c) \/ TailEnds(c) \/ CloseSilent(c))
          \/ Signal \/ FatalSignal
          \/ SetupFails \/ StartListener \/ Notify \/ Wait \/ Receive \/ Shutdown
          \/ ShutdownReturns \/ Expire \/ ShutdownExpires
    \/ status # "up" /\ UNCHANGED vars

\* The goroutines run, and a closed listener accepts no more; connections and
\* signals do as they like.
Running(A) == status = "up" /\ A

Fairness ==
    /\ WF_vars(Running(Wait)) /\ WF_vars(Running(Receive)) /\ WF_vars(Running(Shutdown))
    /\ WF_vars(Running(ListenerClosed))
    /\ WF_vars(Running(ShutdownReturns \/ ShutdownExpires)) /\ WF_vars(Running(Expire))

Spec == Init /\ [][Next]_vars /\ Fairness

-----------------------------------------------------------------------------
(* Properties.                                                             *)

\* The end of the process cuts an exchange only if a signal came before Notify, the
\* listener failed, or the grace period was over: who stops the proxy the ordinary
\* way loses no request that ends in time.  It says nothing of websocket tails: once
\* a connection is hijacked Shutdown does not wait for it, and any end drops it.
CutWithCause ==
    In("cut") # {} => \/ status = "killed" \/ expired
                      \/ status = "failed" /\ ~inShutdown

\* The process does not stay up with nobody listening, except to shut down.
ListensOrStops == listener = "returned" /\ status = "up" => inShutdown

\* A signal is in the channel or has set the end in motion, also if it came while
\* main was on its way to the receive.
SignalNotLost ==
    signals > 0 /\ status = "up" => sig > 0 \/ main \in {"stop", "shutdown"}

\* After a signal the process ends, whatever upstreams and clients do.
EndsAfterSignal == signals > 0 ~> status # "up"
=============================================================================
