-------------------------- MODULE LifecycleProofs --------------------------
(***************************************************************************)
(* Proofs about Lifecycle, for any number of connections and signals.      *)
(***************************************************************************)
EXTENDS Lifecycle, TLAPS

\* Nothing is cut while the process is up; no connection is in hand before the
\* listener accepts; inShutdown and the timer belong to the last stage of main; no
\* signal has been counted before Notify.
StageInv ==
    /\ status = "up" => In("cut") = {}
    /\ listener \notin {"accepting", "returned"} =>
          In("new") \union In("active") \union In("hijacked") = {}
    /\ main = "setup" => listener = "none"
    /\ inShutdown => main = "shutdown"
    /\ main = "shutdown" => inShutdown
    /\ expired => inShutdown
    /\ main \in {"setup", "started"} => signals = 0

IInv == TypeOK /\ StageInv /\ CutWithCause /\ ListensOrStops /\ SignalNotLost

-----------------------------------------------------------------------------

\* The invariant holds at the start of the process.
LEMMA InitInv == Init => IInv
  <1> SUFFICES ASSUME Init PROVE IInv
    OBVIOUS
  <1>1. /\ main = "setup" /\ listener = "none" /\ conns = [c \in Clients |-> "none"]
        /\ sig = 0 /\ signals = 0 /\ inShutdown = FALSE /\ expired = FALSE
        /\ status = "up"
    BY DEF Init
  <1>2. In("cut") = {} /\ In("new") = {} /\ In("active") = {} /\ In("hijacked") = {}
    BY <1>1 DEF In
  <1>3. TypeOK
    <2>1. 0 \in 0 .. 1 /\ 0 \in 0 .. MaxSignals
      BY MaxSignalsAssumption
    <2>2. QED
      BY <1>1, <2>1 DEF TypeOK
  <1>4. StageInv /\ CutWithCause /\ ListensOrStops /\ SignalNotLost
    BY <1>1, <1>2 DEF StageInv, CutWithCause, ListensOrStops, SignalNotLost
  <1>5. QED
    BY <1>3, <1>4 DEF IInv

\* The process ends: every connection is as it was, or was in hand and is cut.
LEMMA ExitStep ==
    ASSUME IInv, NEW how \in {"ok", "failed", "killed"}, status = "up", Exit(how),
           \/ how = "ok" /\ Quiet
           \/ how = "failed" /\ (expired \/ ~inShutdown)
           \/ how = "failed" /\ In("new") \union In("active") = {}
           \/ how = "killed"
    PROVE  IInv'
  <1>1. /\ status' = how
        /\ conns' = [c \in Clients |-> CASE conns[c] \in {"new", "active"} -> "cut"
                                         [] conns[c] = "hijacked" -> "dropped"
                                         [] OTHER -> conns[c]]
        /\ UNCHANGED <<main, listener, sig, signals, inShutdown, expired>>
    BY DEF Exit
  <1>2. TypeOK'
    BY <1>1 DEF IInv, TypeOK
  <1>3. In("new") \union In("active") = {} => In("cut")' = {}
    BY <1>1 DEF IInv, StageInv, In
  <1>4. CutWithCause'
    BY <1>1, <1>3 DEF CutWithCause, Quiet
  <1>5. In("new")' = {} /\ In("active")' = {} /\ In("hijacked")' = {}
    BY <1>1 DEF In
  <1>6. StageInv' /\ ListensOrStops' /\ SignalNotLost'
    BY <1>1, <1>5 DEF IInv, StageInv, ListensOrStops, SignalNotLost
  <1>7. QED
    BY <1>2, <1>4, <1>6 DEF IInv

\* A step of one connection: it was known to the listener, and is not cut.
LEMMA ConnectionStep ==
    ASSUME IInv, status = "up", NEW c \in Clients,
           \/ Accept(c) \/ Activate(c) \/ Complete(c)
           \/ Hijack(c) \/ TailEnds(c) \/ CloseSilent(c)
    PROVE  IInv'
  <1>1. PICK state \in {"new", "active", "hijacked", "served", "closed"} :
            conns' = [conns EXCEPT ![c] = state]
    BY DEF Accept, Activate, Complete, Hijack, TailEnds, CloseSilent
  <1>2. UNCHANGED <<main, listener, sig, signals, inShutdown, expired, status>>
    BY DEF Accept, Activate, Complete, Hijack, TailEnds, CloseSilent
  <1>3. TypeOK'
    BY <1>1, <1>2 DEF IInv, TypeOK
  <1>4. In("cut")' = {}
    BY <1>1 DEF IInv, StageInv, TypeOK, In
  <1>5. listener \in {"accepting", "returned"}
    <2>1. listener = "accepting" \/ conns[c] \in {"new", "active", "hijacked"}
      BY DEF Accept, Activate, Complete, Hijack, TailEnds, CloseSilent
    <2>2. QED
      BY <2>1 DEF IInv, StageInv, In
  <1>6. StageInv' /\ CutWithCause' /\ ListensOrStops' /\ SignalNotLost'
    BY <1>2, <1>4, <1>5 DEF IInv, StageInv, CutWithCause, ListensOrStops, SignalNotLost
  <1>7. QED
    BY <1>3, <1>6 DEF IInv

\* The listener's goroutine returns only once Shutdown has been called.
LEMMA ListenerStep ==
    ASSUME IInv, status = "up", Listen \/ Bind \/ Serve \/ ListenerClosed
    PROVE  IInv'
  <1>1. UNCHANGED <<main, conns, sig, signals, inShutdown, expired, status>>
    BY DEF Listen, Bind, Serve, ListenerClosed
  <1>2. /\ listener # "none" /\ listener' \in {"bind", "bound", "accepting", "returned"}
        /\ listener' \in {"accepting", "returned"}
             \/ listener \notin {"accepting", "returned"}
        /\ listener' = "returned" => inShutdown
    BY DEF Listen, Bind, Serve, ListenerClosed
  <1>3. TypeOK'
    BY <1>1, <1>2 DEF IInv, TypeOK
  <1>4. StageInv' /\ CutWithCause' /\ ListensOrStops' /\ SignalNotLost'
    BY <1>1, <1>2
    DEF IInv, StageInv, CutWithCause, ListensOrStops, SignalNotLost, In
  <1>5. QED
    BY <1>3, <1>4 DEF IInv

\* A signal after Notify finds room in the channel, or a signal there, or the end
\* already begun.
LEMMA SignalStep == ASSUME IInv, status = "up", Signal PROVE IInv'
  <1>1. /\ signals < MaxSignals /\ main \notin {"setup", "started"}
        /\ signals' = signals + 1 /\ sig' = IF Room THEN sig + 1 ELSE sig
        /\ UNCHANGED <<main, listener, conns, inShutdown, expired, status>>
    BY DEF Signal
  <1>2. sig \in 0 .. 1 /\ signals \in Nat /\ (Room <=> sig = 0)
    BY MaxSignalsAssumption DEF IInv, TypeOK, Room, Capacity
  <1>3. sig' = 1
    BY <1>1, <1>2
  <1>4. TypeOK'
    BY <1>1, <1>2, <1>3, MaxSignalsAssumption DEF IInv, TypeOK
  <1>5. StageInv' /\ CutWithCause' /\ ListensOrStops' /\ SignalNotLost'
    BY <1>1, <1>3
    DEF IInv, StageInv, CutWithCause, ListensOrStops, SignalNotLost, In
  <1>6. QED
    BY <1>4, <1>5 DEF IInv

\* The main goroutine goes on.
LEMMA MainStep ==
    ASSUME IInv, status = "up", StartListener \/ Notify \/ Wait \/ Receive \/ Shutdown \/ Expire
    PROVE  IInv'
  <1> USE DEF IInv, TypeOK, StageInv, CutWithCause, ListensOrStops, SignalNotLost, In
  <1>1. CASE StartListener
    BY <1>1 DEF StartListener
  <1>2. CASE Notify
    BY <1>2 DEF Notify
  <1>3. CASE Wait
    BY <1>3 DEF Wait
  <1>4. CASE Receive
    BY <1>4 DEF Receive
  <1>5. CASE Shutdown
    BY <1>5 DEF Shutdown
  <1>6. CASE Expire
    BY <1>6 DEF Expire
  <1>7. QED
    BY <1>1, <1>2, <1>3, <1>4, <1>5, <1>6

\* Every step keeps the invariant.
LEMMA NextInv == IInv /\ [Next]_vars => IInv'
  <1> SUFFICES ASSUME IInv, [Next]_vars PROVE IInv'
    OBVIOUS
  <1>1. CASE UNCHANGED vars
    BY <1>1
    DEF vars, IInv, TypeOK, StageInv, CutWithCause, ListensOrStops, SignalNotLost, In
  <1>2. ASSUME status = "up", BindFails PROVE IInv'
    BY <1>2, ExitStep DEF BindFails, ListenerFails, IInv, StageInv
  <1>3. ASSUME status = "up", AcceptFails PROVE IInv'
    BY <1>3, ExitStep DEF AcceptFails, ListenerFails
  <1>4. ASSUME status = "up", FatalSignal PROVE IInv'
    BY <1>4, ExitStep DEF FatalSignal
  <1>5. ASSUME status = "up", SetupFails PROVE IInv'
    BY <1>5, ExitStep DEF SetupFails, IInv, StageInv
  <1>6. ASSUME status = "up", ShutdownReturns PROVE IInv'
    BY <1>6, ExitStep DEF ShutdownReturns, Polling
  <1>7. ASSUME status = "up", ShutdownExpires PROVE IInv'
    BY <1>7, ExitStep DEF ShutdownExpires, Polling
  <1>8. QED
    BY <1>1, <1>2, <1>3, <1>4, <1>5, <1>6, <1>7, ConnectionStep, ListenerStep, SignalStep,
       MainStep DEF Next

\* From setup to exit, main keeps the inductive invariant.
THEOREM Invariant == Spec => []IInv
  <1>1. QED
    BY InitInv, NextInv, PTL DEF Spec

\* The goroutines, the channel and the connections keep to their states; the channel
\* never holds two signals.
THEOREM TypeCorrect == Spec => []TypeOK
  <1>1. IInv => TypeOK
    BY DEF IInv
  <1>2. QED
    BY <1>1, Invariant, PTL

\* However many exchanges are in flight, an ordinary stop of the process cuts none
\* before the 15 s are over.  Websocket tails are not among them: they are hijacked
\* connections, which Shutdown does not wait for.
THEOREM CutsWithCause == Spec => []CutWithCause
  <1>1. IInv => CutWithCause
    BY DEF IInv
  <1>2. QED
    BY <1>1, Invariant, PTL

\* main.go's listener goroutine never leaves a process behind that does not listen.
THEOREM AlwaysListens == Spec => []ListensOrStops
  <1>1. IInv => ListensOrStops
    BY DEF IInv
  <1>2. QED
    BY <1>1, Invariant, PTL

\* Wherever main stands after signal.Notify, the first signal is not lost.
THEOREM KeepsSignal == Spec => []SignalNotLost
  <1>1. IInv => SignalNotLost
    BY DEF IInv
  <1>2. QED
    BY <1>1, Invariant, PTL
=============================================================================
