-------------------------- MODULE LifecycleProofs --------------------------
(***************************************************************************)
(* Theorems about Lifecycle, for any connections and any bounds.           *)
(***************************************************************************)
EXTENDS Lifecycle, TLAPS

Inv == TypeOK /\ ChannelInv /\ ResultInv /\ DrainInv

\* The channel holds nothing or one result.
LEMMA OneResult ==
  ASSUME TypeOK
  PROVE  /\ errCh # <<>> => errCh = <<Head(errCh)>> /\ Tail(errCh) = <<>>
         /\ errCh # <<>> => Head(errCh) \in {"nil", "bind", "accept"}
         /\ errCh = <<>> => \A r : Append(errCh, r) = <<r>>
<1>1. CASE errCh = <<>>
  <2> SUFFICES ASSUME NEW r PROVE Append(errCh, r) = <<r>>
    BY <1>1
  <2> QED BY <1>1
<1>2. ASSUME NEW r \in {"nil", "bind", "accept"}, errCh = <<r>>
      PROVE  Head(errCh) = r /\ Tail(errCh) = <<>> /\ errCh # <<>>
  BY <1>2
<1> QED BY <1>1, <1>2 DEF TypeOK

\* A result in the channel is seen.
LEMMA ResultSeen == \A r : <<r>> # <<>> /\ \A q : <<q>> = <<r>> => q = r
<1> QED OBVIOUS

\* The state before config.Load satisfies the invariant.
LEMMA InitInv == Init => Inv
<1> SUFFICES ASSUME Init PROVE Inv
  OBVIOUS
<1>1. TypeOK
  <2>1. 0 \in 0..MaxSignals /\ 0 \in 0..MaxRequests
    BY LifecycleAssumption DEF LifecycleAssumption
  <2>2. conn \in [Conns -> {"none", "new", "active", "idle", "closed"}]
    BY DEF Init
  <2> QED BY <2>1, <2>2 DEF Init, TypeOK
<1>2. ChannelInv /\ ResultInv
  BY ResultSeen DEF Init, ChannelInv, ResultInv, Over
<1>3. DrainInv
  BY DEF Init, DrainInv, Over
<1> QED BY <1>1, <1>2, <1>3 DEF Inv

\* The steps of run() before it selects.
LEMMA StartStep ==
  ASSUME Inv, Load \/ Open \/ Wire \/ Notify
  PROVE  Inv'
<1> USE DEF Inv, TypeOK, ChannelInv, ResultInv, DrainInv, Drained, Over, Fail, Proceed,
        listenVars, signalVars, connVars
<1>1. CASE Load BY <1>1 DEF Load
<1>2. CASE Open BY <1>2 DEF Open
<1>3. CASE Wire BY <1>3 DEF Wire
<1>4. CASE Notify BY <1>4 DEF Notify
<1> QED BY <1>1, <1>2, <1>3, <1>4

\* The steps of run() from select on.
LEMMA EndStep ==
  ASSUME Inv, ReturnListenerResult \/ TakeSignal \/ Poll \/ Expire \/ Close \/ Exit
  PROVE  Inv'
<1> USE DEF Inv, TypeOK, ChannelInv, ResultInv, DrainInv, Drained, Over, Proceed,
        listenVars, signalVars, connVars, mainVars
<1>1. CASE ReturnListenerResult
  <2>1. PICK r \in {"nil", "bind", "accept"} : errCh = <<r>> /\ Head(errCh) = r /\ errCh' = <<>>
    BY <1>1, OneResult DEF ReturnListenerResult
  <2>2. err = "nil" /\ err' = r /\ main' = "close" /\ listener = "ended"
    BY <1>1, <2>1 DEF ReturnListenerResult, Result
  <2>3. r = "nil" => failed = {} /\ main = "drain"
    BY <1>1, <2>1, <2>2 DEF ReturnListenerResult
  <2> QED BY <1>1, <2>1, <2>2, <2>3 DEF ReturnListenerResult
<1>2. CASE TakeSignal BY <1>2 DEF TakeSignal
<1>3. CASE Poll
  <2>. USE <1>3 DEF Poll, Disposable
  <2>1. conn' \in [Conns -> {"none", "new", "active", "idle", "closed"}]
    OBVIOUS
  <2>2. CASE ~(\A c \in Conns : conn'[c] \in {"none", "closed"})
    BY <2>1, <2>2
  <2>3. CASE (\A c \in Conns : conn'[c] \in {"none", "closed"}) /\ "unlisten" \in failed
    BY <2>1, <2>3 DEF Fail
  <2>4. CASE (\A c \in Conns : conn'[c] \in {"none", "closed"}) /\ "unlisten" \notin failed
    BY <2>1, <2>4
  <2> QED BY <2>2, <2>3, <2>4
<1>4. CASE Expire BY <1>4 DEF Expire, ShutdownError
<1>5. CASE Close BY <1>5 DEF Close, AfterCloseError
<1>6. CASE Exit BY <1>6 DEF Exit
<1> QED BY <1>1, <1>2, <1>3, <1>4, <1>5, <1>6

\* The goroutine's steps.
LEMMA ListenerStep ==
  ASSUME Inv, Look \/ Bind \/ Serve \/ StopAccepting
  PROVE  Inv'
<1> USE DEF Inv, TypeOK, ChannelInv, ResultInv, DrainInv, Drained, Over,
        signalVars, connVars
<1>1. listener # "ended" /\ errCh = <<>>
  BY DEF Look, Bind, Serve, StopAccepting
<1>2. \A r : Sent(r) = <<r>>
  BY <1>1, OneResult DEF Sent
<1>3. CASE Look BY <1>1, <1>2, <1>3, ResultSeen DEF Look, EndListener
<1>4. CASE Bind BY <1>1, <1>2, <1>4, ResultSeen DEF Bind, EndListener
<1>5. CASE Serve BY <1>1, <1>2, <1>5, ResultSeen DEF Serve, EndListener
<1>6. CASE StopAccepting BY <1>1, <1>2, <1>6, ResultSeen DEF StopAccepting, EndListener
<1> QED BY <1>3, <1>4, <1>5, <1>6

\* Clients and signals; a process that is over takes no step.
LEMMA OutsideStep ==
  ASSUME Inv, main \notin Over, Signal \/ (\E c \in Conns : Client(c))
  PROVE  Inv'
<1> USE DEF Inv, TypeOK, ChannelInv, ResultInv, DrainInv, Drained, Over,
        listenVars, signalVars, mainVars
<1>1. CASE Signal
  <2>1. /\ UNCHANGED <<err, failed, listener, errCh, inShutdown, store, conn, begun, refused>>
        /\ main' \in {main, "killed"} /\ sigCh' \in BOOLEAN
    BY <1>1 DEF Signal, connVars
  <2>2. signals' \in 0..MaxSignals
    BY <1>1, LifecycleAssumption DEF LifecycleAssumption, Signal
  <2>3. main \in {"notify", "select", "shutdown", "drain"} => main' = main \/ main = "notify"
    BY <1>1 DEF Signal, Notified
  <2> QED BY <2>1, <2>2, <2>3
<1>2. ASSUME NEW c \in Conns, Accept(c) PROVE Inv'
  BY <1>2 DEF Accept
<1>3. ASSUME NEW c \in Conns, Begin(c) PROVE Inv'
  BY <1>3, LifecycleAssumption DEF LifecycleAssumption, Begin
<1>4. ASSUME NEW c \in Conns, Answer(c) PROVE Inv'
  BY <1>4 DEF Answer
<1>5. ASSUME NEW c \in Conns, Drop(c) PROVE Inv'
  BY <1>5 DEF Drop
<1> QED BY <1>1, <1>2, <1>3, <1>4, <1>5 DEF Client

\* The inductive invariant: what is in the channel, the result and the drained server.
THEOREM Invariance == Spec => []Inv
<1>1. Init => Inv
  BY InitInv
<1>2. Inv /\ [Next]_vars => Inv'
  <2> SUFFICES ASSUME Inv, [Next]_vars PROVE Inv'
    OBVIOUS
  <2>1. CASE main \notin Over /\ Run
    BY <2>1, StartStep, EndStep DEF Run
  <2>2. CASE main \notin Over /\ (Look \/ Bind \/ Serve \/ StopAccepting)
    BY <2>2, ListenerStep
  <2>3. CASE main \notin Over /\ (Signal \/ \E c \in Conns : Client(c))
    BY <2>3, OutsideStep
  <2>4. CASE UNCHANGED vars
    BY <2>4 DEF Inv, TypeOK, ChannelInv, ResultInv, DrainInv, Drained, vars, mainVars,
                listenVars, signalVars, connVars
  <2> QED BY <2>1, <2>2, <2>3, <2>4 DEF Next
<1> QED BY <1>1, <1>2, PTL DEF Spec

\* Type correctness: the channels stay within their capacity and the result is "nil" or
\* something that failed.
THEOREM TypeCorrect == Spec => []TypeOK
<1>1. Inv => TypeOK
  BY DEF Inv
<1> QED BY <1>1, Invariance, PTL

\* Status 0 is given only by a process whose handlers have all returned, with the store
\* open (main.go:53-57, 107-118).
THEOREM ZeroMeansServedHolds == Spec => []ZeroMeansServed
<1>1. Inv => ZeroMeansServed
  BY DEF Inv, DrainInv, Drained, ZeroMeansServed, Active
<1> QED BY <1>1, Invariance, PTL

\* The status tells whether anything failed, in whatever order the listener, the signal,
\* the shutdown and the store's closing came (main.go:53-57, 97-118).
THEOREM StatusTellsFailureHolds == Spec => []StatusTellsFailure
<1>1. Inv => StatusTellsFailure
  BY DEF Inv, TypeOK, ResultInv, StatusTellsFailure
<1> QED BY <1>1, Invariance, PTL

=============================================================================
