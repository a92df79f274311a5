----------------------------- MODULE Lifecycle -----------------------------
(***************************************************************************)
(* cmd/app/main.go and internal/api/server.go: one life of the process.    *)
(* run() loads, opens the store, wires the handlers, starts the listener   *)
(* in a goroutine, registers for SIGINT and SIGTERM and selects between    *)
(* the listener's result (errCh) and a signal (sigCh); on a signal it      *)
(* drains the server.  The deferred Close runs last, whatever happened.    *)
(*                                                                         *)
(* net/http.Server is external: its connections are new (no request yet),  *)
(* active (a handler runs), idle (between two requests) or closed.  A      *)
(* handler that wants the store after Close is refused by database/sql.    *)
(***************************************************************************)
EXTENDS Naturals, Sequences, FiniteSets

CONSTANTS
  Conns,        \* connections of clients
  MaxRequests,  \* bound: requests begun
  MaxSignals    \* bound: signals sent to the process

ASSUME LifecycleAssumption ==
  /\ IsFiniteSet(Conns)
  /\ MaxRequests \in Nat /\ MaxSignals \in Nat

VARIABLES
  main,       \* the step run() is at; "exited" and "killed" are the process's ends
  err,        \* run's named result, "nil" or what failed
  failed,     \* everything that has failed so far
  listener,   \* the goroutine in ListenAndServe
  errCh,      \* its channel, of capacity 1
  sigCh,      \* whether a signal is waiting in the channel, of capacity 1
  signals,    \* signals sent
  inShutdown, \* Server.Shutdown has been called
  store,      \* the database handle
  conn,       \* the state of each connection
  begun,      \* requests begun
  refused     \* connections whose handler found the store closed

mainVars == <<main, err, failed>>
listenVars == <<listener, errCh>>
signalVars == <<sigCh, signals>>
connVars == <<conn, begun, refused>>
vars == <<mainVars, listenVars, signalVars, inShutdown, store, connVars>>

Over == {"exited", "killed"}
Active == {c \in Conns : conn[c] = "active"}

Init ==
  /\ main = "load" /\ err = "nil" /\ failed = {}
  /\ listener = "none" /\ errCh = <<>>
  /\ sigCh = FALSE /\ signals = 0
  /\ inShutdown = FALSE /\ store = "none"
  /\ conn = [c \in Conns |-> "none"] /\ begun = 0 /\ refused = {}

-----------------------------------------------------------------------------
(* run(): each step goes on, or returns an error through the deferred calls  *)
(* that are registered by then.                                              *)

Fail(what, next) ==
  /\ err' = what /\ failed' = failed \cup {what} /\ main' = next

Proceed(next) == main' = next /\ UNCHANGED <<err, failed>>

\* config.Load and logger.New.
Load ==
  /\ main = "load"
  /\ Proceed("open") \/ Fail("config", "exit")
  /\ UNCHANGED <<listenVars, signalVars, inShutdown, store, connVars>>

\* store.Open closes its handle itself when it fails.
Open ==
  /\ main = "open"
  /\ \/ Proceed("wire") /\ store' = "open"
     \/ Fail("open", "exit") /\ store' = "closed"
  /\ UNCHANGED <<listenVars, signalVars, inShutdown, connVars>>

\* auth.NewProvider, api.Routes and api.NewServer, then the listener's goroutine.
Wire ==
  /\ main = "wire"
  /\ \/ Proceed("notify") /\ listener' = "starting"
     \/ Fail("wiring", "close") /\ listener' = listener
  /\ UNCHANGED <<errCh, signalVars, inShutdown, store, connVars>>

\* signal.Notify: from now on a signal no longer kills the process.
Notify ==
  /\ main = "notify" /\ Proceed("select")
  /\ UNCHANGED <<listenVars, signalVars, inShutdown, store, connVars>>

Notified == listener # "none" /\ main # "notify"

\* What run returns is what it has received from the channel.  Mutant: return nil in
\* place of return <-errCh.
ResultDropped == IF main = "select" THEN Head(errCh) ELSE "nil"

Result == Head(errCh)

\* case err := <-errCh, and the receive after a clean Shutdown.
ReturnListenerResult ==
  /\ main \in {"select", "drain"} /\ errCh # <<>>
  /\ err' = Result /\ main' = "close"
  /\ errCh' = Tail(errCh)
  /\ UNCHANGED <<failed, listener, signalVars, inShutdown, store, connVars>>

\* case sig := <-sigCh: Shutdown closes the listener first, if it is registered.  That may
\* fail, which Shutdown returns only once it has drained the server.
TakeSignal ==
  /\ main = "select" /\ sigCh
  /\ main' = "shutdown" /\ err' = err
  /\ \/ failed' = failed
     \/ listener = "listening" /\ failed' = failed \cup {"unlisten"}
  /\ sigCh' = FALSE /\ inShutdown' = TRUE
  /\ UNCHANGED <<listenVars, signals, store, connVars>>

\* Connections Shutdown does not wait for: idle ones, and new ones grown old.
Disposable(aged) == {c \in Conns : conn[c] = "idle"} \cup aged

\* Shutdown waits for the accept loop, then polls: it closes what is disposable and
\* ends once nothing else is open.
Poll ==
  /\ main = "shutdown" /\ listener # "listening"
  /\ \E aged \in SUBSET {c \in Conns : conn[c] = "new"} :
       conn' = [c \in Conns |-> IF c \in Disposable(aged) THEN "closed" ELSE conn[c]]
  /\ IF \A c \in Conns : conn'[c] \in {"none", "closed"}
       THEN IF "unlisten" \in failed THEN Fail("unlisten", "close") ELSE Proceed("drain")
       ELSE UNCHANGED mainVars
  /\ UNCHANGED <<listenVars, signalVars, inShutdown, store, begun, refused>>

\* What run makes of the context's deadline: an error that skips the receive.
\* Mutant: the error is only logged.
ShutdownErrorIgnored == "nil"

ShutdownError == "shutdown"

\* The shutdown timeout is over.
Expire ==
  /\ main = "shutdown" /\ listener # "listening"
  /\ err' = ShutdownError /\ failed' = failed \cup {"shutdown"}
  /\ main' = "close"
  /\ UNCHANGED <<listenVars, signalVars, inShutdown, store, connVars>>

\* A close error is reported only when there is no other.
AfterCloseError == IF err = "nil" THEN "close" ELSE err

\* The deferred st.Close().
Close ==
  /\ main = "close" /\ main' = "exit" /\ store' = "closed"
  /\ \/ UNCHANGED <<err, failed>>
     \/ err' = AfterCloseError /\ failed' = failed \cup {"close"}
  /\ UNCHANGED <<listenVars, signalVars, inShutdown, connVars>>

\* main returns, with status 1 if run has returned an error; handlers end with it.
Exit ==
  /\ main = "exit" /\ Proceed("exited")
  /\ UNCHANGED <<listenVars, signalVars, inShutdown, store, connVars>>

Run ==
  \/ Load \/ Open \/ Wire \/ Notify \/ ReturnListenerResult
  \/ TakeSignal \/ Poll \/ Expire \/ Close \/ Exit

-----------------------------------------------------------------------------
(* The listener's goroutine.  Every way out sends one result.                *)

\* Mutants: no return after errCh <- err; no errCh <- nil.
SentTwice(result) ==
  IF result = "nil" THEN Append(errCh, "nil") ELSE errCh \o <<result, "nil">>

SentFailuresOnly(result) == IF result = "nil" THEN errCh ELSE Append(errCh, result)

Sent(result) == Append(errCh, result)

EndListener(result) ==
  /\ listener' = "ended" /\ errCh' = Sent(result)
  /\ failed' = IF result = "nil" THEN failed ELSE failed \cup {result}

\* ListenAndServe looks once whether Shutdown came first (ErrServerClosed).
Look ==
  /\ listener = "starting"
  /\ IF inShutdown THEN EndListener("nil")
     ELSE listener' = "binding" /\ UNCHANGED <<errCh, failed>>
  /\ UNCHANGED <<main, err, signalVars, inShutdown, store, connVars>>

\* net.Listen.
Bind ==
  /\ listener = "binding"
  /\ \/ listener' = "bound" /\ UNCHANGED <<errCh, failed>>
     \/ EndListener("bind")
  /\ UNCHANGED <<main, err, signalVars, inShutdown, store, connVars>>

\* Serve registers the listener, unless Shutdown came first.
Serve ==
  /\ listener = "bound"
  /\ IF inShutdown THEN EndListener("nil")
     ELSE listener' = "listening" /\ UNCHANGED <<errCh, failed>>
  /\ UNCHANGED <<main, err, signalVars, inShutdown, store, connVars>>

\* The accept loop fails for good, or ends because of Shutdown.
StopAccepting ==
  /\ listener = "listening"
  /\ EndListener(IF inShutdown THEN "nil" ELSE "accept")
  /\ UNCHANGED <<main, err, signalVars, inShutdown, store, connVars>>

-----------------------------------------------------------------------------
(* Clients and the operating system.                                         *)

\* The accept loop may still be busy with a connection when Shutdown begins.
Accept(c) ==
  /\ listener = "listening" /\ conn[c] = "none"
  /\ conn' = [conn EXCEPT ![c] = "new"]
  /\ UNCHANGED <<mainVars, listenVars, signalVars, inShutdown, store, begun, refused>>

Begin(c) ==
  /\ conn[c] \in {"new", "idle"} /\ begun < MaxRequests
  /\ conn' = [conn EXCEPT ![c] = "active"] /\ begun' = begun + 1
  /\ UNCHANGED <<mainVars, listenVars, signalVars, inShutdown, store, refused>>

\* The handler returns.  If the store is closed it may have needed it.
Answer(c) ==
  /\ conn[c] = "active"
  /\ conn' = [conn EXCEPT ![c] = IF inShutdown THEN "closed" ELSE "idle"]
  /\ \/ refused' = refused
     \/ store = "closed" /\ refused' = refused \cup {c}
  /\ UNCHANGED <<mainVars, listenVars, signalVars, inShutdown, store, begun>>

\* The client leaves, or the header or idle timeout of the server is over.
Drop(c) ==
  /\ conn[c] \in {"new", "idle"} /\ conn' = [conn EXCEPT ![c] = "closed"]
  /\ UNCHANGED <<mainVars, listenVars, signalVars, inShutdown, store, begun, refused>>

\* Before Notify the default action kills the process; a second signal finds the
\* channel full and is dropped.
Signal ==
  /\ signals < MaxSignals /\ signals' = signals + 1
  /\ IF Notified
       THEN sigCh' = TRUE /\ UNCHANGED main
       ELSE sigCh' = sigCh /\ main' = "killed"
  /\ UNCHANGED <<err, failed, listenVars, inShutdown, store, connVars>>

Client(c) == Accept(c) \/ Begin(c) \/ Answer(c) \/ Drop(c)

Next ==
  \/ /\ main \notin Over
     /\ \/ Run \/ Look \/ Bind \/ Serve \/ StopAccepting \/ Signal
        \/ \E c \in Conns : Client(c)
  \/ main \in Over /\ UNCHANGED vars

\* The scheduler runs run() and the listener's goroutine; the deadline of the shutdown
\* comes.  Handlers may hang and clients owe nothing.
Fairness ==
  /\ WF_vars(Run)
  /\ WF_vars(main \notin Over /\ (Look \/ Bind \/ Serve))
  /\ WF_vars(main \notin Over /\ inShutdown /\ StopAccepting)

Spec == Init /\ [][Next]_vars
FairSpec == Spec /\ Fairness

-----------------------------------------------------------------------------
TypeOK ==
  /\ main \in {"load", "open", "wire", "notify", "select", "shutdown", "drain",
              "close", "exit"} \cup Over
  /\ failed \subseteq {"config", "open", "wiring", "bind", "accept", "unlisten",
                 "shutdown", "close"}
  /\ err \in failed \cup {"nil"}
  /\ listener \in {"none", "starting", "binding", "bound", "listening", "ended"}
  /\ errCh \in {<<>>} \cup {<<r>> : r \in {"nil", "bind", "accept"}}
  /\ sigCh \in BOOLEAN /\ signals \in 0..MaxSignals
  /\ inShutdown \in BOOLEAN /\ store \in {"none", "open", "closed"}
  /\ conn \in [Conns -> {"none", "new", "active", "idle", "closed"}]
  /\ begun \in 0..MaxRequests /\ refused \subseteq Conns

\* A process that exits with status 0 has let every handler return, and with the store
\* open: Shutdown, the receive and the deferred Close run in that order in run().
ZeroMeansServed ==
  main = "exited" /\ err = "nil" => Active = {} /\ refused = {}

\* The exit status tells whether anything failed, whichever of the listener's error and
\* a signal select has taken first, and whatever failed after it (main.go:101-118).
StatusTellsFailure ==
  main = "exited" => (err = "nil" <=> failed = {})

\* A signal that finds its handler registered ends the process, hanging handlers or not:
\* Shutdown has a deadline and the listener's goroutine always sends (main.go:91-118).
ShutdownEnds ==
  (Notified /\ sigCh) ~> main = "exited"


-----------------------------------------------------------------------------
(* The inductive invariant behind ZeroMeansServed and StatusTellsFailure.    *)

\* The goroutine's one result: a failure it sends has been recorded, and "nil" is
\* sent only once Shutdown has been called.
ChannelInv ==
  /\ main \in {"load", "open", "wire"} => listener = "none"
  /\ main \in {"notify", "select", "shutdown", "drain"} => listener # "none"
  /\ errCh # <<>> => listener = "ended"
  /\ \A r \in {"bind", "accept"} : errCh = <<r>> => r \in failed
  /\ errCh = <<"nil">> => inShutdown

\* A failure that is not yet in the result waits in the channel, or Shutdown will return
\* it, and a good result is set only after the channel has been read.
ResultInv ==
  /\ err = "nil" => \A f \in failed : errCh = <<f>> \/ (f = "unlisten" /\ main = "shutdown")
  /\ main \notin {"close", "exit"} \cup Over => err = "nil"
  /\ main \in {"close", "exit", "exited"} /\ err = "nil" =>
       errCh = <<>> /\ listener = "ended"

\* Nothing is open and nothing can be accepted any more.
Drained ==
  /\ inShutdown /\ listener # "listening"
  /\ \A c \in Conns : conn[c] \in {"none", "closed"}

\* From the clean end of Shutdown on the server stays drained, and the store outlives it.
DrainInv ==
  /\ main \in {"load", "open", "wire", "notify", "select"} => ~inShutdown
  /\ main \in {"shutdown", "drain"} => inShutdown
  /\ main = "drain" \/ (main \in {"close", "exit", "exited"} /\ err = "nil") => Drained
  /\ store = "closed" => main \in {"exit"} \cup Over
  /\ main \notin {"exit"} \cup Over \/ err = "nil" => refused = {}
=============================================================================
