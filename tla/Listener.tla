------------------------------ MODULE Listener ------------------------------
(***************************************************************************)
(* The engine and its TCP listeners (engine.cpp, main.cpp, listener.cpp).  *)
(* run_engine constructs the engine, whose constructor opens every         *)
(* listener; each has an acceptor thread of its own.  The main thread      *)
(* polls engine::working once a second; a signal raises the exit flag and  *)
(* working then stops the listeners one after the other, after which the   *)
(* engine and everything it owns is destroyed.                             *)
(*                                                                         *)
(* A listener's stage and need_stop are guarded by its syncvar.  The lock  *)
(* is used as SpinLock shows it to behave: a writer first claims the lock, *)
(* which keeps new readers and writers out, and then waits for the readers *)
(* to go.  A read lock that is dropped within the statement is one step;   *)
(* the only one that is held is st in the Linux build's stop().            *)
(***************************************************************************)
EXTENDS Integers, FiniteSets

CONSTANTS
  N,           \* number of listeners in the configuration
  MaxBacklog,  \* bound: clients waiting in a listening socket
  Builds,      \* the builds considered, a subset of {"win", "nix"}
  Main,        \* the main thread
  None         \* no thread

ASSUME ListenersAssumption == N \in Nat \ {0} /\ MaxBacklog \in Nat \ {0}
ASSUME BuildsAssumption == Builds \subseteq {"win", "nix"}
ASSUME ThreadsAssumption == Main # None /\ {Main, None} \cap (1..N) = {}

VARIABLES
  build,         \* which of the builds runs: _WIN32 or _NIX
  exit,          \* engine::exit
  numlisteners,  \* engine::numlisteners
  main,          \* the main thread: its place, and the listener it is busy with
  acc,           \* per listener: the place of its acceptor thread
  stage,         \* per listener: state.stage
  needStop,      \* per listener: state.need_stop
  claim,         \* per listener: the thread that has claimed the lock for writing
  held,          \* listeners whose lock the main thread holds for reading (st)
  sock,          \* per listener: "none", "open" or "listening"
  backlog        \* per listener: connections that wait to be accepted

vars == <<build, exit, numlisteners, main, acc, stage, needStop, claim, held, sock, backlog>>

guarded == <<stage, needStop>>
locks == <<claim, held>>
network == <<sock, backlog>>

\* The listeners in the order of the vector "listners"; an acceptor thread has the name of
\* its listener.
Listeners == 1..N

LockFree(l) == claim[l] = None
Drained(l) == l \notin held

MainAt(p) == main.at = p
MainGoto(p) == main' = [main EXCEPT !.at = p]
AccAt(l, p) == acc[l] = p
AccGoto(l, p) == acc' = [acc EXCEPT ![l] = p]

Init ==
  /\ build \in Builds /\ exit = FALSE /\ numlisteners = 0
  /\ main = [at |-> "open", l |-> 1]
  /\ acc = [l \in Listeners |-> "off"]
  /\ stage = [l \in Listeners |-> "IDLE"]
  /\ needStop = [l \in Listeners |-> FALSE]
  /\ claim = [l \in Listeners |-> None] /\ held = {}
  /\ sock = [l \in Listeners |-> "none"] /\ backlog = [l \in Listeners |-> 0]

-----------------------------------------------------------------------------
(* The engine's constructor and engine::working.                            *)

\* The configuration could not be used: no listener is opened.
CtorFails ==
  /\ MainAt("open") /\ main.l = 1
  /\ exit' = TRUE
  /\ MainGoto("working")
  /\ UNCHANGED <<build, numlisteners, acc, guarded, locks, network>>

\* open(): the listener is counted before its acceptor thread exists.
Open ==
  /\ MainAt("open")
  /\ LET l == main.l
     IN  /\ stage' = [stage EXCEPT ![l] = "ACCEPTOR_START"]
         /\ AccGoto(l, "start")
         /\ main' = IF l < N THEN [main EXCEPT !.l = l + 1] ELSE [at |-> "working", l |-> 1]
  /\ numlisteners' = numlisteners + 1
  /\ UNCHANGED <<build, exit, needStop, locks, network>>

\* working(): stop everything, give up without listeners, or sleep for a second.
WorkingStop ==
  /\ MainAt("working") /\ exit
  /\ main' = [at |-> "stop", l |-> 1]
  /\ UNCHANGED <<build, exit, numlisteners, acc, guarded, locks, network>>

WorkingQuit ==
  /\ MainAt("working") /\ ~exit /\ numlisteners <= 0
  /\ MainGoto("quit")
  /\ UNCHANGED <<build, exit, numlisteners, acc, guarded, locks, network>>

-----------------------------------------------------------------------------
(* tcp_listener::stop, run by the main thread for one listener after the other. *)

AfterStop(l) == IF l < N THEN [at |-> "stop", l |-> l + 1] ELSE [at |-> "gone", l |-> l]

StopCheck ==
  /\ MainAt("stop") /\ LockFree(main.l)
  /\ main' = IF stage[main.l] = "IDLE" THEN AfterStop(main.l) ELSE [main EXCEPT !.at = "claimStop"]
  /\ UNCHANGED <<build, exit, numlisteners, acc, guarded, locks, network>>

\* lock_write, first loop: the main thread claims the lock.
StopClaim ==
  /\ MainAt("claimStop") \/ MainAt("claimReset")
  /\ LockFree(main.l)
  /\ claim' = [claim EXCEPT ![main.l] = Main]
  /\ MainGoto(IF MainAt("claimStop") THEN "drainStop" ELSE "drainReset")
  /\ UNCHANGED <<build, exit, numlisteners, acc, guarded, held, network>>

\* lock_write, second loop, need_stop and the end of the temporary.
StopRaise ==
  /\ MainAt("drainStop") /\ Drained(main.l)
  /\ needStop' = [needStop EXCEPT ![main.l] = TRUE]
  /\ claim' = [claim EXCEPT ![main.l] = None]
  /\ MainGoto("handler")
  /\ UNCHANGED <<build, exit, numlisteners, acc, stage, held, network>>

\* hand->stop(): it returns, see StopReturns in Bridge.
StopHandler ==
  /\ MainAt("handler")
  /\ MainGoto(IF build = "nix" THEN "read" ELSE "close")
  /\ UNCHANGED <<build, exit, numlisteners, acc, guarded, locks, network>>

\* The Linux build takes st, which lives until stop() returns.
StopRead ==
  /\ MainAt("read") /\ LockFree(main.l)
  /\ held' = held \cup {main.l}
  /\ MainGoto("connect")
  /\ UNCHANGED <<build, exit, numlisteners, acc, guarded, claim, network>>

\* The fake connection; it is refused when nothing listens, and when the listener is bound to any
\* address, since localhost() has no port (netkit.h:89).
StopConnect ==
  /\ MainAt("connect")
  /\ \/ backlog' = [backlog EXCEPT ![main.l] = IF sock[main.l] = "listening" THEN @ + 1 ELSE @]
     \/ UNCHANGED backlog
  /\ MainGoto("close")
  /\ UNCHANGED <<build, exit, numlisteners, acc, guarded, locks, sock>>

StopClose ==
  /\ MainAt("close")
  /\ sock' = [sock EXCEPT ![main.l] = "none"]
  /\ MainGoto("poll")
  /\ UNCHANGED <<build, exit, numlisteners, acc, guarded, locks, backlog>>

\* The wait for IDLE ends with a reading that finds it.
StopPoll ==
  /\ MainAt("poll") /\ LockFree(main.l) /\ stage[main.l] = "IDLE"
  /\ MainGoto("claimReset")
  /\ UNCHANGED <<build, exit, numlisteners, acc, guarded, locks, network>>

\* need_stop is reset and stop() returns, releasing st.
StopReset ==
  /\ MainAt("drainReset") /\ Drained(main.l)
  /\ needStop' = [needStop EXCEPT ![main.l] = FALSE]
  /\ claim' = [claim EXCEPT ![main.l] = None]
  /\ held' = held \ {main.l}
  /\ main' = AfterStop(main.l)
  /\ UNCHANGED <<build, exit, numlisteners, acc, stage, network>>

-----------------------------------------------------------------------------
(* tcp_listener::acceptor.                                                  *)

\* lock_write, first loop, at the beginning and at the end of the thread.
AccClaim(l) ==
  /\ AccAt(l, "start") \/ AccAt(l, "leave")
  /\ LockFree(l)
  /\ claim' = [claim EXCEPT ![l] = l]
  /\ AccGoto(l, IF AccAt(l, "start") THEN "drainStart" ELSE "drainLeave")
  /\ UNCHANGED <<build, exit, numlisteners, main, guarded, held, network>>

AccWorks(l) ==
  /\ AccAt(l, "drainStart") /\ Drained(l)
  /\ stage' = [stage EXCEPT ![l] = "ACCEPTOR_WORKS"]
  /\ claim' = [claim EXCEPT ![l] = None]
  /\ AccGoto(l, "bind")
  /\ UNCHANGED <<build, exit, numlisteners, main, needStop, held, network>>

AccBind(l) ==
  /\ AccAt(l, "bind") /\ LockFree(l)
  /\ AccGoto(l, "socket")
  /\ UNCHANGED <<build, exit, numlisteners, main, guarded, locks, network>>

\* Mutant of AccSocket: the failure is counted here as well as at the end of the thread.
AccSocketCounts(l) ==
  /\ AccAt(l, "socket")
  /\ \/ /\ sock' = [sock EXCEPT ![l] = "open"] /\ AccGoto(l, "listen")
        /\ UNCHANGED numlisteners
     \/ /\ AccGoto(l, "leave") /\ numlisteners' = numlisteners - 1
        /\ UNCHANGED sock
  /\ UNCHANGED <<build, exit, main, guarded, locks, backlog>>

\* tcp_listen: the address family may be disabled or no socket to be had.
AccSocket(l) ==
  /\ AccAt(l, "socket")
  /\ \/ /\ sock' = [sock EXCEPT ![l] = "open"] /\ AccGoto(l, "listen")
     \/ /\ AccGoto(l, "leave") /\ UNCHANGED sock
  /\ UNCHANGED <<build, exit, numlisteners, main, guarded, locks, backlog>>

\* tcp_listen: bind and listen, on a socket that stop() may have closed in the meantime.
AccListen(l) ==
  /\ AccAt(l, "listen")
  /\ \/ /\ sock[l] = "open"
        /\ sock' = [sock EXCEPT ![l] = "listening"]
        /\ AccGoto(l, "loop")
     \/ /\ sock' = [sock EXCEPT ![l] = "none"]
        /\ AccGoto(l, "leave")
  /\ UNCHANGED <<build, exit, numlisteners, main, guarded, locks, backlog>>

AccLoop(l) ==
  /\ AccAt(l, "loop") /\ LockFree(l)
  /\ AccGoto(l, IF needStop[l] THEN "leave" ELSE "check")
  /\ UNCHANGED <<build, exit, numlisteners, main, guarded, locks, network>>

\* tcp_accept, before the call of accept: no more once the exit flag is up.
AccCheck(l) ==
  /\ AccAt(l, "check")
  /\ AccGoto(l, IF exit THEN "loop" ELSE "accept")
  /\ UNCHANGED <<build, exit, numlisteners, main, guarded, locks, network>>

\* accept() is entered with the socket as it is now; it fails at once when that is invalid, or
\* for a reason of its own (no descriptor left, a client that is gone again).
AccAccept(l) ==
  /\ AccAt(l, "accept")
  /\ \/ sock[l] # "none" /\ AccGoto(l, "blocked")
     \/ AccGoto(l, "loop")
  /\ UNCHANGED <<build, exit, numlisteners, main, guarded, locks, network>>

\* Mutant of AccReturn: a closed socket wakes nobody.
AccReturnNot(l) ==
  /\ AccAt(l, "blocked") /\ backlog[l] > 0
  /\ backlog' = [backlog EXCEPT ![l] = @ - 1]
  /\ AccGoto(l, "taken")
  /\ UNCHANGED <<build, exit, numlisteners, main, guarded, locks, sock>>

\* accept() returns with a connection, or on Windows because the socket was closed.
AccReturn(l) ==
  /\ AccAt(l, "blocked")
  /\ \/ /\ backlog[l] > 0
        /\ backlog' = [backlog EXCEPT ![l] = @ - 1]
        /\ AccGoto(l, "taken")
     \/ /\ build = "win" /\ sock[l] = "none"
        /\ AccGoto(l, "loop") /\ UNCHANGED backlog
  /\ UNCHANGED <<build, exit, numlisteners, main, guarded, locks, sock>>

\* tcp_accept, after accept: the fake connection and late ones are closed.
AccTaken(l) ==
  /\ AccAt(l, "taken")
  /\ AccGoto(l, IF exit THEN "loop" ELSE "serve")
  /\ UNCHANGED <<build, exit, numlisteners, main, guarded, locks, network>>

\* hand->on_pipe(pipe): a worker thread takes the connection over.
AccServe(l) ==
  /\ AccAt(l, "serve")
  /\ AccGoto(l, "loop")
  /\ UNCHANGED <<build, exit, numlisteners, main, guarded, locks, network>>

\* Mutant of AccIdle: the lock is released before the listener is taken off the count.
AccIdleUnlocks(l) ==
  /\ AccAt(l, "drainLeave") /\ Drained(l)
  /\ stage' = [stage EXCEPT ![l] = "IDLE"]
  /\ claim' = [claim EXCEPT ![l] = None]
  /\ AccGoto(l, "decrement")
  /\ UNCHANGED <<build, exit, numlisteners, main, needStop, held, network>>

AccIdle(l) ==
  /\ AccAt(l, "drainLeave") /\ Drained(l)
  /\ stage' = [stage EXCEPT ![l] = "IDLE"]
  /\ AccGoto(l, "decrement")
  /\ UNCHANGED <<build, exit, numlisteners, main, needStop, locks, network>>

\* Mutant of AccDecrement: the thread ends without being taken off the count.
AccDecrementNot(l) ==
  /\ AccAt(l, "decrement")
  /\ AccGoto(l, "unlock")
  /\ UNCHANGED <<build, exit, numlisteners, main, guarded, locks, network>>

\* The count goes down while the thread still holds the lock of its listener.
AccDecrement(l) ==
  /\ AccAt(l, "decrement")
  /\ numlisteners' = numlisteners - 1
  /\ AccGoto(l, "unlock")
  /\ UNCHANGED <<build, exit, main, guarded, locks, network>>

AccUnlock(l) ==
  /\ AccAt(l, "unlock")
  /\ claim' = [claim EXCEPT ![l] = None]
  /\ AccGoto(l, "done")
  /\ UNCHANGED <<build, exit, numlisteners, main, guarded, held, network>>

-----------------------------------------------------------------------------
(* Clients and the user.                                                    *)

Client(l) ==
  /\ sock[l] = "listening" /\ backlog[l] < MaxBacklog
  /\ backlog' = [backlog EXCEPT ![l] = @ + 1]
  /\ UNCHANGED <<build, exit, numlisteners, main, acc, guarded, locks, sock>>

\* handle_signal or consoleHandler: engine::stop.
Signal ==
  /\ ~exit
  /\ exit' = TRUE
  /\ UNCHANGED <<build, numlisteners, main, acc, guarded, locks, network>>

Finished == MainAt("gone") \/ MainAt("quit")

\* The destroyed engine takes no step; its remaining threads may.
Over == Finished /\ UNCHANGED vars

StopStep ==
  \/ StopCheck \/ StopClaim \/ StopRaise \/ StopHandler \/ StopRead \/ StopConnect
  \/ StopClose \/ StopPoll \/ StopReset

MainStep == Open \/ WorkingStop \/ WorkingQuit \/ StopStep

AccStep(l) ==
  \/ AccClaim(l) \/ AccWorks(l) \/ AccBind(l) \/ AccSocket(l) \/ AccListen(l) \/ AccLoop(l)
  \/ AccCheck(l) \/ AccAccept(l) \/ AccReturn(l) \/ AccTaken(l) \/ AccServe(l)
  \/ AccIdle(l) \/ AccDecrement(l) \/ AccUnlock(l)

Next == MainStep \/ CtorFails \/ (\E l \in Listeners : AccStep(l) \/ Client(l)) \/ Signal \/ Over

Spec == Init /\ [][Next]_vars

\* The threads are scheduled; no client need come and nobody need press Ctrl-C.
Fairness == WF_vars(MainStep) /\ \A l \in Listeners : WF_vars(AccStep(l))

FairSpec == Spec /\ Fairness

-----------------------------------------------------------------------------
AccPlaces == {"off", "start", "drainStart", "bind", "socket", "listen", "loop", "check",
              "accept", "blocked", "taken", "serve", "leave", "drainLeave", "decrement",
              "unlock", "done"}
MainPlaces == {"open", "working", "stop", "claimStop", "drainStop", "handler", "read",
               "connect", "close", "poll", "claimReset", "drainReset", "gone", "quit"}

TypeOK ==
  /\ build \in Builds /\ exit \in BOOLEAN /\ numlisteners \in 0..N
  /\ main \in [at : MainPlaces, l : Listeners]
  /\ acc \in [Listeners -> AccPlaces]
  /\ stage \in [Listeners -> {"IDLE", "ACCEPTOR_START", "ACCEPTOR_WORKS"}]
  /\ needStop \in [Listeners -> BOOLEAN]
  /\ claim \in [Listeners -> Listeners \cup {Main, None}] /\ held \subseteq Listeners
  /\ sock \in [Listeners -> {"none", "open", "listening"}]
  /\ backlog \in [Listeners -> Nat]

\* stop() of listener l has returned and the engine goes on to destroy it.
Stopped(l) == MainAt("gone") \/ (main.l > l /\ ~MainAt("open"))

\* The acceptor thread of a stopped listener has left for good, the lock of the listener
\* included: the engine may be destroyed (run_engine returns) when the last stop() is back.
StopQuiesces == \A l \in Listeners : Stopped(l) => acc[l] \in {"off", "done"} /\ LockFree(l)

\* working() gives up for want of listeners only when no acceptor is at work or about to be.
QuitMeansIdle ==
  MainAt("quit") => \A l \in Listeners : acc[l] \in {"unlock", "done"} /\ stage[l] = "IDLE"

\* A listener nobody could open leaves the count, and with the last of them the program ends.
IdleEngineEnds == (\A l \in Listeners : acc[l] = "done") ~> Finished \/ exit

\* A signal ends the program, in the build for Windows.
WinExitReturns == exit /\ build = "win" ~> Finished

\* listener.cpp:128: the fake connection is made so that accept gives control back and the
\* stop can go on, so in the Linux build, too, a signal ends the program.
ExitReturns == exit ~> Finished
=============================================================================
