------------------------------ MODULE Startup -------------------------------
(***************************************************************************)
(* The threads of the library (DlepInit.cpp, DlepServiceImpl.cpp, Dlep.cpp  *)
(* and the locking in Peer.cpp, PeerDiscovery.cpp and DestAdvert.cpp).      *)
(*                                                                         *)
(* DlepInit starts a thread that loads the protocol configuration, starts   *)
(* the components and then runs the handlers of the io_service, and waits   *)
(* for it to say that this went well.  From then on client threads call the *)
(* service while the library's thread runs handlers, some of which call the *)
(* client back; Dlep::mutex (recursive) and DestAdvert's mutex keep them    *)
(* apart.  terminate() stops the io_service and joins the thread.           *)
(*                                                                         *)
(* What a call or a handler does is modelled elsewhere; here it is the set  *)
(* of shared variables it reads or writes.  The client keeps to the rules   *)
(* of the example client: it calls back into the service only once it has   *)
(* it, and terminates it when no other thread is in a call.                 *)
(***************************************************************************)
EXTENDS ProtocolConfig, FiniteSets

CONSTANTS
  Clients,        \* the client's threads
  Main,           \* the one that calls DlepInit and terminate
  Io,             \* the library's thread, init_thread
  DestAdvertEnabled,
  MaxWork         \* bound: elements of the document and service calls

ASSUME StartupAssumption ==
  /\ Main \in Clients /\ Io \notin Clients /\ None \notin Clients \cup {Io}
  /\ DestAdvertEnabled \in BOOLEAN /\ MaxWork \in Nat

VARIABLES
  pc,             \* where each client thread is
  op,             \* the service call it is in
  io,             \* where the library's thread is
  handler,        \* the handler it runs
  mutex,          \* Dlep::mutex: its owner and how often it is locked
  advert_mutex,   \* the owner of DestAdvert::dest_advert_mutex
  initialization_done, initialization_success,
  service,        \* what DlepInit returned
  stopped,        \* io_service_.stop() was called
  calls           \* service calls so far

thread_vars == <<pc, op, io, handler, mutex, advert_mutex, initialization_done,
                 initialization_success, service, stopped, calls>>
vars == <<load_vars, thread_vars>>

Threads  == Clients \cup {Io}
Ops      == {"destination", "session", "query", "terminate"}
Handlers == {"session", "advert", "advert_send"}

-----------------------------------------------------------------------------
(* The mutexes *)

CanLock(t) == mutex.owner \in {None, t}
Lock(t)    == mutex' = [owner |-> t, depth |-> mutex.depth + 1]
Unlock(t)  == mutex' = [owner |-> IF mutex.depth = 1 THEN None ELSE t,
                        depth |-> mutex.depth - 1]

LockAdvert(t)   == advert_mutex = None /\ advert_mutex' = t
UnlockAdvert(t) == advert_mutex' = IF advert_mutex = t THEN None ELSE advert_mutex

\* Calls about destinations lock the advertised destinations' database as well.
Advertising(o) == o = "destination" /\ DestAdvertEnabled

MoreCalls == elements + calls < MaxWork

Goto(c, where) == pc' = [pc EXCEPT ![c] = where]
Init_vars      == <<initialization_done, initialization_success>>

-----------------------------------------------------------------------------
(* DlepInit *)

\* A parameter that DlepInit needs is missing, or the log file cannot be opened.
init_without_log ==
  /\ pc[Main] = "start"
  /\ Goto(Main, "idle") /\ service' = "null"
  /\ UNCHANGED <<load_vars, op, io, handler, mutex, advert_mutex, Init_vars, stopped, calls>>

start_thread ==
  /\ pc[Main] = "start"
  /\ Goto(Main, "wait") /\ io' = "initialize" /\ load' = "loading"
  /\ UNCHANGED <<config, modinfo, elements, op, handler, mutex, advert_mutex,
                 Init_vars, service, stopped, calls>>

\* Mutant: the thread goes to sleep without looking at initialization_done.
wait_for_initialization_unchecked ==
  /\ pc[Main] = "wait"
  /\ Goto(Main, "asleep")
  /\ UNCHANGED <<load_vars, op, io, handler, mutex, advert_mutex, Init_vars,
                 service, stopped, calls>>

wait_for_initialization ==
  /\ pc[Main] = "wait"
  /\ \/ /\ ~initialization_done
        /\ Goto(Main, "asleep") /\ UNCHANGED service
     \/ /\ initialization_done /\ initialization_success
        /\ Goto(Main, "idle") /\ service' = "service"
     \/ /\ initialization_done /\ ~initialization_success
        /\ Goto(Main, "join") /\ UNCHANGED service
  /\ UNCHANGED <<load_vars, op, io, handler, mutex, advert_mutex, Init_vars, stopped, calls>>

spurious_wakeup ==
  /\ pc[Main] = "asleep"
  /\ Goto(Main, "wait")
  /\ UNCHANGED <<load_vars, op, io, handler, mutex, advert_mutex, Init_vars,
                 service, stopped, calls>>

\* Mutant: the failed thread is not joined.
initialization_failed_unjoined ==
  /\ pc[Main] = "join"
  /\ Goto(Main, "idle") /\ service' = "null"
  /\ UNCHANGED <<load_vars, op, io, handler, mutex, advert_mutex, Init_vars, stopped, calls>>

initialization_failed ==
  /\ pc[Main] = "join" /\ io = "exited"
  /\ Goto(Main, "idle") /\ service' = "null"
  /\ UNCHANGED <<load_vars, op, io, handler, mutex, advert_mutex, Init_vars, stopped, calls>>

-----------------------------------------------------------------------------
(* The library's thread: Dlep::initialize *)

notify_initialization_done(ok) ==
  /\ initialization_done' = TRUE /\ initialization_success' = ok
  /\ IF pc[Main] = "asleep" THEN Goto(Main, "wait") ELSE UNCHANGED pc

load_config ==
  /\ io = "initialize"
  /\ LoadStep
  /\ UNCHANGED thread_vars

\* Discovery, destination advertisement and the session socket are started; a
\* component that does not start and a missing parameter end the thread.
components_started ==
  /\ io = "initialize" /\ load = "loaded"
  /\ \E ok \in BOOLEAN :
       /\ notify_initialization_done(ok)
       /\ io' = IF ok THEN "running" ELSE "returning"
  /\ UNCHANGED <<load_vars, op, handler, mutex, advert_mutex, service, stopped, calls>>

ProcessEnds == io' = "aborted" /\ pc' = [c \in Clients |-> "dead"]

\* Only BadParameterName is caught: BadProtocolConfig, and the system_error of
\* an acceptor whose port is in use, end the process.
uncaught_exception ==
  /\ io = "initialize" /\ load \in {"bad", "loaded"}
  /\ ProcessEnds
  /\ UNCHANGED <<load_vars, op, handler, mutex, advert_mutex, Init_vars,
                 service, stopped, calls>>

\* initialize returns: run() has ended, or initialization failed.
thread_exits ==
  /\ io = "returning" \/ (io = "running" /\ stopped)
  /\ io' = "exited"
  /\ UNCHANGED <<load_vars, pc, op, handler, mutex, advert_mutex, Init_vars,
                 service, stopped, calls>>

-----------------------------------------------------------------------------
(* The library's thread: io_service_.run() *)

begin_handler(h) ==
  /\ io = "running" /\ ~stopped
  /\ h \in {"advert", "advert_send"} => DestAdvertEnabled
  /\ io' = "locking" /\ handler' = h
  /\ UNCHANGED <<load_vars, pc, op, mutex, advert_mutex, Init_vars, service, stopped, calls>>

\* Handlers of sessions, discovery and clean-up lock Dlep::mutex, those of
\* destination advertisement their own, and sending an advertisement neither.
lock_handler ==
  /\ io = "locking"
  /\ \/ handler = "session" /\ CanLock(Io) /\ Lock(Io) /\ UNCHANGED advert_mutex
     \/ handler = "advert" /\ LockAdvert(Io) /\ UNCHANGED mutex
     \/ handler = "advert_send" /\ UNCHANGED <<mutex, advert_mutex>>
  /\ io' = "handler"
  /\ UNCHANGED <<load_vars, pc, op, handler, Init_vars, service, stopped, calls>>

\* The handler tells the client something (peer_up, destination_up, ...).
callback ==
  /\ io = "handler" /\ handler = "session"
  /\ io' = "callback"
  /\ UNCHANGED <<load_vars, pc, op, handler, mutex, advert_mutex, Init_vars,
                 service, stopped, calls>>

\* From the callback, the client calls the service.
nested_call ==
  /\ io = "callback" /\ service = "service" /\ MoreCalls
  /\ Lock(Io) /\ io' = "nested" /\ calls' = calls + 1
  /\ IF DestAdvertEnabled THEN LockAdvert(Io) ELSE UNCHANGED advert_mutex
  /\ UNCHANGED <<load_vars, pc, op, handler, Init_vars, service, stopped>>

nested_unlock_advert ==
  /\ io = "nested"
  /\ UnlockAdvert(Io) /\ io' = "nested_rest"
  /\ UNCHANGED <<load_vars, pc, op, handler, mutex, Init_vars, service, stopped, calls>>

\* Mutant: the nested call leaves the mutex locked.
nested_return_locked ==
  /\ io = "nested_rest"
  /\ io' = "callback"
  /\ UNCHANGED <<load_vars, pc, op, handler, mutex, advert_mutex, Init_vars,
                 service, stopped, calls>>

nested_return ==
  /\ io = "nested_rest"
  /\ Unlock(Io)
  /\ io' = "callback"
  /\ UNCHANGED <<load_vars, pc, op, handler, advert_mutex, Init_vars,
                 service, stopped, calls>>

ReleaseHandler ==
  /\ IF handler = "session" THEN Unlock(Io) ELSE UNCHANGED mutex
  /\ UnlockAdvert(Io)

end_handler ==
  /\ io \in {"handler", "callback"}
  /\ ReleaseHandler
  /\ io' = "running"
  /\ UNCHANGED <<load_vars, pc, op, handler, Init_vars, service, stopped, calls>>

\* The handler reads a configuration parameter that the client does not have:
\* the exception leaves run() and initialize reports it as a failure to start.
bad_parameter ==
  /\ io = "handler" /\ handler # "advert_send"
  /\ ReleaseHandler
  /\ notify_initialization_done(FALSE)
  /\ io' = "returning"
  /\ UNCHANGED <<load_vars, op, handler, service, stopped, calls>>

\* A connection is lost as soon as it is made: the system_error of a socket call
\* in Peer's constructor or in handle_accept ends the process.
handler_exception ==
  /\ io = "handler" /\ handler = "session"
  /\ ProcessEnds
  /\ UNCHANGED <<load_vars, op, handler, mutex, advert_mutex, Init_vars,
                 service, stopped, calls>>

-----------------------------------------------------------------------------
(* Service calls of client threads *)

Terminating == op[Main] = "terminate" /\ pc[Main] \in {"lock", "stop", "join_thread"}

call(c, o) ==
  /\ pc[c] = "idle" /\ service = "service" /\ ~Terminating /\ MoreCalls
  /\ o = "terminate" => c = Main /\ \A d \in Clients \ {c} : pc[d] = "idle"
  /\ Goto(c, "lock") /\ op' = [op EXCEPT ![c] = o] /\ calls' = calls + 1
  /\ UNCHANGED <<load_vars, io, handler, mutex, advert_mutex, Init_vars, service, stopped>>

lock_dlep(c) ==
  /\ pc[c] = "lock" /\ CanLock(c) /\ Lock(c)
  /\ Goto(c, CASE op[c] = "terminate" -> "stop"
               [] Advertising(op[c]) -> "lock_advert"
               [] OTHER -> "body")
  /\ UNCHANGED <<load_vars, op, io, handler, advert_mutex, Init_vars, service, stopped, calls>>

\* Mutant: the call does not wait for the mutex of the database.
lock_advert_unlocked(c) ==
  /\ pc[c] = "lock_advert" /\ UNCHANGED advert_mutex
  /\ Goto(c, "body")
  /\ UNCHANGED <<load_vars, op, io, handler, mutex, Init_vars, service, stopped, calls>>

lock_advert(c) ==
  /\ pc[c] = "lock_advert" /\ LockAdvert(c)
  /\ Goto(c, "body")
  /\ UNCHANGED <<load_vars, op, io, handler, mutex, Init_vars, service, stopped, calls>>

\* The lock of the database ends with the block that uses it; the rest of
\* destination_update and destination_down runs under Dlep::mutex only.
unlock_advert(c) ==
  /\ pc[c] = "body" /\ Advertising(op[c])
  /\ UnlockAdvert(c)
  /\ Goto(c, "rest")
  /\ UNCHANGED <<load_vars, op, io, handler, mutex, Init_vars, service, stopped, calls>>

return(c) ==
  /\ pc[c] = IF Advertising(op[c]) THEN "rest" ELSE "body"
  /\ Unlock(c)
  /\ Goto(c, "idle")
  /\ UNCHANGED <<load_vars, op, io, handler, advert_mutex, Init_vars,
                 service, stopped, calls>>

\* terminate(): every peer is terminated and dropped, the io_service stopped.
stop ==
  /\ pc[Main] = "stop"
  /\ Unlock(Main) /\ Goto(Main, "join_thread") /\ stopped' = TRUE
  /\ UNCHANGED <<load_vars, op, io, handler, advert_mutex, Init_vars, service, calls>>

\* The thread is joined and the Dlep object deleted.
join_thread ==
  /\ pc[Main] = "join_thread" /\ io = "exited"
  /\ Goto(Main, "idle") /\ service' = "terminated"
  /\ UNCHANGED <<load_vars, op, io, handler, mutex, advert_mutex, Init_vars, stopped, calls>>

\* Nothing is left to do: no service, or no calls left to make.
finished ==
  /\ \/ io = "aborted"
     \/ \A c \in Clients : pc[c] = "idle" /\ (service # "service" \/ ~MoreCalls)
  /\ UNCHANGED vars

-----------------------------------------------------------------------------

Init ==
  /\ LoadInit
  /\ pc = [c \in Clients |-> IF c = Main THEN "start" ELSE "idle"]
  /\ op = [c \in Clients |-> "query"]
  /\ io = "none" /\ handler = "session"
  /\ mutex = [owner |-> None, depth |-> 0] /\ advert_mutex = None
  /\ initialization_done = FALSE /\ initialization_success = FALSE
  /\ service = "none" /\ stopped = FALSE /\ calls = 0

InitStep == init_without_log \/ start_thread \/ wait_for_initialization \/ initialization_failed

StartStep == load_config \/ components_started \/ uncaught_exception

IoStep ==
  \/ thread_exits \/ nested_unlock_advert \/ nested_return \/ end_handler
  \/ bad_parameter \/ handler_exception \/ callback \/ nested_call
  \/ \E h \in Handlers : begin_handler(h)

CallStep(c) == unlock_advert(c) \/ return(c) \/ (c = Main /\ (stop \/ join_thread))

Next ==
  \/ InitStep \/ spurious_wakeup \/ StartStep \/ IoStep \/ lock_handler \/ finished
  \/ \E c \in Clients :
       \/ \E o \in Ops : call(c, o)
       \/ lock_dlep(c) \/ lock_advert(c) \/ CallStep(c)

\* A thread that can go on does; one that waits for a mutex that is free again
\* and again gets it at last; a client's callback returns.
Fairness ==
  /\ WF_vars(InitStep) /\ WF_vars(StartStep) /\ WF_vars(IoStep)
  /\ WF_vars(end_handler \/ nested_unlock_advert \/ nested_return) /\ SF_vars(lock_handler)
  /\ \A c \in Clients : /\ SF_vars(lock_dlep(c)) /\ SF_vars(lock_advert(c))
                        /\ WF_vars(CallStep(c))

Spec == Init /\ [][Next]_vars /\ Fairness

-----------------------------------------------------------------------------
(* Properties *)

TypeOK ==
  /\ LoadTypeOK
  /\ pc \in [Clients -> {"start", "wait", "asleep", "join", "idle", "lock", "lock_advert",
                         "body", "rest", "stop", "join_thread", "dead"}]
  /\ op \in [Clients -> Ops] /\ handler \in Handlers
  /\ io \in {"none", "initialize", "running", "locking", "handler", "callback", "nested",
             "nested_rest", "returning", "exited", "aborted"}
  /\ mutex \in [owner : Threads \cup {None}, depth : 0..2]
  /\ advert_mutex \in Threads \cup {None}
  /\ initialization_done \in BOOLEAN /\ initialization_success \in BOOLEAN
  /\ service \in {"none", "null", "service", "terminated"}
  /\ stopped \in BOOLEAN /\ calls \in 0..MaxWork

\* DlepInit returns a service only when the configuration is complete and the
\* components have started, so that clients may read it without a lock; it
\* returns nullptr only when no thread is left behind.  After terminate() the
\* thread "doesn't try to access the pointer to its DlepClient object after
\* returning from this method" (DlepServiceImpl.cpp).
ServiceReady ==
  /\ service = "service" => load = "loaded" /\ initialization_done
  /\ service = "null" => io \in {"none", "exited"}
  /\ service = "terminated" => io = "exited"

\* What the thread may be reading or writing now.
Peers(w)     == [var |-> "peers", write |-> w]
Queues       == [var |-> "responses_pending", write |-> TRUE]
LocalPdp(w)  == [var |-> "local_pdp", write |-> w]
AdvertDb     == [var |-> "advert_db", write |-> TRUE]
OwnAdvert(w) == [var |-> "destinations", write |-> w]

OpAccess(o) ==
  CASE o \in {"destination", "session"} -> {Peers(FALSE), Queues, LocalPdp(TRUE)}
    [] o = "query"     -> {Peers(FALSE), LocalPdp(FALSE)}
    [] o = "terminate" -> {Peers(TRUE), Queues, OwnAdvert(TRUE)}

BodyAccess(o) == OpAccess(o) \cup (IF Advertising(o) THEN {AdvertDb} ELSE {})

HandlerAccess(h) ==
  CASE h = "session"     -> {Peers(TRUE), Queues, LocalPdp(TRUE), OwnAdvert(TRUE)}
    [] h = "advert"      -> {Peers(FALSE), Queues, LocalPdp(TRUE), AdvertDb}
    [] h = "advert_send" -> {OwnAdvert(FALSE)}

Access(t) ==
  CASE t = Io /\ io \in {"handler", "callback"} -> HandlerAccess(handler)
    [] t = Io /\ io = "nested" -> BodyAccess("destination")
    [] t = Io /\ io = "nested_rest" -> OpAccess("destination")
    [] t # Io /\ pc[t] \in {"body", "stop"} -> BodyAccess(op[t])
    [] t # Io /\ pc[t] = "rest" -> OpAccess(op[t])
    [] OTHER -> {}

Raced(s, t) ==
  {a.var : a \in {x \in Access(s) : \E b \in Access(t) : x.var = b.var /\ (x.write \/ b.write)}}

AdvertHandler == io = "handler" /\ handler \in {"advert", "advert_send"}

\* DlepServiceImpl.cpp: "any library-owned data that is accessed by these
\* methods needs appropriate locking".  The database of advertised destinations
\* is never used by two threads at once.  Other data is, one thread changing it,
\* only while a handler of destination advertisement runs, which does not lock
\* Dlep::mutex, and then only by a call that does not hold the database's mutex:
\* one that never takes it, or the rest of destination_update or destination_down
\* after it has been released.
RacesOnlyWithAdvert ==
  \A s, t \in Threads : s # t /\ Raced(s, t) # {} =>
    /\ AdvertHandler /\ advert_mutex \in {None, Io}
    /\ "advert_db" \notin Raced(s, t)

\* DlepInit returns, or the process ends, whichever of notify and wait is first;
\* and terminate() returns, whatever the handlers do, or an exception in one ends
\* the process.  (Other clients are in no call when terminate() is called.)
CallsReturn ==
  /\ pc[Main] = "wait" ~> (service # "none" \/ io = "aborted")
  /\ Terminating ~> (service = "terminated" \/ io = "aborted")

(* What the documentation says and the code does not do.                   *)

\* DlepServiceImpl.cpp: "any library-owned data that is accessed by these
\* methods needs appropriate locking, both here and anywhere else in the
\* library that accesses the same data".
NoRace == \A s, t \in Threads : s # t => Raced(s, t) = {}

\* DlepInit.h: "nullptr if the library failed to initialize": a failure does
\* not end the process.
FailureReported == io # "aborted"

\* A client that has a service has a thread that serves it, until terminate().
ServiceAlive == service = "service" /\ ~stopped => io # "exited"
=============================================================================
