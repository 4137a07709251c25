---------------------------- MODULE StartupProofs ----------------------------
(***************************************************************************)
(* Proofs about Startup, for any number of client threads and any protocol  *)
(* configuration.  The inductive invariant StartupInv says who holds which  *)
(* mutex at each place of a call or a handler (Locks, AdvertLocks), which    *)
(* places the threads can be at together (Phases), and that the             *)
(* configuration is consistent (LoadInv of ProtocolConfigProofs).           *)
(***************************************************************************)
EXTENDS Startup, ProtocolConfigProofs

ThreadTypeOK ==
  /\ pc \in [Clients -> {"start", "wait", "asleep", "join", "idle", "lock", "lock_advert",
                         "body", "rest", "stop", "join_thread", "dead"}]
  /\ op \in [Clients -> Ops] /\ handler \in Handlers
  /\ io \in {"none", "initialize", "running", "locking", "handler", "callback", "nested",
             "nested_rest", "returning", "exited", "aborted"}
  /\ mutex \in [owner : Threads \cup {None}, depth : 0..2]
  /\ advert_mutex \in Threads \cup {None}
  /\ initialization_done \in BOOLEAN /\ initialization_success \in BOOLEAN
  /\ service \in {"none", "null", "service", "terminated"}
  /\ stopped \in BOOLEAN /\ calls \in 0..MaxWork

InNested       == io \in {"nested", "nested_rest"}
SessionHandler == io = "callback" \/ InNested \/ (io = "handler" /\ handler = "session")

\* Unless the process has ended, Dlep::mutex is held in a call, by handlers of
\* sessions, and a second time by a call that a callback makes.
Locks ==
  io # "aborted" =>
    /\ \A c \in Clients : mutex.owner = c <=> pc[c] \in {"lock_advert", "body", "rest", "stop"}
    /\ mutex.owner = Io <=> SessionHandler
    /\ mutex.depth = IF mutex.owner = None THEN 0 ELSE IF InNested THEN 2 ELSE 1

\* DestAdvert's mutex is held in the bodies of calls about destinations and in the
\* handlers of advertisements that arrive.
AdvertLocks ==
  /\ io # "aborted" =>
       /\ \A c \in Clients : advert_mutex = c <=> pc[c] = "body" /\ Advertising(op[c])
       /\ advert_mutex = Io <=> (\/ io = "handler" /\ handler = "advert"
                                 \/ io = "nested" /\ DestAdvertEnabled)
  /\ \A c \in Clients :
       /\ pc[c] \in {"lock_advert", "rest"} => Advertising(op[c])
       /\ pc[c] = "body" => op[c] # "terminate"
  /\ io \in {"locking", "handler"} /\ handler # "session" => DestAdvertEnabled
  /\ io = "callback" \/ InNested => handler = "session"

\* What has happened by the time the threads are where they are.
Phases ==
  /\ pc[Main] = "start" => io = "none"
  /\ io = "none" => ~initialization_done /\ pc[Main] \in {"start", "idle"}
  /\ io = "initialize" => ~initialization_done /\ pc[Main] \in {"wait", "asleep"}
  /\ initialization_done => load = "loaded"
  /\ io \in {"none", "initialize", "aborted"} \/ initialization_done
  /\ pc[Main] \in {"start", "wait", "asleep", "join"} <=> service = "none" /\ io # "aborted"
  /\ io = "aborted" <=> \A c \in Clients : pc[c] = "dead"
  /\ service # "service" =>
       \A c \in Clients : pc[c] \notin {"lock", "lock_advert", "body", "rest", "stop", "join_thread"}
  /\ service = "service" => initialization_done
  /\ service = "null" => io \in {"none", "exited"}
  /\ service = "terminated" => io = "exited"
  /\ pc[Main] \in {"stop", "join_thread"} => op[Main] = "terminate"
  /\ \A c \in Clients \ {Main} :
       /\ op[c] # "terminate"
       /\ pc[c] \in {"idle", "lock", "lock_advert", "body", "rest", "dead"}
       /\ Terminating => pc[c] = "idle"

ThreadInv == ThreadTypeOK /\ Locks /\ AdvertLocks /\ Phases

StartupInv == LoadInv /\ ThreadInv

-----------------------------------------------------------------------------
(* Calls of clients *)

LEMMA CallInv ==
  ASSUME StartupInv, NEW c \in Clients, NEW o \in Ops, call(c, o) PROVE ThreadInv'
<1> USE StartupAssumption
    DEF StartupInv, ThreadInv, Advertising, InNested, call, load_vars, Init_vars, Goto, MoreCalls, Terminating
<1>1. ThreadTypeOK'
  BY DEF ThreadTypeOK, LoadInv, LoadTypeOK
<1>2. Locks'
  BY DEF ThreadTypeOK, Locks, SessionHandler
<1>3. AdvertLocks'
  BY DEF ThreadTypeOK, AdvertLocks
<1>4. Phases'
  BY DEF ThreadTypeOK, Phases
<1> QED
  BY <1>1, <1>2, <1>3, <1>4

LEMMA LockDlepInv ==
  ASSUME StartupInv, NEW c \in Clients, lock_dlep(c) PROVE ThreadInv'
<1> USE StartupAssumption
    DEF StartupInv, ThreadInv, Advertising, InNested, lock_dlep, CanLock, Lock, load_vars, Init_vars, Goto
<1>1. ThreadTypeOK'
  BY DEF ThreadTypeOK, Locks, Phases, SessionHandler, Threads
<1>2. Locks'
  BY DEF ThreadTypeOK, Locks, Phases, SessionHandler, Threads
<1>3. AdvertLocks'
  BY DEF ThreadTypeOK, AdvertLocks
<1>4. Phases'
  BY DEF ThreadTypeOK, Phases, Terminating
<1> QED
  BY <1>1, <1>2, <1>3, <1>4

LEMMA LockAdvertInv ==
  ASSUME StartupInv, NEW c \in Clients, lock_advert(c) PROVE ThreadInv'
<1> USE StartupAssumption
    DEF StartupInv, ThreadInv, Advertising, InNested, lock_advert, LockAdvert, load_vars, Init_vars, Goto
<1>1. ThreadTypeOK'
  BY DEF ThreadTypeOK, Threads
<1>2. Locks'
  BY DEF ThreadTypeOK, Locks, SessionHandler
<1>3. AdvertLocks'
  BY DEF ThreadTypeOK, AdvertLocks
<1>4. Phases'
  BY DEF ThreadTypeOK, Phases, Terminating
<1> QED
  BY <1>1, <1>2, <1>3, <1>4

LEMMA UnlockAdvertInv ==
  ASSUME StartupInv, NEW c \in Clients, unlock_advert(c) PROVE ThreadInv'
<1> USE StartupAssumption
    DEF StartupInv, ThreadInv, Advertising, InNested, unlock_advert, UnlockAdvert, load_vars,
        Init_vars, Goto
<1>1. ThreadTypeOK'
  BY DEF ThreadTypeOK, Threads
<1>2. Locks'
  BY DEF ThreadTypeOK, Locks, SessionHandler
<1>3. AdvertLocks'
  BY DEF ThreadTypeOK, AdvertLocks
<1>4. Phases'
  BY DEF ThreadTypeOK, Phases, Terminating
<1> QED
  BY <1>1, <1>2, <1>3, <1>4

LEMMA ReturnInv ==
  ASSUME StartupInv, NEW c \in Clients, return(c) PROVE ThreadInv'
<1> USE StartupAssumption
    DEF StartupInv, ThreadInv, Advertising, InNested, return, Unlock, UnlockAdvert, load_vars, Init_vars, Goto
<1>0. mutex' = [owner |-> None, depth |-> 0]
  BY DEF ThreadTypeOK, Locks, Phases, SessionHandler
<1>1. ThreadTypeOK'
  BY <1>0 DEF ThreadTypeOK, Threads
<1>2. Locks'
  BY <1>0 DEF ThreadTypeOK, Locks, SessionHandler
<1>3. AdvertLocks'
  BY DEF ThreadTypeOK, AdvertLocks
<1>4. Phases'
  BY DEF ThreadTypeOK, Phases, Terminating
<1> QED
  BY <1>1, <1>2, <1>3, <1>4

LEMMA StopInv ==
  ASSUME StartupInv, stop PROVE ThreadInv'
<1> USE StartupAssumption
    DEF StartupInv, ThreadInv, Advertising, InNested, stop, Unlock, load_vars, Init_vars, Goto
<1>0. mutex' = [owner |-> None, depth |-> 0]
  BY DEF ThreadTypeOK, Locks, Phases, SessionHandler
<1>1. ThreadTypeOK'
  BY <1>0 DEF ThreadTypeOK, Threads
<1>2. Locks'
  BY <1>0 DEF ThreadTypeOK, Locks, SessionHandler
<1>3. AdvertLocks'
  BY DEF ThreadTypeOK, AdvertLocks
<1>4. Phases'
  BY DEF ThreadTypeOK, Phases, Terminating
<1> QED
  BY <1>1, <1>2, <1>3, <1>4

LEMMA JoinThreadInv ==
  ASSUME StartupInv, join_thread PROVE ThreadInv'
<1> USE StartupAssumption
    DEF StartupInv, ThreadInv, Advertising, InNested, join_thread, load_vars, Init_vars, Goto
<1>1. ThreadTypeOK'
  BY DEF ThreadTypeOK
<1>2. Locks'
  BY DEF ThreadTypeOK, Locks, SessionHandler
<1>3. AdvertLocks'
  BY DEF ThreadTypeOK, AdvertLocks
<1>4. Phases'
  BY DEF ThreadTypeOK, Phases, Terminating
<1> QED
  BY <1>1, <1>2, <1>3, <1>4

-----------------------------------------------------------------------------
(* DlepInit *)

LEMMA InitWithoutLogInv ==
  ASSUME StartupInv, init_without_log PROVE ThreadInv'
<1> USE StartupAssumption
    DEF StartupInv, ThreadInv, Advertising, InNested, init_without_log, Goto, load_vars, Init_vars
<1>1. ThreadTypeOK'
  BY DEF ThreadTypeOK
<1>2. Locks'
  BY DEF ThreadTypeOK, Locks, SessionHandler
<1>3. AdvertLocks'
  BY DEF ThreadTypeOK, AdvertLocks
<1>4. Phases'
  BY DEF ThreadTypeOK, Phases, Terminating
<1> QED
  BY <1>1, <1>2, <1>3, <1>4

LEMMA StartThreadInv ==
  ASSUME StartupInv, start_thread PROVE ThreadInv'
<1> USE StartupAssumption
    DEF StartupInv, ThreadInv, Advertising, InNested, start_thread, Goto, load_vars, Init_vars
<1>1. ThreadTypeOK'
  BY DEF ThreadTypeOK
<1>2. Locks'
  BY DEF ThreadTypeOK, Locks, SessionHandler, Phases
<1>3. AdvertLocks'
  BY DEF ThreadTypeOK, AdvertLocks, Phases
<1>4. Phases'
  BY DEF ThreadTypeOK, Phases, Terminating
<1> QED
  BY <1>1, <1>2, <1>3, <1>4

LEMMA WaitForInitializationInv ==
  ASSUME StartupInv, wait_for_initialization PROVE ThreadInv'
<1> USE StartupAssumption
    DEF StartupInv, ThreadInv, Advertising, InNested, wait_for_initialization, Goto, load_vars, Init_vars
<1>1. ThreadTypeOK'
  BY DEF ThreadTypeOK
<1>2. Locks'
  BY DEF ThreadTypeOK, Locks, SessionHandler
<1>3. AdvertLocks'
  BY DEF ThreadTypeOK, AdvertLocks
<1>4. Phases'
  BY DEF ThreadTypeOK, Phases, Terminating
<1> QED
  BY <1>1, <1>2, <1>3, <1>4

LEMMA SpuriousWakeupInv ==
  ASSUME StartupInv, spurious_wakeup PROVE ThreadInv'
<1> USE StartupAssumption
    DEF StartupInv, ThreadInv, Advertising, InNested, spurious_wakeup, Goto, load_vars, Init_vars
<1>1. ThreadTypeOK'
  BY DEF ThreadTypeOK
<1>2. Locks'
  BY DEF ThreadTypeOK, Locks, SessionHandler
<1>3. AdvertLocks'
  BY DEF ThreadTypeOK, AdvertLocks
<1>4. Phases'
  BY DEF ThreadTypeOK, Phases, Terminating
<1> QED
  BY <1>1, <1>2, <1>3, <1>4

LEMMA InitializationFailedInv ==
  ASSUME StartupInv, initialization_failed PROVE ThreadInv'
<1> USE StartupAssumption
    DEF StartupInv, ThreadInv, Advertising, InNested, initialization_failed, Goto, load_vars, Init_vars
<1>1. ThreadTypeOK'
  BY DEF ThreadTypeOK
<1>2. Locks'
  BY DEF ThreadTypeOK, Locks, SessionHandler
<1>3. AdvertLocks'
  BY DEF ThreadTypeOK, AdvertLocks
<1>4. Phases'
  BY DEF ThreadTypeOK, Phases, Terminating
<1> QED
  BY <1>1, <1>2, <1>3, <1>4

-----------------------------------------------------------------------------
(* The library's thread *)

LEMMA ComponentsStartedInv ==
  ASSUME StartupInv, components_started PROVE ThreadInv'
<1> USE StartupAssumption
    DEF StartupInv, ThreadInv, Advertising, InNested, components_started, notify_initialization_done, Goto, load_vars, Init_vars
<1>1. ThreadTypeOK'
  BY DEF ThreadTypeOK
<1>2. Locks'
  BY DEF ThreadTypeOK, Locks, SessionHandler
<1>3. AdvertLocks'
  BY DEF ThreadTypeOK, AdvertLocks
<1>4. Phases'
  BY DEF ThreadTypeOK, Phases, Terminating
<1> QED
  BY <1>1, <1>2, <1>3, <1>4

LEMMA UncaughtExceptionInv ==
  ASSUME StartupInv, uncaught_exception PROVE ThreadInv'
<1> USE StartupAssumption
    DEF StartupInv, ThreadInv, Advertising, InNested, uncaught_exception, ProcessEnds, load_vars, Init_vars
<1>1. ThreadTypeOK'
  BY DEF ThreadTypeOK
<1>2. Locks'
  BY DEF ThreadTypeOK, Locks, SessionHandler, Phases
<1>3. AdvertLocks'
  BY DEF ThreadTypeOK, AdvertLocks, Phases
<1>4. Phases'
  BY DEF ThreadTypeOK, Phases, Terminating
<1> QED
  BY <1>1, <1>2, <1>3, <1>4

LEMMA ThreadExitsInv ==
  ASSUME StartupInv, thread_exits PROVE ThreadInv'
<1> USE StartupAssumption
    DEF StartupInv, ThreadInv, Advertising, InNested, thread_exits, load_vars, Init_vars
<1>1. ThreadTypeOK'
  BY DEF ThreadTypeOK
<1>2. Locks'
  BY DEF ThreadTypeOK, Locks, SessionHandler
<1>3. AdvertLocks'
  BY DEF ThreadTypeOK, AdvertLocks
<1>4. Phases'
  BY DEF ThreadTypeOK, Phases, Terminating
<1> QED
  BY <1>1, <1>2, <1>3, <1>4

LEMMA BeginHandlerInv ==
  ASSUME StartupInv, NEW h \in Handlers, begin_handler(h) PROVE ThreadInv'
<1> USE StartupAssumption
    DEF StartupInv, ThreadInv, Advertising, InNested, begin_handler, load_vars, Init_vars
<1>1. ThreadTypeOK'
  BY DEF ThreadTypeOK
<1>2. Locks'
  BY DEF ThreadTypeOK, Locks, SessionHandler
<1>3. AdvertLocks'
  BY DEF ThreadTypeOK, AdvertLocks, Handlers
<1>4. Phases'
  BY DEF ThreadTypeOK, Phases, Terminating
<1> QED
  BY <1>1, <1>2, <1>3, <1>4

LEMMA LockHandlerInv ==
  ASSUME StartupInv, lock_handler PROVE ThreadInv'
<1> USE StartupAssumption
    DEF StartupInv, ThreadInv, Advertising, InNested, lock_handler, CanLock, Lock, LockAdvert, load_vars, Init_vars
<1>1. ThreadTypeOK'
  BY DEF ThreadTypeOK, Threads, Locks, SessionHandler
<1>2. Locks'
  BY DEF ThreadTypeOK, Locks, SessionHandler
<1>3. AdvertLocks'
  BY DEF ThreadTypeOK, AdvertLocks
<1>4. Phases'
  BY DEF ThreadTypeOK, Phases, Terminating
<1> QED
  BY <1>1, <1>2, <1>3, <1>4

LEMMA CallbackInv ==
  ASSUME StartupInv, callback PROVE ThreadInv'
<1> USE StartupAssumption
    DEF StartupInv, ThreadInv, Advertising, InNested, callback, load_vars, Init_vars
<1>1. ThreadTypeOK'
  BY DEF ThreadTypeOK
<1>2. Locks'
  BY DEF ThreadTypeOK, Locks, SessionHandler
<1>3. AdvertLocks'
  BY DEF ThreadTypeOK, AdvertLocks
<1>4. Phases'
  BY DEF ThreadTypeOK, Phases, Terminating
<1> QED
  BY <1>1, <1>2, <1>3, <1>4

LEMMA NestedCallInv ==
  ASSUME StartupInv, nested_call PROVE ThreadInv'
<1> USE StartupAssumption
    DEF StartupInv, ThreadInv, Advertising, InNested, nested_call, Lock, LockAdvert, MoreCalls, load_vars, Init_vars
<1>1. ThreadTypeOK'
  BY DEF ThreadTypeOK, Threads, Locks, SessionHandler, LoadInv, LoadTypeOK
<1>2. Locks'
  BY DEF ThreadTypeOK, Locks, SessionHandler, Threads
<1>3. AdvertLocks'
  BY DEF ThreadTypeOK, AdvertLocks
<1>4. Phases'
  BY DEF ThreadTypeOK, Phases, Terminating
<1> QED
  BY <1>1, <1>2, <1>3, <1>4

LEMMA NestedUnlockAdvertInv ==
  ASSUME StartupInv, nested_unlock_advert PROVE ThreadInv'
<1> USE StartupAssumption
    DEF StartupInv, ThreadInv, Advertising, InNested, nested_unlock_advert, UnlockAdvert,
        load_vars, Init_vars
<1>1. ThreadTypeOK'
  BY DEF ThreadTypeOK, Threads
<1>2. Locks'
  BY DEF ThreadTypeOK, Locks, SessionHandler
<1>3. AdvertLocks'
  BY DEF ThreadTypeOK, AdvertLocks
<1>4. Phases'
  BY DEF ThreadTypeOK, Phases, Terminating
<1> QED
  BY <1>1, <1>2, <1>3, <1>4

LEMMA NestedReturnInv ==
  ASSUME StartupInv, nested_return PROVE ThreadInv'
<1> USE StartupAssumption
    DEF StartupInv, ThreadInv, Advertising, InNested, nested_return, Unlock, UnlockAdvert, load_vars, Init_vars
<1>0. mutex' = [owner |-> Io, depth |-> 1]
  BY DEF ThreadTypeOK, Locks, SessionHandler
<1>1. ThreadTypeOK'
  BY <1>0 DEF ThreadTypeOK, Threads
<1>2. Locks'
  BY <1>0 DEF ThreadTypeOK, Locks, SessionHandler
<1>3. AdvertLocks'
  BY DEF ThreadTypeOK, AdvertLocks
<1>4. Phases'
  BY DEF ThreadTypeOK, Phases, Terminating
<1> QED
  BY <1>1, <1>2, <1>3, <1>4

LEMMA EndHandlerInv ==
  ASSUME StartupInv, end_handler PROVE ThreadInv'
<1> USE StartupAssumption
    DEF StartupInv, ThreadInv, Advertising, InNested, end_handler, ReleaseHandler, Unlock, UnlockAdvert, load_vars, Init_vars
<1>0. mutex' = IF handler = "session" THEN [owner |-> None, depth |-> 0] ELSE mutex
  BY DEF ThreadTypeOK, Locks, SessionHandler, AdvertLocks
<1>1. ThreadTypeOK'
  BY <1>0 DEF ThreadTypeOK, Threads
<1>2. Locks'
  BY <1>0 DEF ThreadTypeOK, Locks, SessionHandler, AdvertLocks
<1>3. AdvertLocks'
  BY DEF ThreadTypeOK, AdvertLocks
<1>4. Phases'
  BY DEF ThreadTypeOK, Phases, Terminating
<1> QED
  BY <1>1, <1>2, <1>3, <1>4

LEMMA HandlerExceptionInv ==
  ASSUME StartupInv, handler_exception PROVE ThreadInv'
<1> USE StartupAssumption
    DEF StartupInv, ThreadInv, Advertising, InNested, handler_exception, ProcessEnds, load_vars,
        Init_vars
<1>1. ThreadTypeOK'
  BY DEF ThreadTypeOK
<1>2. Locks'
  BY DEF ThreadTypeOK, Locks, SessionHandler, Phases
<1>3. AdvertLocks'
  BY DEF ThreadTypeOK, AdvertLocks, Phases
<1>4. Phases'
  BY DEF ThreadTypeOK, Phases, Terminating
<1> QED
  BY <1>1, <1>2, <1>3, <1>4

LEMMA BadParameterInv ==
  ASSUME StartupInv, bad_parameter PROVE ThreadInv'
<1> USE StartupAssumption
    DEF StartupInv, ThreadInv, Advertising, InNested, bad_parameter, ReleaseHandler, Unlock, UnlockAdvert,
        notify_initialization_done, Goto, load_vars, Init_vars
<1>0. mutex' = IF handler = "session" THEN [owner |-> None, depth |-> 0] ELSE mutex
  BY DEF ThreadTypeOK, Locks, SessionHandler, AdvertLocks
<1>a. pc' \in [Clients -> {"start", "wait", "asleep", "join", "idle", "lock", "lock_advert",
                            "body", "rest", "stop", "join_thread", "dead"}]
  BY DEF ThreadTypeOK
<1>1. ThreadTypeOK'
  <2>1. mutex' \in [owner : Threads \cup {None}, depth : 0..2]
    BY <1>0 DEF ThreadTypeOK
  <2>2. advert_mutex' \in Threads \cup {None}
    BY DEF ThreadTypeOK
  <2>3. initialization_done' \in BOOLEAN /\ initialization_success' \in BOOLEAN
    OBVIOUS
  <2> QED
    BY <1>a, <2>1, <2>2, <2>3 DEF ThreadTypeOK
<1>2. Locks'
  BY <1>0 DEF ThreadTypeOK, Locks, SessionHandler, AdvertLocks
<1>3. AdvertLocks'
  BY DEF ThreadTypeOK, AdvertLocks
<1>4. Phases'
  BY DEF ThreadTypeOK, Phases, Terminating
<1> QED
  BY <1>1, <1>2, <1>3, <1>4

-----------------------------------------------------------------------------
(* The inductive invariant *)

LEMMA InitInv == Init => StartupInv
<1> SUFFICES ASSUME Init PROVE StartupInv
  OBVIOUS
<1> USE StartupAssumption DEF Init
<1>1. LoadInv
  BY LoadInvInit
<1>2. ThreadTypeOK
  <2>1. pc \in [Clients -> {"start", "wait", "asleep", "join", "idle", "lock", "lock_advert",
                            "body", "rest", "stop", "join_thread", "dead"}]
    OBVIOUS
  <2>2. op \in [Clients -> Ops] /\ handler \in Handlers
    BY DEF Ops, Handlers
  <2>3. mutex \in [owner : Threads \cup {None}, depth : 0..2] /\ calls \in 0..MaxWork
    OBVIOUS
  <2> QED
    BY <2>1, <2>2, <2>3 DEF ThreadTypeOK
<1>3. Locks /\ AdvertLocks
  BY DEF Locks, AdvertLocks, SessionHandler, Advertising, InNested
<1>4. Phases
  BY DEF Phases, Terminating, LoadInit
<1> QED
  BY <1>1, <1>2, <1>3, <1>4 DEF StartupInv, ThreadInv

\* Only load_config reads the document; starting the thread changes no more
\* than that reading begins.
LEMMA ConfigSteps ==
  ASSUME StartupInv, [Next]_vars PROVE LoadInv'
<1>1. CASE load_config
  BY <1>1, LoadStepInv DEF load_config, StartupInv
<1>2. CASE start_thread
  BY <1>2, ConfigKept DEF start_thread, StartupInv, LoadInv, LoadTypeOK
<1>3. CASE UNCHANGED load_vars
  BY <1>3, ConfigKept DEF load_vars, config, StartupInv, LoadInv, LoadTypeOK
<1>4. load_config \/ start_thread \/ UNCHANGED load_vars
  BY DEF Next, vars, InitStep, StartStep, IoStep, CallStep, unlock_advert,
         nested_unlock_advert, handler_exception, init_without_log,
         wait_for_initialization, initialization_failed, spurious_wakeup, components_started,
         uncaught_exception, thread_exits, nested_return, end_handler, bad_parameter, callback,
         nested_call, begin_handler, lock_handler, finished, call, lock_dlep, lock_advert,
         return, stop, join_thread
<1> QED
  BY <1>1, <1>2, <1>3, <1>4

LEMMA LoadConfigInv ==
  ASSUME StartupInv, load_config PROVE ThreadInv'
<1> USE DEF StartupInv, ThreadInv, Advertising, InNested, load_config, thread_vars
<1>1. ThreadTypeOK'
  BY DEF ThreadTypeOK
<1>2. Locks' /\ AdvertLocks'
  BY DEF Locks, AdvertLocks, SessionHandler, Advertising, InNested
<1>3. Phases'
  BY DEF Phases, Terminating
<1> QED
  BY <1>1, <1>2, <1>3

LEMMA StutterInv ==
  ASSUME StartupInv, UNCHANGED vars PROVE ThreadInv'
<1> USE DEF StartupInv, ThreadInv, Advertising, InNested, vars, thread_vars, load_vars
<1>1. ThreadTypeOK'
  BY DEF ThreadTypeOK
<1>2. Locks' /\ AdvertLocks'
  BY DEF Locks, AdvertLocks, SessionHandler, Advertising, InNested
<1>3. Phases'
  BY DEF Phases, Terminating
<1> QED
  BY <1>1, <1>2, <1>3

LEMMA NextInv ==
  ASSUME StartupInv, [Next]_vars PROVE StartupInv'
<1>1. ASSUME InitStep \/ spurious_wakeup PROVE ThreadInv'
  BY <1>1, InitWithoutLogInv, StartThreadInv, WaitForInitializationInv,
     InitializationFailedInv, SpuriousWakeupInv DEF InitStep
<1>2. ASSUME StartStep PROVE ThreadInv'
  BY <1>2, LoadConfigInv, ComponentsStartedInv, UncaughtExceptionInv DEF StartStep
<1>3. ASSUME IoStep \/ lock_handler PROVE ThreadInv'
  BY <1>3, ThreadExitsInv, NestedUnlockAdvertInv, NestedReturnInv, EndHandlerInv, BadParameterInv, HandlerExceptionInv, CallbackInv,
     NestedCallInv, BeginHandlerInv, LockHandlerInv DEF IoStep
<1>4. ASSUME finished \/ UNCHANGED vars PROVE ThreadInv'
  BY <1>4, StutterInv DEF finished
<1>5. ASSUME NEW c \in Clients,
             \/ \E o \in Ops : call(c, o)
             \/ lock_dlep(c) \/ lock_advert(c) \/ CallStep(c)
      PROVE  ThreadInv'
  BY <1>5, CallInv, LockDlepInv, LockAdvertInv, UnlockAdvertInv, ReturnInv, StopInv, JoinThreadInv DEF CallStep
<1>6. ThreadInv'
  BY <1>1, <1>2, <1>3, <1>4, <1>5 DEF Next
<1> QED
  BY <1>6, ConfigSteps DEF StartupInv

\* StartupInv holds of every behaviour of the library's threads.
THEOREM Invariant == Spec => []StartupInv
<1>1. Init => StartupInv
  BY InitInv
<1>2. StartupInv /\ [Next]_vars => StartupInv'
  BY NextInv
<1> QED
  BY <1>1, <1>2, PTL DEF Spec

-----------------------------------------------------------------------------
(* What follows from it *)

\* Every variable of the threads and of the configuration stays in its type; in
\* particular Dlep::mutex is never locked more than twice by its owner.
THEOREM TypeCorrect == Spec => []TypeOK
<1>1. StartupInv => TypeOK
  BY DEF StartupInv, ThreadInv, Advertising, InNested, ThreadTypeOK, LoadInv, TypeOK
<1> QED
  BY <1>1, Invariant, PTL

\* The maps of the protocol configuration agree with each other while and after
\* the document is loaded, whatever it holds (ProtocolConfigImpl).
THEOREM ConfigurationAgrees == Spec => []MapsAgree
<1>1. StartupInv => MapsAgree
  BY LoadInvConsistent DEF StartupInv
<1> QED
  BY <1>1, Invariant, PTL

\* Every data item and sub data item that a definition refers to is defined, and
\* none contains itself (ProtocolConfigImpl).
THEOREM ConfigurationResolves == Spec => []ReferencesResolve
<1>1. StartupInv => ReferencesResolve
  BY LoadInvConsistent DEF StartupInv
<1> QED
  BY <1>1, Invariant, PTL

\* DlepInit returns a service only when the configuration is loaded and the
\* components have started, and nullptr only when no thread is left behind; the
\* thread is gone when terminate() has returned (DlepInit, Dlep::initialize).
THEOREM ServiceIsReady == Spec => []ServiceReady
<1>1. StartupInv => ServiceReady
  BY DEF StartupInv, ThreadInv, Advertising, InNested, Phases, ServiceReady
<1> QED
  BY <1>1, Invariant, PTL

\* A client thread that uses shared data owns Dlep::mutex; so does the library's
\* thread, unless it runs a handler of destination advertisement.
LEMMA UsersHoldMutex ==
  ASSUME StartupInv, NEW s \in Threads, Access(s) # {}
  PROVE  io # "aborted" /\ (mutex.owner = s \/ (s = Io /\ AdvertHandler))
<1> USE StartupAssumption DEF StartupInv, ThreadInv, Threads
<1>1. CASE s = Io
  BY <1>1 DEF Access, AdvertHandler, ThreadTypeOK, Handlers, Locks, SessionHandler, InNested
<1>2. CASE s # Io
  BY <1>2 DEF Access, Locks, Phases
<1> QED
  BY <1>1, <1>2

\* A client thread uses the database of advertised destinations only while it
\* holds the database's mutex; so does the library's thread.
LEMMA DatabaseLocked ==
  ASSUME StartupInv, NEW s \in Threads, AdvertDb \in Access(s)
  PROVE  advert_mutex = s
<1> USE StartupAssumption DEF StartupInv, ThreadInv, Threads
<1>0. io # "aborted"
  BY UsersHoldMutex
<1>1. AdvertDb \notin OpAccess("destination") /\ \A o \in Ops : AdvertDb \notin OpAccess(o)
  BY DEF OpAccess, Ops, AdvertDb, Peers, Queues, LocalPdp, OwnAdvert
<1>2. CASE s = Io
  <2>1. io \in {"handler", "callback"} => handler = "advert"
    BY <1>2 DEF Access, HandlerAccess, ThreadTypeOK, Handlers, AdvertDb, Peers, Queues, LocalPdp,
                OwnAdvert
  <2>2. io = "nested" => DestAdvertEnabled
    BY <1>1, <1>2 DEF Access, BodyAccess, Advertising
  <2>3. io \in {"handler", "nested"}
    BY <1>1, <1>2, <2>1 DEF Access, AdvertLocks
  <2> QED
    BY <1>0, <1>2, <2>1, <2>2, <2>3 DEF AdvertLocks
<1>3. CASE s # Io
  <2>1. s \in Clients /\ op[s] \in Ops
    BY <1>3 DEF ThreadTypeOK
  <2>2. pc[s] \in {"body", "stop"} /\ Advertising(op[s])
    BY <1>1, <1>3, <2>1 DEF Access, BodyAccess
  <2>3. pc[s] # "stop"
    BY <2>1, <2>2 DEF Phases, Advertising
  <2> QED
    BY <1>0, <2>1, <2>2, <2>3 DEF AdvertLocks
<1> QED
  BY <1>2, <1>3

\* A call in the body of which DestAdvert's mutex is held shares no data with a
\* handler of destination advertisement: not with an advertisement that arrives,
\* which waits for that mutex, and sending one reads only what the call leaves
\* alone.
LEMMA DestinationBodyApart ==
  ASSUME StartupInv, AdvertHandler, NEW c \in Clients, advert_mutex = c
  PROVE  Raced(c, Io) = {} /\ Raced(Io, c) = {}
<1> USE StartupAssumption DEF StartupInv, ThreadInv, AdvertHandler
<1>1. c # Io /\ pc[c] = "body" /\ op[c] = "destination"
  BY DEF AdvertLocks, Advertising
<1>2. handler = "advert_send"
  BY <1>1 DEF AdvertLocks
<1>3. Access(Io) = {OwnAdvert(FALSE)}
  BY <1>2 DEF Access, HandlerAccess
<1>4. Access(c) \subseteq {Peers(FALSE), Queues, LocalPdp(TRUE), AdvertDb}
  BY <1>1 DEF Access, BodyAccess, OpAccess
<1> QED
  BY <1>3, <1>4 DEF Raced, OwnAdvert, Peers, Queues, LocalPdp, AdvertDb

\* The database of advertised destinations is never used by two threads at once;
\* other data is raced for only while a handler of destination advertisement
\* runs, and by no call that holds the database's mutex (the locking in
\* DlepServiceImpl, Peer, PeerDiscovery and DestAdvert).
THEOREM RacesConfined == Spec => []RacesOnlyWithAdvert
<1>1. ASSUME StartupInv, NEW s \in Threads, NEW t \in Threads, s # t, Raced(s, t) # {}
      PROVE  /\ AdvertHandler /\ advert_mutex \in {None, Io}
             /\ "advert_db" \notin Raced(s, t)
  <2>1. Access(s) # {} /\ Access(t) # {}
    BY <1>1 DEF Raced
  <2>2. AdvertHandler /\ Io \in {s, t}
    BY <1>1, <2>1, UsersHoldMutex
  <2>3. PICK c \in {s, t} : c # Io
    BY <1>1
  <2>4. c \in Clients /\ mutex.owner = c /\ io # "aborted"
    BY <1>1, <2>1, <2>3, UsersHoldMutex DEF Threads
  <2>5. ASSUME advert_mutex \notin {None, Io} PROVE FALSE
    <3>1. advert_mutex \in Clients
      BY <1>1, <2>5 DEF StartupInv, ThreadInv, ThreadTypeOK, Threads
    <3>2. mutex.owner = advert_mutex
      BY <1>1, <2>4, <3>1 DEF StartupInv, ThreadInv, AdvertLocks, Locks
    <3>3. Raced(c, Io) = {} /\ Raced(Io, c) = {}
      BY <1>1, <2>2, <2>4, <3>2, DestinationBodyApart
    <3> QED
      BY <1>1, <2>2, <2>3, <3>3
  <2>6. ASSUME "advert_db" \in Raced(s, t) PROVE FALSE
    <3>1. PICK a \in Access(s), b \in Access(t) : a.var = "advert_db" /\ b.var = "advert_db"
      BY <2>6 DEF Raced
    <3>2. \A x \in Threads : \A y \in Access(x) : y.var = "advert_db" => y = AdvertDb
      <4> DEFINE All == {AdvertDb, Queues} \cup {Peers(w) : w \in BOOLEAN}
                        \cup {LocalPdp(w) : w \in BOOLEAN} \cup {OwnAdvert(w) : w \in BOOLEAN}
      <4>1. \A y \in All : y.var = "advert_db" => y = AdvertDb
        BY DEF AdvertDb, Queues, Peers, LocalPdp, OwnAdvert
      <4>2. \A o \in Ops : OpAccess(o) \subseteq All /\ BodyAccess(o) \subseteq All
        BY DEF OpAccess, BodyAccess, Ops
      <4>3. HandlerAccess(handler) \subseteq All
        BY <1>1 DEF HandlerAccess, Handlers, StartupInv, ThreadInv, ThreadTypeOK
      <4>4. \A x \in Threads : Access(x) \subseteq All
        BY <1>1, <4>2, <4>3 DEF Access, Threads, Ops, StartupInv, ThreadInv, ThreadTypeOK
      <4> QED
        BY <4>1, <4>4
    <3>3. AdvertDb \in Access(s) /\ AdvertDb \in Access(t)
      BY <1>1, <3>1, <3>2
    <3> QED
      BY <1>1, <3>3, DatabaseLocked
  <2> QED
    BY <2>2, <2>5, <2>6
<1>2. StartupInv => RacesOnlyWithAdvert
  BY <1>1 DEF RacesOnlyWithAdvert
<1> QED
  BY <1>2, Invariant, PTL
=============================================================================
