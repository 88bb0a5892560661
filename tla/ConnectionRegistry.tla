-------------------------- MODULE ConnectionRegistry --------------------------
(***************************************************************************)
(* backend/app/providers/connection_registry.py: one lazily opened DB-API  *)
(* connection per (server, database), shared by request threads, pool      *)
(* workers and probes.  This module models the threads that use one        *)
(* database: the locks and pool entries of different databases are         *)
(* disjoint, and the registry-wide _lock only guards sections that do not  *)
(* block, each of which is one step here.                                  *)
(*                                                                         *)
(* A pool entry is named by its connection: _PooledConnection holds one    *)
(* connection and one lock, and neither is ever replaced.                  *)
(***************************************************************************)
EXTENDS FiniteSets

CONSTANTS Threads,  (* threads calling connection() for this database      *)
          Conns,    (* connections: a bound on how often one is opened     *)
          None      (* "no connection", "no thread"                        *)

ASSUME Assumptions == None \notin Conns \cup Threads

VARIABLES
  pool,        (* the connection in _pools[key], or None                   *)
  opened,      (* connections that were ever opened                        *)
  closed,      (* connections on which close() was called                  *)
  broken,      (* connections the server has dropped                       *)
  keyLock,     (* the thread that holds _key_locks[key], or None           *)
  pooledLock,  (* pooledLock[c]: the thread that holds c's pool lock       *)
  pc,          (* where each thread is inside connection()                 *)
  conn,        (* conn[t]: what connect() returned to t                    *)
  entry,       (* entry[t]: the pool entry t looked up                     *)
  down         (* close_all() has run: the process is shutting down        *)

connVars == <<pool, opened, closed, broken>>
vars == <<connVars, keyLock, pooledLock, pc, conn, entry, down>>

-----------------------------------------------------------------------------
Usable(c) == c \notin closed \cup broken
Open == opened \ closed

Goto(t, label) == pc' = [pc EXCEPT ![t] = label]

KeyLockFree == keyLock = None

(* Mutant of PooledLockFree: neither the check nor the query locks.        *)
PooledLockIgnored(c) == TRUE
PooledLockFree(c) == pooledLock[c] = None

Acquire(c, t) == pooledLock' = [pooledLock EXCEPT ![c] = t]
Release(c) == pooledLock' = [pooledLock EXCEPT ![c] = None]

(* Mutant of ReleaseAfterFailure: the failed check keeps the entry's lock. *)
KeepAfterFailure(c) == UNCHANGED pooledLock
ReleaseAfterFailure(c) == Release(c)

(* Mutant of ClosePool: the entry is dropped but its connection is not     *)
(* closed.                                                                 *)
ForgetPool == pool' = None /\ UNCHANGED closed

(* _close_pool_unlocked                                                    *)
ClosePool ==
  /\ pool' = None
  /\ closed' = closed \cup ({pool} \ {None})

-----------------------------------------------------------------------------
Init ==
  /\ pool = None
  /\ opened = {} /\ closed = {} /\ broken = {}
  /\ keyLock = None
  /\ pooledLock = [c \in Conns |-> None]
  /\ pc = [t \in Threads |-> "idle"]
  /\ conn = [t \in Threads |-> None]
  /\ entry = [t \in Threads |-> None]
  /\ down = FALSE

(* connection() calls connect(), which waits for the database's key lock.  *)
Call(t) ==
  /\ pc[t] = "idle" /\ ~down
  /\ Goto(t, "lockKey")
  /\ UNCHANGED <<connVars, keyLock, pooledLock, conn, entry, down>>

LockKey(t) ==
  /\ pc[t] = "lockKey"
  /\ KeyLockFree
  /\ keyLock' = t
  /\ Goto(t, "lookup")
  /\ UNCHANGED <<connVars, pooledLock, conn, entry, down>>

Lookup(t) ==
  /\ pc[t] = "lookup"
  /\ entry' = [entry EXCEPT ![t] = pool]
  /\ Goto(t, IF pool = None THEN "open" ELSE "lockPooled")
  /\ UNCHANGED <<connVars, keyLock, pooledLock, conn, down>>

LockPooled(t) ==
  /\ pc[t] = "lockPooled"
  /\ PooledLockFree(entry[t])
  /\ Acquire(entry[t], t)
  /\ Goto(t, "check")
  /\ UNCHANGED <<connVars, keyLock, conn, entry, down>>

(* SELECT 1 answers: connect() returns the pooled connection.              *)
CheckPasses(t) ==
  /\ pc[t] = "check"
  /\ Usable(entry[t])
  /\ conn' = [conn EXCEPT ![t] = entry[t]]
  /\ Release(entry[t])
  /\ keyLock' = None
  /\ Goto(t, "find")
  /\ UNCHANGED <<connVars, entry, down>>

CheckFails(t) ==
  /\ pc[t] = "check"
  /\ ~Usable(entry[t])
  /\ ClosePool
  /\ ReleaseAfterFailure(entry[t])
  /\ Goto(t, "open")
  /\ UNCHANGED <<opened, broken, keyLock, conn, entry, down>>

(* pyodbc.connect                                                          *)
OpenSucceeds(t, c) ==
  /\ pc[t] = "open"
  /\ c \notin opened
  /\ opened' = opened \cup {c}
  /\ conn' = [conn EXCEPT ![t] = c]
  /\ Goto(t, "install")
  /\ UNCHANGED <<pool, closed, broken, keyLock, pooledLock, entry, down>>

OpenFails(t) ==
  /\ pc[t] = "open"
  /\ keyLock' = None
  /\ entry' = [entry EXCEPT ![t] = None]
  /\ Goto(t, "idle")
  /\ UNCHANGED <<connVars, pooledLock, conn, down>>

Install(t) ==
  /\ pc[t] = "install"
  /\ pool' = conn[t]
  /\ keyLock' = None
  /\ Goto(t, "find")
  /\ UNCHANGED <<opened, closed, broken, pooledLock, conn, entry, down>>

(* connection() looks the entry up again, to lock it: KeyError when it is  *)
(* gone.                                                                   *)
FindNothing(t) ==
  /\ pc[t] = "find"
  /\ pool = None
  /\ conn' = [conn EXCEPT ![t] = None]
  /\ entry' = [entry EXCEPT ![t] = None]
  /\ Goto(t, "idle")
  /\ UNCHANGED <<connVars, keyLock, pooledLock, down>>

Find(t) ==
  /\ pc[t] = "find"
  /\ pool # None
  /\ entry' = [entry EXCEPT ![t] = pool]
  /\ Goto(t, "lockUse")
  /\ UNCHANGED <<connVars, keyLock, pooledLock, conn, down>>

LockUse(t) ==
  /\ pc[t] = "lockUse"
  /\ PooledLockFree(entry[t])
  /\ Acquire(entry[t], t)
  /\ Goto(t, "use")
  /\ UNCHANGED <<connVars, keyLock, conn, entry, down>>

(* The caller's block ends, with or without an exception.                  *)
EndUse(t) ==
  /\ pc[t] = "use"
  /\ Release(entry[t])
  /\ conn' = [conn EXCEPT ![t] = None]
  /\ entry' = [entry EXCEPT ![t] = None]
  /\ Goto(t, "idle")
  /\ UNCHANGED <<connVars, keyLock, down>>

(* The server or the network drops a connection.                           *)
Break(c) ==
  /\ c \in Open \ broken
  /\ broken' = broken \cup {c}
  /\ UNCHANGED <<pool, opened, closed, keyLock, pooledLock, pc, conn, entry, down>>

(* lifespan: close_all() once every request has been answered.             *)
CloseAll ==
  /\ ~down
  /\ \A t \in Threads : pc[t] = "idle"
  /\ ClosePool
  /\ keyLock' = None
  /\ down' = TRUE
  /\ UNCHANGED <<opened, broken, pooledLock, pc, conn, entry>>

(* The process is gone.                                                    *)
Exited == down /\ UNCHANGED vars

-----------------------------------------------------------------------------
ConnectStep(t) ==
  \/ LockKey(t) \/ Lookup(t) \/ LockPooled(t) \/ CheckPasses(t) \/ CheckFails(t)
  \/ \E c \in Conns : OpenSucceeds(t, c)
  \/ OpenFails(t) \/ Install(t)

UseStep(t) == FindNothing(t) \/ Find(t) \/ LockUse(t) \/ EndUse(t)

Next ==
  \/ \E t \in Threads : Call(t) \/ ConnectStep(t) \/ UseStep(t)
  \/ \E c \in Conns : Break(c)
  \/ CloseAll
  \/ Exited

Spec == Init /\ [][Next]_vars

(* Threads are scheduled and SQL calls end: connect() sets a 15 s login    *)
(* and a 60 s query timeout.  Weak fairness: threading.Lock promises no    *)
(* order among the threads that wait for it.                               *)
Fairness == \A t \in Threads : WF_vars(ConnectStep(t)) /\ WF_vars(UseStep(t))

FairSpec == Spec /\ Fairness

-----------------------------------------------------------------------------
Connecting == {"lookup", "lockPooled", "check", "open", "install"}

TypeOK ==
  /\ pool \in Conns \cup {None}
  /\ opened \subseteq Conns /\ closed \subseteq opened /\ broken \subseteq opened
  /\ keyLock \in Threads \cup {None}
  /\ pooledLock \in [Conns -> Threads \cup {None}]
  /\ pc \in [Threads -> Connecting \cup {"idle", "lockKey", "find", "lockUse", "use"}]
  /\ conn \in [Threads -> Conns \cup {None}]
  /\ entry \in [Threads -> Conns \cup {None}]
  /\ down \in BOOLEAN

(* t may be executing a statement on connection c.                         *)
Executes(t, c) ==
  \/ pc[t] = "check" /\ entry[t] = c
  \/ pc[t] = "use" /\ conn[t] = c

(* "Exclusive DB-API access": two threads never execute on one open        *)
(* connection at the same time.                                            *)
OpenConnsAreExclusive ==
  \A c \in Open, t, u \in Threads : Executes(t, c) /\ Executes(u, c) => t = u

(* "Reuses one connection per (server, database)", and loses none: an open *)
(* connection is the pooled one, or its opener is about to pool it; after  *)
(* close_all nothing stays open.                                           *)
NoConnectionLeaks ==
  /\ \A c \in Open : c = pool \/ \E t \in Threads : pc[t] = "install" /\ conn[t] = c
  /\ \A c, d \in Open : c = d
  /\ down => Open = {}

(* A thread that queries an open connection keeps it open until it is      *)
(* done: no other thread closes it under its feet.                         *)
NeverClosedInUse ==
  [][\A t \in Threads :
       pc[t] = "use" /\ conn[t] \in Open => conn[t] \in Open']_vars

(* Every lock that is taken is released, although waiting is unfair: the   *)
(* holder of the key lock waits for the pooled connection, but nobody new  *)
(* can come to use that connection meanwhile.                              *)
LocksAreReleased ==
  \A t \in Threads :
    /\ keyLock = t ~> keyLock # t
    /\ \A c \in Conns : pooledLock[c] = t ~> pooledLock[c] # t
==============================================================================
