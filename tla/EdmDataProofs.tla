--------------------------- MODULE EdmDataProofs ---------------------------
(***************************************************************************)
(* Theorems of the two components behind the EDM databases: the registry   *)
(* of the connections to them, and the files that say which treaty has     *)
(* which database.                                                         *)
(***************************************************************************)
EXTENDS ConnectionRegistry, EdmLinkage, FiniteSetTheorems, TLAPS

(***************************************************************************)
(* ConnectionRegistry, for any number of threads and any number of times   *)
(* the connection is reopened.                                             *)
(***************************************************************************)
Serving == {"find", "lockUse", "use"}

(* The key lock is held by the one thread inside connect().                *)
KeyLockOwner == \A t \in Threads : pc[t] \in Connecting <=> keyLock = t

(* An entry's lock is held by the thread that checks or uses it.           *)
EntryLockOwner ==
  \A t \in Threads :
    /\ pc[t] \in {"lockPooled", "check", "lockUse", "use"} => entry[t] \in Conns
    /\ pc[t] \in {"check", "use"} => pooledLock[entry[t]] = t

(* What the thread inside connect() knows of the pool.                     *)
ConnectorsView ==
  \A t \in Threads :
    /\ pc[t] \in {"lockPooled", "check"} => pool = entry[t]
    /\ pc[t] \in {"open", "install"} => pool = None
    /\ pc[t] = "install" => conn[t] \in Open

(* What a thread that connect() has served knows of its connection: while  *)
(* it is open it is the pooled one, and the entry found for it is its own. *)
ServedView ==
  \A t \in Threads :
    /\ pc[t] \in Serving => conn[t] \in opened
    /\ pc[t] \in Serving /\ conn[t] \in Open => conn[t] = pool
    /\ pc[t] \in {"lockUse", "use"} /\ conn[t] \in Open => entry[t] = conn[t]

PoolIsOpen == pool # None => pool \in Open

OpenIsPooled ==
  \A c \in Open : c = pool \/ \E t \in Threads : pc[t] = "install" /\ conn[t] = c

DownIsIdle == down => pool = None /\ \A t \in Threads : pc[t] = "idle"

PoolInv ==
  /\ TypeOK /\ KeyLockOwner /\ EntryLockOwner /\ ConnectorsView /\ ServedView
  /\ PoolIsOpen /\ OpenIsPooled /\ DownIsIdle

-----------------------------------------------------------------------------
(* PoolInv holds initially and is preserved by every step.                 *)
LEMMA InitPoolInv == Init => PoolInv
  BY Assumptions
  DEF Init, PoolInv, TypeOK, KeyLockOwner, EntryLockOwner, ConnectorsView,
      ServedView, PoolIsOpen, OpenIsPooled, DownIsIdle, Connecting, Serving, Open

LEMMA NextPoolInv == PoolInv /\ [Next]_vars => PoolInv'
<1> SUFFICES ASSUME PoolInv, [Next]_vars PROVE PoolInv'
  OBVIOUS
<1>i. /\ TypeOK /\ KeyLockOwner /\ EntryLockOwner /\ ConnectorsView /\ ServedView
      /\ PoolIsOpen /\ OpenIsPooled /\ DownIsIdle
  BY DEF PoolInv
<1>n. None \notin Conns /\ None \notin Threads
  BY Assumptions
<1>1. ASSUME NEW t \in Threads, Call(t) PROVE PoolInv'
  <2>1. TypeOK'
    BY <1>1, <1>i, <1>n
    DEF TypeOK, EntryLockOwner, PoolIsOpen, Connecting, Serving, Open, Call, Goto,
        connVars
  <2>2. KeyLockOwner'
    BY <1>1, <1>i, <1>n
    DEF KeyLockOwner, DownIsIdle, TypeOK, Connecting, Serving, Open, Call, Goto,
        connVars
  <2>3. EntryLockOwner'
    BY <1>1, <1>i, <1>n
    DEF EntryLockOwner, ConnectorsView, PoolIsOpen, TypeOK, Connecting, Serving,
        Open, Call, Goto, connVars
  <2>4. ConnectorsView'
    BY <1>1, <1>i, <1>n
    DEF KeyLockOwner, ConnectorsView, PoolIsOpen, TypeOK, Connecting, Serving,
        Open, Call, Goto, connVars
  <2>5. ServedView'
    BY <1>1, <1>i, <1>n
    DEF EntryLockOwner, ConnectorsView, ServedView, PoolIsOpen, KeyLockOwner,
        TypeOK, Connecting, Serving, Open, Call, Goto, connVars
  <2>6. PoolIsOpen'
    BY <1>1, <1>i, <1>n
    DEF ConnectorsView, PoolIsOpen, TypeOK, Connecting, Serving, Open, Call, Goto,
        connVars
  <2>7. OpenIsPooled'
    BY <1>1, <1>i, <1>n
    DEF OpenIsPooled, ConnectorsView, KeyLockOwner, TypeOK, Connecting, Serving,
        Open, Call, Goto, connVars
  <2>8. DownIsIdle'
    BY <1>1, <1>i, <1>n
    DEF DownIsIdle, TypeOK, Connecting, Serving, Open, Call, Goto, connVars
  <2>. QED
    BY <2>1, <2>2, <2>3, <2>4, <2>5, <2>6, <2>7, <2>8 DEF PoolInv
<1>2. ASSUME NEW t \in Threads, LockKey(t) PROVE PoolInv'
  <2>1. TypeOK'
    BY <1>2, <1>i, <1>n
    DEF TypeOK, EntryLockOwner, PoolIsOpen, Connecting, Serving, Open, LockKey,
        KeyLockFree, Goto, connVars
  <2>2. KeyLockOwner'
    BY <1>2, <1>i, <1>n
    DEF KeyLockOwner, DownIsIdle, TypeOK, Connecting, Serving, Open, LockKey,
        KeyLockFree, Goto, connVars
  <2>3. EntryLockOwner'
    BY <1>2, <1>i, <1>n
    DEF EntryLockOwner, ConnectorsView, PoolIsOpen, TypeOK, Connecting, Serving,
        Open, LockKey, KeyLockFree, Goto, connVars
  <2>4. ConnectorsView'
    BY <1>2, <1>i, <1>n
    DEF KeyLockOwner, ConnectorsView, PoolIsOpen, TypeOK, Connecting, Serving,
        Open, LockKey, KeyLockFree, Goto, connVars
  <2>5. ServedView'
    BY <1>2, <1>i, <1>n
    DEF EntryLockOwner, ConnectorsView, ServedView, PoolIsOpen, KeyLockOwner,
        TypeOK, Connecting, Serving, Open, LockKey, KeyLockFree, Goto, connVars
  <2>6. PoolIsOpen'
    BY <1>2, <1>i, <1>n
    DEF ConnectorsView, PoolIsOpen, TypeOK, Connecting, Serving, Open, LockKey,
        KeyLockFree, Goto, connVars
  <2>7. OpenIsPooled'
    BY <1>2, <1>i, <1>n
    DEF OpenIsPooled, ConnectorsView, KeyLockOwner, TypeOK, Connecting, Serving,
        Open, LockKey, KeyLockFree, Goto, connVars
  <2>8. DownIsIdle'
    BY <1>2, <1>i, <1>n
    DEF DownIsIdle, TypeOK, Connecting, Serving, Open, LockKey, KeyLockFree, Goto,
        connVars
  <2>. QED
    BY <2>1, <2>2, <2>3, <2>4, <2>5, <2>6, <2>7, <2>8 DEF PoolInv
<1>3. ASSUME NEW t \in Threads, Lookup(t) PROVE PoolInv'
  <2>1. TypeOK'
    BY <1>3, <1>i, <1>n
    DEF TypeOK, EntryLockOwner, PoolIsOpen, Connecting, Serving, Open, Lookup,
        Goto, connVars
  <2>2. KeyLockOwner'
    BY <1>3, <1>i, <1>n
    DEF KeyLockOwner, DownIsIdle, TypeOK, Connecting, Serving, Open, Lookup, Goto,
        connVars
  <2>3. EntryLockOwner'
    BY <1>3, <1>i, <1>n
    DEF EntryLockOwner, ConnectorsView, PoolIsOpen, TypeOK, Connecting, Serving,
        Open, Lookup, Goto, connVars
  <2>4. ConnectorsView'
    BY <1>3, <1>i, <1>n
    DEF KeyLockOwner, ConnectorsView, PoolIsOpen, TypeOK, Connecting, Serving,
        Open, Lookup, Goto, connVars
  <2>5. ServedView'
    BY <1>3, <1>i, <1>n
    DEF EntryLockOwner, ConnectorsView, ServedView, PoolIsOpen, KeyLockOwner,
        TypeOK, Connecting, Serving, Open, Lookup, Goto, connVars
  <2>6. PoolIsOpen'
    BY <1>3, <1>i, <1>n
    DEF ConnectorsView, PoolIsOpen, TypeOK, Connecting, Serving, Open, Lookup,
        Goto, connVars
  <2>7. OpenIsPooled'
    BY <1>3, <1>i, <1>n
    DEF OpenIsPooled, ConnectorsView, KeyLockOwner, TypeOK, Connecting, Serving,
        Open, Lookup, Goto, connVars
  <2>8. DownIsIdle'
    BY <1>3, <1>i, <1>n
    DEF DownIsIdle, TypeOK, Connecting, Serving, Open, Lookup, Goto, connVars
  <2>. QED
    BY <2>1, <2>2, <2>3, <2>4, <2>5, <2>6, <2>7, <2>8 DEF PoolInv
<1>4. ASSUME NEW t \in Threads, LockPooled(t) PROVE PoolInv'
  <2>1. TypeOK'
    BY <1>4, <1>i, <1>n
    DEF TypeOK, EntryLockOwner, PoolIsOpen, Connecting, Serving, Open, LockPooled,
        PooledLockFree, Acquire, Goto, connVars
  <2>2. KeyLockOwner'
    BY <1>4, <1>i, <1>n
    DEF KeyLockOwner, DownIsIdle, TypeOK, Connecting, Serving, Open, LockPooled,
        PooledLockFree, Acquire, Goto, connVars
  <2>3. EntryLockOwner'
    BY <1>4, <1>i, <1>n
    DEF EntryLockOwner, ConnectorsView, PoolIsOpen, TypeOK, Connecting, Serving,
        Open, LockPooled, PooledLockFree, Acquire, Goto, connVars
  <2>4. ConnectorsView'
    BY <1>4, <1>i, <1>n
    DEF KeyLockOwner, ConnectorsView, PoolIsOpen, TypeOK, Connecting, Serving,
        Open, LockPooled, PooledLockFree, Acquire, Goto, connVars
  <2>5. ServedView'
    BY <1>4, <1>i, <1>n
    DEF EntryLockOwner, ConnectorsView, ServedView, PoolIsOpen, KeyLockOwner,
        TypeOK, Connecting, Serving, Open, LockPooled, PooledLockFree, Acquire,
        Goto, connVars
  <2>6. PoolIsOpen'
    BY <1>4, <1>i, <1>n
    DEF ConnectorsView, PoolIsOpen, TypeOK, Connecting, Serving, Open, LockPooled,
        PooledLockFree, Acquire, Goto, connVars
  <2>7. OpenIsPooled'
    BY <1>4, <1>i, <1>n
    DEF OpenIsPooled, ConnectorsView, KeyLockOwner, TypeOK, Connecting, Serving,
        Open, LockPooled, PooledLockFree, Acquire, Goto, connVars
  <2>8. DownIsIdle'
    BY <1>4, <1>i, <1>n
    DEF DownIsIdle, TypeOK, Connecting, Serving, Open, LockPooled, PooledLockFree,
        Acquire, Goto, connVars
  <2>. QED
    BY <2>1, <2>2, <2>3, <2>4, <2>5, <2>6, <2>7, <2>8 DEF PoolInv
<1>5. ASSUME NEW t \in Threads, CheckPasses(t) PROVE PoolInv'
  <2>1. TypeOK'
    BY <1>5, <1>i, <1>n
    DEF TypeOK, EntryLockOwner, PoolIsOpen, Connecting, Serving, Open, CheckPasses,
        Usable, Release, Goto, connVars
  <2>2. KeyLockOwner'
    BY <1>5, <1>i, <1>n
    DEF KeyLockOwner, DownIsIdle, TypeOK, Connecting, Serving, Open, CheckPasses,
        Usable, Release, Goto, connVars
  <2>3. EntryLockOwner'
    BY <1>5, <1>i, <1>n
    DEF EntryLockOwner, ConnectorsView, PoolIsOpen, TypeOK, Connecting, Serving,
        Open, CheckPasses, Usable, Release, Goto, connVars
  <2>4. ConnectorsView'
    BY <1>5, <1>i, <1>n
    DEF KeyLockOwner, ConnectorsView, PoolIsOpen, TypeOK, Connecting, Serving,
        Open, CheckPasses, Usable, Release, Goto, connVars
  <2>5. ServedView'
    BY <1>5, <1>i, <1>n
    DEF EntryLockOwner, ConnectorsView, ServedView, PoolIsOpen, KeyLockOwner,
        TypeOK, Connecting, Serving, Open, CheckPasses, Usable, Release, Goto,
        connVars
  <2>6. PoolIsOpen'
    BY <1>5, <1>i, <1>n
    DEF ConnectorsView, PoolIsOpen, TypeOK, Connecting, Serving, Open, CheckPasses,
        Usable, Release, Goto, connVars
  <2>7. OpenIsPooled'
    BY <1>5, <1>i, <1>n
    DEF OpenIsPooled, ConnectorsView, KeyLockOwner, TypeOK, Connecting, Serving,
        Open, CheckPasses, Usable, Release, Goto, connVars
  <2>8. DownIsIdle'
    BY <1>5, <1>i, <1>n
    DEF DownIsIdle, TypeOK, Connecting, Serving, Open, CheckPasses, Usable,
        Release, Goto, connVars
  <2>. QED
    BY <2>1, <2>2, <2>3, <2>4, <2>5, <2>6, <2>7, <2>8 DEF PoolInv
<1>6. ASSUME NEW t \in Threads, CheckFails(t) PROVE PoolInv'
  <2>1. TypeOK'
    BY <1>6, <1>i, <1>n
    DEF TypeOK, EntryLockOwner, PoolIsOpen, Connecting, Serving, Open, CheckFails,
        ClosePool, ReleaseAfterFailure, Release, Goto
  <2>2. KeyLockOwner'
    BY <1>6, <1>i, <1>n
    DEF KeyLockOwner, DownIsIdle, TypeOK, Connecting, Serving, Open, CheckFails,
        ClosePool, ReleaseAfterFailure, Release, Goto
  <2>3. EntryLockOwner'
    BY <1>6, <1>i, <1>n
    DEF EntryLockOwner, ConnectorsView, PoolIsOpen, TypeOK, Connecting, Serving,
        Open, CheckFails, ClosePool, ReleaseAfterFailure, Release, Goto
  <2>4. ConnectorsView'
    BY <1>6, <1>i, <1>n
    DEF KeyLockOwner, ConnectorsView, PoolIsOpen, TypeOK, Connecting, Serving,
        Open, CheckFails, ClosePool, ReleaseAfterFailure, Release, Goto
  <2>5. ServedView'
    BY <1>6, <1>i, <1>n
    DEF EntryLockOwner, ConnectorsView, ServedView, PoolIsOpen, KeyLockOwner,
        TypeOK, Connecting, Serving, Open, CheckFails, ClosePool,
        ReleaseAfterFailure, Release, Goto
  <2>6. PoolIsOpen'
    BY <1>6, <1>i, <1>n
    DEF ConnectorsView, PoolIsOpen, TypeOK, Connecting, Serving, Open, CheckFails,
        ClosePool, ReleaseAfterFailure, Release, Goto
  <2>7. OpenIsPooled'
    BY <1>6, <1>i, <1>n
    DEF OpenIsPooled, ConnectorsView, KeyLockOwner, TypeOK, Connecting, Serving,
        Open, CheckFails, ClosePool, ReleaseAfterFailure, Release, Goto
  <2>8. DownIsIdle'
    BY <1>6, <1>i, <1>n
    DEF DownIsIdle, TypeOK, Connecting, Serving, Open, CheckFails, ClosePool,
        ReleaseAfterFailure, Release, Goto
  <2>. QED
    BY <2>1, <2>2, <2>3, <2>4, <2>5, <2>6, <2>7, <2>8 DEF PoolInv
<1>7. ASSUME NEW t \in Threads, NEW c \in Conns, OpenSucceeds(t, c) PROVE PoolInv'
  <2>1. TypeOK'
    BY <1>7, <1>i, <1>n
    DEF TypeOK, EntryLockOwner, PoolIsOpen, Connecting, Serving, Open,
        OpenSucceeds, Goto
  <2>2. KeyLockOwner'
    BY <1>7, <1>i, <1>n
    DEF KeyLockOwner, DownIsIdle, TypeOK, Connecting, Serving, Open, OpenSucceeds,
        Goto
  <2>3. EntryLockOwner'
    BY <1>7, <1>i, <1>n
    DEF EntryLockOwner, ConnectorsView, PoolIsOpen, TypeOK, Connecting, Serving,
        Open, OpenSucceeds, Goto
  <2>4. ConnectorsView'
    BY <1>7, <1>i, <1>n
    DEF KeyLockOwner, ConnectorsView, PoolIsOpen, TypeOK, Connecting, Serving,
        Open, OpenSucceeds, Goto
  <2>5. ServedView'
    BY <1>7, <1>i, <1>n
    DEF EntryLockOwner, ConnectorsView, ServedView, PoolIsOpen, KeyLockOwner,
        TypeOK, Connecting, Serving, Open, OpenSucceeds, Goto
  <2>6. PoolIsOpen'
    BY <1>7, <1>i, <1>n
    DEF ConnectorsView, PoolIsOpen, TypeOK, Connecting, Serving, Open,
        OpenSucceeds, Goto
  <2>7. OpenIsPooled'
    BY <1>7, <1>i, <1>n
    DEF OpenIsPooled, ConnectorsView, KeyLockOwner, TypeOK, Connecting, Serving,
        Open, OpenSucceeds, Goto
  <2>8. DownIsIdle'
    BY <1>7, <1>i, <1>n
    DEF DownIsIdle, TypeOK, Connecting, Serving, Open, OpenSucceeds, Goto
  <2>. QED
    BY <2>1, <2>2, <2>3, <2>4, <2>5, <2>6, <2>7, <2>8 DEF PoolInv
<1>8. ASSUME NEW t \in Threads, OpenFails(t) PROVE PoolInv'
  <2>1. TypeOK'
    BY <1>8, <1>i, <1>n
    DEF TypeOK, EntryLockOwner, PoolIsOpen, Connecting, Serving, Open, OpenFails,
        Goto, connVars
  <2>2. KeyLockOwner'
    BY <1>8, <1>i, <1>n
    DEF KeyLockOwner, DownIsIdle, TypeOK, Connecting, Serving, Open, OpenFails,
        Goto, connVars
  <2>3. EntryLockOwner'
    BY <1>8, <1>i, <1>n
    DEF EntryLockOwner, ConnectorsView, PoolIsOpen, TypeOK, Connecting, Serving,
        Open, OpenFails, Goto, connVars
  <2>4. ConnectorsView'
    BY <1>8, <1>i, <1>n
    DEF KeyLockOwner, ConnectorsView, PoolIsOpen, TypeOK, Connecting, Serving,
        Open, OpenFails, Goto, connVars
  <2>5. ServedView'
    BY <1>8, <1>i, <1>n
    DEF EntryLockOwner, ConnectorsView, ServedView, PoolIsOpen, KeyLockOwner,
        TypeOK, Connecting, Serving, Open, OpenFails, Goto, connVars
  <2>6. PoolIsOpen'
    BY <1>8, <1>i, <1>n
    DEF ConnectorsView, PoolIsOpen, TypeOK, Connecting, Serving, Open, OpenFails,
        Goto, connVars
  <2>7. OpenIsPooled'
    BY <1>8, <1>i, <1>n
    DEF OpenIsPooled, ConnectorsView, KeyLockOwner, TypeOK, Connecting, Serving,
        Open, OpenFails, Goto, connVars
  <2>8. DownIsIdle'
    BY <1>8, <1>i, <1>n
    DEF DownIsIdle, TypeOK, Connecting, Serving, Open, OpenFails, Goto, connVars
  <2>. QED
    BY <2>1, <2>2, <2>3, <2>4, <2>5, <2>6, <2>7, <2>8 DEF PoolInv
<1>9. ASSUME NEW t \in Threads, Install(t) PROVE PoolInv'
  <2>1. TypeOK'
    BY <1>9, <1>i, <1>n
    DEF TypeOK, EntryLockOwner, PoolIsOpen, Connecting, Serving, Open, Install, Goto
  <2>2. KeyLockOwner'
    BY <1>9, <1>i, <1>n
    DEF KeyLockOwner, DownIsIdle, TypeOK, Connecting, Serving, Open, Install, Goto
  <2>3. EntryLockOwner'
    BY <1>9, <1>i, <1>n
    DEF EntryLockOwner, ConnectorsView, PoolIsOpen, TypeOK, Connecting, Serving,
        Open, Install, Goto
  <2>4. ConnectorsView'
    BY <1>9, <1>i, <1>n
    DEF KeyLockOwner, ConnectorsView, PoolIsOpen, TypeOK, Connecting, Serving,
        Open, Install, Goto
  <2>5. ServedView'
    BY <1>9, <1>i, <1>n
    DEF EntryLockOwner, ConnectorsView, ServedView, PoolIsOpen, KeyLockOwner,
        TypeOK, Connecting, Serving, Open, Install, Goto
  <2>6. PoolIsOpen'
    BY <1>9, <1>i, <1>n
    DEF ConnectorsView, PoolIsOpen, TypeOK, Connecting, Serving, Open, Install, Goto
  <2>7. OpenIsPooled'
    BY <1>9, <1>i, <1>n
    DEF OpenIsPooled, ConnectorsView, KeyLockOwner, TypeOK, Connecting, Serving,
        Open, Install, Goto
  <2>8. DownIsIdle'
    BY <1>9, <1>i, <1>n
    DEF DownIsIdle, TypeOK, Connecting, Serving, Open, Install, Goto
  <2>. QED
    BY <2>1, <2>2, <2>3, <2>4, <2>5, <2>6, <2>7, <2>8 DEF PoolInv
<1>10. ASSUME NEW t \in Threads, FindNothing(t) PROVE PoolInv'
  <2>1. TypeOK'
    BY <1>10, <1>i, <1>n
    DEF TypeOK, EntryLockOwner, PoolIsOpen, Connecting, Serving, Open, FindNothing,
        Goto, connVars
  <2>2. KeyLockOwner'
    BY <1>10, <1>i, <1>n
    DEF KeyLockOwner, DownIsIdle, TypeOK, Connecting, Serving, Open, FindNothing,
        Goto, connVars
  <2>3. EntryLockOwner'
    BY <1>10, <1>i, <1>n
    DEF EntryLockOwner, ConnectorsView, PoolIsOpen, TypeOK, Connecting, Serving,
        Open, FindNothing, Goto, connVars
  <2>4. ConnectorsView'
    BY <1>10, <1>i, <1>n
    DEF KeyLockOwner, ConnectorsView, PoolIsOpen, TypeOK, Connecting, Serving,
        Open, FindNothing, Goto, connVars
  <2>5. ServedView'
    BY <1>10, <1>i, <1>n
    DEF EntryLockOwner, ConnectorsView, ServedView, PoolIsOpen, KeyLockOwner,
        TypeOK, Connecting, Serving, Open, FindNothing, Goto, connVars
  <2>6. PoolIsOpen'
    BY <1>10, <1>i, <1>n
    DEF ConnectorsView, PoolIsOpen, TypeOK, Connecting, Serving, Open, FindNothing,
        Goto, connVars
  <2>7. OpenIsPooled'
    BY <1>10, <1>i, <1>n
    DEF OpenIsPooled, ConnectorsView, KeyLockOwner, TypeOK, Connecting, Serving,
        Open, FindNothing, Goto, connVars
  <2>8. DownIsIdle'
    BY <1>10, <1>i, <1>n
    DEF DownIsIdle, TypeOK, Connecting, Serving, Open, FindNothing, Goto, connVars
  <2>. QED
    BY <2>1, <2>2, <2>3, <2>4, <2>5, <2>6, <2>7, <2>8 DEF PoolInv
<1>11. ASSUME NEW t \in Threads, Find(t) PROVE PoolInv'
  <2>1. TypeOK'
    BY <1>11, <1>i, <1>n
    DEF TypeOK, EntryLockOwner, PoolIsOpen, Connecting, Serving, Open, Find, Goto,
        connVars
  <2>2. KeyLockOwner'
    BY <1>11, <1>i, <1>n
    DEF KeyLockOwner, DownIsIdle, TypeOK, Connecting, Serving, Open, Find, Goto,
        connVars
  <2>3. EntryLockOwner'
    BY <1>11, <1>i, <1>n
    DEF EntryLockOwner, ConnectorsView, PoolIsOpen, TypeOK, Connecting, Serving,
        Open, Find, Goto, connVars
  <2>4. ConnectorsView'
    BY <1>11, <1>i, <1>n
    DEF KeyLockOwner, ConnectorsView, PoolIsOpen, TypeOK, Connecting, Serving,
        Open, Find, Goto, connVars
  <2>5. ServedView'
    BY <1>11, <1>i, <1>n
    DEF EntryLockOwner, ConnectorsView, ServedView, PoolIsOpen, KeyLockOwner,
        TypeOK, Connecting, Serving, Open, Find, Goto, connVars
  <2>6. PoolIsOpen'
    BY <1>11, <1>i, <1>n
    DEF ConnectorsView, PoolIsOpen, TypeOK, Connecting, Serving, Open, Find, Goto,
        connVars
  <2>7. OpenIsPooled'
    BY <1>11, <1>i, <1>n
    DEF OpenIsPooled, ConnectorsView, KeyLockOwner, TypeOK, Connecting, Serving,
        Open, Find, Goto, connVars
  <2>8. DownIsIdle'
    BY <1>11, <1>i, <1>n
    DEF DownIsIdle, TypeOK, Connecting, Serving, Open, Find, Goto, connVars
  <2>. QED
    BY <2>1, <2>2, <2>3, <2>4, <2>5, <2>6, <2>7, <2>8 DEF PoolInv
<1>12. ASSUME NEW t \in Threads, LockUse(t) PROVE PoolInv'
  <2>1. TypeOK'
    BY <1>12, <1>i, <1>n
    DEF TypeOK, EntryLockOwner, PoolIsOpen, Connecting, Serving, Open, LockUse,
        PooledLockFree, Acquire, Goto, connVars
  <2>2. KeyLockOwner'
    BY <1>12, <1>i, <1>n
    DEF KeyLockOwner, DownIsIdle, TypeOK, Connecting, Serving, Open, LockUse,
        PooledLockFree, Acquire, Goto, connVars
  <2>3. EntryLockOwner'
    BY <1>12, <1>i, <1>n
    DEF EntryLockOwner, ConnectorsView, PoolIsOpen, TypeOK, Connecting, Serving,
        Open, LockUse, PooledLockFree, Acquire, Goto, connVars
  <2>4. ConnectorsView'
    BY <1>12, <1>i, <1>n
    DEF KeyLockOwner, ConnectorsView, PoolIsOpen, TypeOK, Connecting, Serving,
        Open, LockUse, PooledLockFree, Acquire, Goto, connVars
  <2>5. ServedView'
    BY <1>12, <1>i, <1>n
    DEF EntryLockOwner, ConnectorsView, ServedView, PoolIsOpen, KeyLockOwner,
        TypeOK, Connecting, Serving, Open, LockUse, PooledLockFree, Acquire, Goto,
        connVars
  <2>6. PoolIsOpen'
    BY <1>12, <1>i, <1>n
    DEF ConnectorsView, PoolIsOpen, TypeOK, Connecting, Serving, Open, LockUse,
        PooledLockFree, Acquire, Goto, connVars
  <2>7. OpenIsPooled'
    BY <1>12, <1>i, <1>n
    DEF OpenIsPooled, ConnectorsView, KeyLockOwner, TypeOK, Connecting, Serving,
        Open, LockUse, PooledLockFree, Acquire, Goto, connVars
  <2>8. DownIsIdle'
    BY <1>12, <1>i, <1>n
    DEF DownIsIdle, TypeOK, Connecting, Serving, Open, LockUse, PooledLockFree,
        Acquire, Goto, connVars
  <2>. QED
    BY <2>1, <2>2, <2>3, <2>4, <2>5, <2>6, <2>7, <2>8 DEF PoolInv
<1>13. ASSUME NEW t \in Threads, EndUse(t) PROVE PoolInv'
  <2>1. TypeOK'
    BY <1>13, <1>i, <1>n
    DEF TypeOK, EntryLockOwner, PoolIsOpen, Connecting, Serving, Open, EndUse,
        Release, Goto, connVars
  <2>2. KeyLockOwner'
    BY <1>13, <1>i, <1>n
    DEF KeyLockOwner, DownIsIdle, TypeOK, Connecting, Serving, Open, EndUse,
        Release, Goto, connVars
  <2>3. EntryLockOwner'
    BY <1>13, <1>i, <1>n
    DEF EntryLockOwner, ConnectorsView, PoolIsOpen, TypeOK, Connecting, Serving,
        Open, EndUse, Release, Goto, connVars
  <2>4. ConnectorsView'
    BY <1>13, <1>i, <1>n
    DEF KeyLockOwner, ConnectorsView, PoolIsOpen, TypeOK, Connecting, Serving,
        Open, EndUse, Release, Goto, connVars
  <2>5. ServedView'
    BY <1>13, <1>i, <1>n
    DEF EntryLockOwner, ConnectorsView, ServedView, PoolIsOpen, KeyLockOwner,
        TypeOK, Connecting, Serving, Open, EndUse, Release, Goto, connVars
  <2>6. PoolIsOpen'
    BY <1>13, <1>i, <1>n
    DEF ConnectorsView, PoolIsOpen, TypeOK, Connecting, Serving, Open, EndUse,
        Release, Goto, connVars
  <2>7. OpenIsPooled'
    BY <1>13, <1>i, <1>n
    DEF OpenIsPooled, ConnectorsView, KeyLockOwner, TypeOK, Connecting, Serving,
        Open, EndUse, Release, Goto, connVars
  <2>8. DownIsIdle'
    BY <1>13, <1>i, <1>n
    DEF DownIsIdle, TypeOK, Connecting, Serving, Open, EndUse, Release, Goto,
        connVars
  <2>. QED
    BY <2>1, <2>2, <2>3, <2>4, <2>5, <2>6, <2>7, <2>8 DEF PoolInv
<1>14. ASSUME NEW c \in Conns, Break(c) PROVE PoolInv'
  <2>1. TypeOK'
    BY <1>14, <1>i, <1>n
    DEF TypeOK, EntryLockOwner, PoolIsOpen, Connecting, Serving, Open, Break
  <2>2. KeyLockOwner'
    BY <1>14, <1>i, <1>n
    DEF KeyLockOwner, DownIsIdle, TypeOK, Connecting, Serving, Open, Break
  <2>3. EntryLockOwner'
    BY <1>14, <1>i, <1>n
    DEF EntryLockOwner, ConnectorsView, PoolIsOpen, TypeOK, Connecting, Serving,
        Open, Break
  <2>4. ConnectorsView'
    BY <1>14, <1>i, <1>n
    DEF KeyLockOwner, ConnectorsView, PoolIsOpen, TypeOK, Connecting, Serving,
        Open, Break
  <2>5. ServedView'
    BY <1>14, <1>i, <1>n
    DEF EntryLockOwner, ConnectorsView, ServedView, PoolIsOpen, KeyLockOwner,
        TypeOK, Connecting, Serving, Open, Break
  <2>6. PoolIsOpen'
    BY <1>14, <1>i, <1>n
    DEF ConnectorsView, PoolIsOpen, TypeOK, Connecting, Serving, Open, Break
  <2>7. OpenIsPooled'
    BY <1>14, <1>i, <1>n
    DEF OpenIsPooled, ConnectorsView, KeyLockOwner, TypeOK, Connecting, Serving,
        Open, Break
  <2>8. DownIsIdle'
    BY <1>14, <1>i, <1>n
    DEF DownIsIdle, TypeOK, Connecting, Serving, Open, Break
  <2>. QED
    BY <2>1, <2>2, <2>3, <2>4, <2>5, <2>6, <2>7, <2>8 DEF PoolInv
<1>15. ASSUME CloseAll PROVE PoolInv'
  <2>1. TypeOK'
    BY <1>15, <1>i, <1>n
    DEF TypeOK, EntryLockOwner, PoolIsOpen, Connecting, Serving, Open, CloseAll,
        ClosePool
  <2>2. KeyLockOwner'
    BY <1>15, <1>i, <1>n
    DEF KeyLockOwner, DownIsIdle, TypeOK, Connecting, Serving, Open, CloseAll,
        ClosePool
  <2>3. EntryLockOwner'
    BY <1>15, <1>i, <1>n
    DEF EntryLockOwner, ConnectorsView, PoolIsOpen, TypeOK, Connecting, Serving,
        Open, CloseAll, ClosePool
  <2>4. ConnectorsView'
    BY <1>15, <1>i, <1>n
    DEF KeyLockOwner, ConnectorsView, PoolIsOpen, TypeOK, Connecting, Serving,
        Open, CloseAll, ClosePool
  <2>5. ServedView'
    BY <1>15, <1>i, <1>n
    DEF EntryLockOwner, ConnectorsView, ServedView, PoolIsOpen, KeyLockOwner,
        TypeOK, Connecting, Serving, Open, CloseAll, ClosePool
  <2>6. PoolIsOpen'
    BY <1>15, <1>i, <1>n
    DEF ConnectorsView, PoolIsOpen, TypeOK, Connecting, Serving, Open, CloseAll,
        ClosePool
  <2>7. OpenIsPooled'
    BY <1>15, <1>i, <1>n
    DEF OpenIsPooled, ConnectorsView, KeyLockOwner, TypeOK, Connecting, Serving,
        Open, CloseAll, ClosePool
  <2>8. DownIsIdle'
    BY <1>15, <1>i, <1>n
    DEF DownIsIdle, TypeOK, Connecting, Serving, Open, CloseAll, ClosePool
  <2>. QED
    BY <2>1, <2>2, <2>3, <2>4, <2>5, <2>6, <2>7, <2>8 DEF PoolInv
<1>16. ASSUME UNCHANGED vars PROVE PoolInv'
  <2>1. TypeOK'
    BY <1>16, <1>i, <1>n
    DEF TypeOK, EntryLockOwner, PoolIsOpen, Connecting, Serving, Open, vars,
        connVars
  <2>2. KeyLockOwner'
    BY <1>16, <1>i, <1>n
    DEF KeyLockOwner, DownIsIdle, TypeOK, Connecting, Serving, Open, vars, connVars
  <2>3. EntryLockOwner'
    BY <1>16, <1>i, <1>n
    DEF EntryLockOwner, ConnectorsView, PoolIsOpen, TypeOK, Connecting, Serving,
        Open, vars, connVars
  <2>4. ConnectorsView'
    BY <1>16, <1>i, <1>n
    DEF KeyLockOwner, ConnectorsView, PoolIsOpen, TypeOK, Connecting, Serving,
        Open, vars, connVars
  <2>5. ServedView'
    BY <1>16, <1>i, <1>n
    DEF EntryLockOwner, ConnectorsView, ServedView, PoolIsOpen, KeyLockOwner,
        TypeOK, Connecting, Serving, Open, vars, connVars
  <2>6. PoolIsOpen'
    BY <1>16, <1>i, <1>n
    DEF ConnectorsView, PoolIsOpen, TypeOK, Connecting, Serving, Open, vars,
        connVars
  <2>7. OpenIsPooled'
    BY <1>16, <1>i, <1>n
    DEF OpenIsPooled, ConnectorsView, KeyLockOwner, TypeOK, Connecting, Serving,
        Open, vars, connVars
  <2>8. DownIsIdle'
    BY <1>16, <1>i, <1>n
    DEF DownIsIdle, TypeOK, Connecting, Serving, Open, vars, connVars
  <2>. QED
    BY <2>1, <2>2, <2>3, <2>4, <2>5, <2>6, <2>7, <2>8 DEF PoolInv
<1>. QED
  BY <1>1, <1>2, <1>3, <1>4, <1>5, <1>6, <1>7, <1>8, <1>9, <1>10, <1>11, <1>12,
     <1>13, <1>14, <1>15, <1>16
  DEF Next, ConnectStep, UseStep, Exited

LEMMA Invariance == Spec => []PoolInv
  BY InitPoolInv, NextPoolInv, PTL DEF Spec

-----------------------------------------------------------------------------
(* For every number of threads and connections the state is well typed.    *)
THEOREM TypeCorrect == Spec => []TypeOK
<1>1. PoolInv => TypeOK
  BY DEF PoolInv
<1>. QED
  BY <1>1, Invariance, PTL

(* Two threads never execute statements on one open connection at once.    *)
THEOREM Exclusive == Spec => []OpenConnsAreExclusive
<1>1. PoolInv => OpenConnsAreExclusive
  <2> SUFFICES ASSUME PoolInv, NEW c \in Open, NEW t \in Threads, NEW u \in Threads,
                      Executes(t, c), Executes(u, c)
               PROVE t = u
    BY DEF OpenConnsAreExclusive
  <2>1. ASSUME NEW x \in Threads, Executes(x, c) PROVE pooledLock[c] = x
    BY <2>1 DEF PoolInv, Executes, EntryLockOwner, ServedView
  <2>. QED
    BY <2>1
<1>. QED
  BY <1>1, Invariance, PTL

(* No connection is lost: there is at most one open connection, it is the  *)
(* pooled one or about to be, and none is open after close_all().          *)
THEOREM NoLeaks == Spec => []NoConnectionLeaks
<1>1. PoolInv => NoConnectionLeaks
  <2> SUFFICES ASSUME PoolInv PROVE NoConnectionLeaks
    OBVIOUS
  <2>1. \A c, d \in Open : c = d
    BY Assumptions
    DEF PoolInv, OpenIsPooled, ConnectorsView, KeyLockOwner, Connecting, Open,
        TypeOK
  <2>2. down => Open = {}
    BY Assumptions DEF PoolInv, OpenIsPooled, DownIsIdle, Open, TypeOK
  <2>. QED
    BY <2>1, <2>2 DEF PoolInv, OpenIsPooled, NoConnectionLeaks
<1>. QED
  BY <1>1, Invariance, PTL

(* No thread's open connection is closed while it is being used.           *)
THEOREM UsersKeepTheirConnection == Spec => NeverClosedInUse
<1>1. ASSUME PoolInv, [Next]_vars, NEW t \in Threads, pc[t] = "use", conn[t] \in Open
      PROVE conn[t] \in Open'
  <2>i. /\ conn[t] = pool /\ pooledLock[pool] = t
        /\ \A u \in Threads : pc[u] = "check" => pooledLock[pool] = u
        /\ down => pc[t] = "idle"
    BY <1>1
    DEF PoolInv, ServedView, EntryLockOwner, ConnectorsView, DownIsIdle, Serving
  <2>1. ASSUME NEW u \in Threads, CheckFails(u) PROVE FALSE
    BY <1>1, <2>i, <2>1 DEF CheckFails
  <2>2. CASE CloseAll
    BY <1>1, <2>i, <2>2 DEF CloseAll
  <2>3. CASE UNCHANGED closed /\ opened \subseteq opened'
    BY <1>1, <2>3 DEF Open
  <2>. QED
    BY <1>1, <2>1, <2>2, <2>3
    DEF Next, ConnectStep, UseStep, Exited, Call, LockKey, Lookup, LockPooled,
        CheckPasses, OpenSucceeds, OpenFails, Install, FindNothing, Find, LockUse,
        EndUse, Break, connVars, vars
<1>2. PoolInv /\ [Next]_vars =>
        \A t \in Threads : pc[t] = "use" /\ conn[t] \in Open => conn[t] \in Open'
  BY <1>1
<1>. QED
  BY <1>2, Invariance, PTL DEF Spec, NeverClosedInUse

(***************************************************************************)
(* EdmLinkage, for any number of requests, treaties and EDMs.              *)
(***************************************************************************)
(* What a text that parses holds, and what every request has seen.         *)
TextInv == Parses(linkFile) => linkFile.links = stored

SeenInv == \A r \in Clients : at[r] # "idle" => \A t \in Treaties : stored[t] \in seen[r][t]

(* Which handlers are where.                                               *)
PlaceInv ==
  \A r \in Clients :
    /\ at[r] = "idle" => op[r] = "list"
    /\ at[r] \in {"check", "load"} => op[r] = "put"
    /\ at[r] \in {"open", "write"} => op[r] \in {"put", "bulk"}
    /\ at[r] \in {"openTreaties", "writeTreaties"} => op[r] = "import"
    /\ op[r] \in {"put", "bulk"} => r \in Editors
    /\ at[r] # "idle" => answer[r].code = 0

OneImport == \A r, q \in Clients : op[r] = "import" /\ op[q] = "import" => r = q

LinkInv ==
  LinkTypeOK /\ TextInv /\ SeenInv /\ PlaceInv /\ OneImport
    /\ LostLinksAreConcurrent /\ ImportsShowThemselves

-----------------------------------------------------------------------------
(* The length of a map's text is a positive number.                        *)
LEMMA SizeType == ASSUME NEW m PROVE Size(m) \in Nat \ {0}
<1>1. Cardinality({t \in Treaties : m[t] # Nothing}) \in Nat
  BY LinkAssumptions, FS_Subset, FS_CardinalityType
<1>. QED
  BY <1>1 DEF Size

(* The text of a map parses, and the empty text does not.                  *)
LEMMA TextsParse ==
  /\ \A m : Parses(Text(m)) /\ Text(m).links = m
  /\ ~Parses(Emptied)
  BY SizeType DEF Parses, Text, Emptied

LEMMA AnyTreatyType == AnyTreaty \in Treaties
  BY LinkAssumptions DEF AnyTreaty

LEMMA NoLinksType == NoLinks \in LinkMaps
  BY DEF NoLinks, LinkMaps

-----------------------------------------------------------------------------
(* Type correctness                                                        *)

LEMMA InitType == LinkInit => LinkTypeOK
<1> SUFFICES ASSUME LinkInit PROVE LinkTypeOK
  OBVIOUS
<1>1. stored \in LinkMaps /\ linkFile \in [links : LinkMaps, size : Nat]
  BY SizeType DEF LinkInit, Text
<1>2. answer \in [Clients -> [code : {0, 200, 404, 500}, rows : SUBSET Treaties, links : LinkMaps]]
  BY NoLinksType DEF LinkInit, NoAnswer
<1>. QED
  BY <1>1, <1>2, AnyTreatyType, NoLinksType DEF LinkInit, LinkTypeOK, Labels

LEMMA BeginType ==
  ASSUME LinkTypeOK, NEW r \in Clients, NEW o \in {"list", "put", "bulk", "import"},
         NEW label \in Labels, Begin(r, o, label),
         target' \in [Clients -> Treaties], edm' \in [Clients -> Edms \cup {Nothing}],
         links' \in [Clients -> LinkMaps], rows' \in [Clients -> SUBSET Treaties]
  PROVE  LinkTypeOK'
<1>1. answer' \in [Clients -> [code : {0, 200, 404, 500}, rows : SUBSET Treaties, links : LinkMaps]]
  BY NoLinksType DEF LinkTypeOK, Begin, NoAnswer
<1>2. seen' \in [Clients -> [Treaties -> SUBSET (Edms \cup {Nothing})]]
  <2>1. [t \in Treaties |-> {stored[t]}] \in [Treaties -> SUBSET (Edms \cup {Nothing})]
    BY DEF LinkTypeOK, LinkMaps
  <2>. QED
    BY <2>1 DEF LinkTypeOK, Begin
<1>. QED
  BY <1>1, <1>2 DEF LinkTypeOK, Begin, Proceed, files

LEMMA AnswerType ==
  ASSUME LinkTypeOK, NEW r \in Clients, NEW code \in {200, 404, 500}, Answer(r, code)
  PROVE  LinkTypeOK'
<1>1. answer' \in [Clients -> [code : {0, 200, 404, 500}, rows : SUBSET Treaties, links : LinkMaps]]
  <2>1. (IF code = 200 THEN linkFile.links ELSE NoLinks) \in LinkMaps
    BY NoLinksType DEF LinkTypeOK
  <2>. QED
    BY <2>1 DEF LinkTypeOK, Answer
<1>2. seen' \in [Clients -> [Treaties -> SUBSET (Edms \cup {Nothing})]]
  BY DEF LinkTypeOK, Answer
<1>. QED
  BY <1>1, <1>2, AnyTreatyType, NoLinksType DEF LinkTypeOK, Answer, files, Labels

LEMMA NextType == LinkTypeOK /\ [LinkNext]_linkVars => LinkTypeOK'
<1> SUFFICES ASSUME LinkTypeOK, [LinkNext]_linkVars PROVE LinkTypeOK'
  OBVIOUS
<1>1. ASSUME NEW r \in Clients, List(r) PROVE LinkTypeOK'
  BY <1>1, BeginType DEF List, LinkTypeOK, Labels
<1>2. ASSUME NEW r \in Clients, NEW t \in Treaties, NEW e \in Edms \cup {Nothing}, Put(r, t, e)
      PROVE  LinkTypeOK'
  <2>1. target' \in [Clients -> Treaties] /\ edm' \in [Clients -> Edms \cup {Nothing}]
    BY <1>2 DEF Put, LinkTypeOK
  <2>. QED
    BY <2>1, <1>2, BeginType DEF Put, LinkTypeOK, Labels
<1>3. ASSUME NEW r \in Clients, NEW m \in LinkMaps, BulkSave(r, m) PROVE LinkTypeOK'
  <2>1. links' \in [Clients -> LinkMaps]
    BY <1>3 DEF BulkSave, LinkTypeOK
  <2>. QED
    BY <2>1, <1>3, BeginType DEF BulkSave, LinkTypeOK, Labels
<1>4. ASSUME NEW r \in Clients, NEW parsed \in SUBSET Treaties, Import(r, parsed) PROVE LinkTypeOK'
  <2>1. rows' \in [Clients -> SUBSET Treaties]
    BY <1>4 DEF Import, LinkTypeOK
  <2>. QED
    BY <2>1, <1>4, BeginType DEF Import, LinkTypeOK, Labels
<1>5. ASSUME NEW r \in Clients, CheckTreaty(r) PROVE LinkTypeOK'
  BY <1>5 DEF LinkTypeOK, CheckTreaty, Proceed, files, request, Labels
<1>6. ASSUME NEW r \in Clients, TreatyUnknown(r) PROVE LinkTypeOK'
  BY <1>6, AnswerType DEF TreatyUnknown
<1>7. ASSUME NEW r \in Clients, LoadLinks(r) PROVE LinkTypeOK'
  <2>1. Updated(linkFile.links, target[r], edm[r]) \in LinkMaps
    BY DEF LinkTypeOK, LinkMaps, Updated
  <2>. QED
    BY <1>7, <2>1 DEF LinkTypeOK, LoadLinks, Proceed, files, request, Labels
<1>8. ASSUME NEW r \in Clients, OpenLinks(r) PROVE LinkTypeOK'
  BY <1>8, NoLinksType DEF LinkTypeOK, OpenLinks, Emptied, Proceed, request, Labels
<1>9. ASSUME NEW r \in Clients, WriteLinks(r) PROVE LinkTypeOK'
  <2>1. links[r] \in LinkMaps
    BY DEF LinkTypeOK
  <2>2. linkFile' \in [links : LinkMaps, size : Nat]
    <3>1. Size(links[r]) \in Nat /\ linkFile.size \in Nat
      BY SizeType DEF LinkTypeOK
    <3>2. Longer(linkFile.size, Size(links[r])) \in Nat
      BY <3>1 DEF Longer
    <3>. QED
      BY <1>9, <2>1, <3>2 DEF WriteLinks, WrittenOver
  <2>3. seen' \in [Clients -> [Treaties -> SUBSET (Edms \cup {Nothing})]]
    <3>1. ASSUME NEW q \in Clients
          PROVE  [t \in Treaties |-> seen[q][t] \cup {links[r][t]}]
                   \in [Treaties -> SUBSET (Edms \cup {Nothing})]
      BY <2>1 DEF LinkTypeOK, LinkMaps
    <3>2. ASSUME NEW q \in Clients
          PROVE  (IF at[q] = "idle" THEN seen[q]
                  ELSE [t \in Treaties |-> seen[q][t] \cup {links[r][t]}])
                    \in [Treaties -> SUBSET (Edms \cup {Nothing})]
      BY <3>1 DEF LinkTypeOK
    <3>. QED
      BY <1>9, <3>2 DEF WriteLinks
  <2>. QED
    BY <1>9, <2>1, <2>2, <2>3 DEF LinkTypeOK, WriteLinks, Proceed, request, Labels
<1>10. ASSUME NEW r \in Clients, OpenTreaties(r) PROVE LinkTypeOK'
  BY <1>10 DEF LinkTypeOK, OpenTreaties, Proceed, request, Labels
<1>11. ASSUME NEW r \in Clients, WriteTreaties(r) PROVE LinkTypeOK'
  BY <1>11 DEF LinkTypeOK, WriteTreaties, Proceed, request, Labels
<1>12. ASSUME NEW r \in Clients, ViewRows(r) PROVE LinkTypeOK'
  BY <1>12 DEF LinkTypeOK, ViewRows, Proceed, files, request, Labels
<1>13. ASSUME NEW r \in Clients, ViewLinks(r) PROVE LinkTypeOK'
  BY <1>13, AnswerType DEF ViewLinks
<1>14. ASSUME NEW r \in Clients, ReadFails(r) PROVE LinkTypeOK'
  BY <1>14, AnswerType DEF ReadFails
<1>15. ASSUME Crash PROVE LinkTypeOK'
  <2>1. NoAnswer \in [code : {0, 200, 404, 500}, rows : SUBSET Treaties, links : LinkMaps]
    BY NoLinksType DEF NoAnswer
  <2>. QED
    BY <1>15, <2>1, AnyTreatyType, NoLinksType DEF LinkTypeOK, Crash, files, Labels
<1>16. CASE UNCHANGED linkVars
  BY <1>16 DEF LinkTypeOK, linkVars, files, request
<1>. QED
  BY <1>1, <1>2, <1>3, <1>4, <1>5, <1>6, <1>7, <1>8, <1>9, <1>10, <1>11, <1>12,
     <1>13, <1>14, <1>15, <1>16 DEF LinkNext, Arrival, Step

-----------------------------------------------------------------------------
(* The inductive invariant                                                 *)

LEMMA InitLinkInv == LinkInit => LinkInv
<1> SUFFICES ASSUME LinkInit PROVE LinkInv
  OBVIOUS
<1>1. LinkTypeOK
  BY InitType
<1>2. TextInv
  BY TextsParse DEF LinkInit, TextInv
<1>. QED
  BY <1>1, <1>2 DEF LinkInit, LinkInv, SeenInv, PlaceInv, OneImport, LostLinksAreConcurrent,
                    ImportsShowThemselves

(* A request that begins, of whatever kind, disturbs nothing.              *)
LEMMA BeginLinkInv ==
  ASSUME LinkInv, LinkTypeOK', NEW r \in Clients,
         NEW o \in {"list", "put", "bulk", "import"}, NEW label \in Labels,
         Begin(r, o, label),
         <<o, label>> \in {<<"list", "viewRows">>, <<"put", "check">>, <<"bulk", "open">>,
                            <<"import", "openTreaties">>},
         o \in {"put", "bulk"} => r \in Editors,
         o = "import" => LoopFree,
         \A q \in Clients \ {r} :
           target'[q] = target[q] /\ links'[q] = links[q] /\ rows'[q] = rows[q]
  PROVE  LinkInv'
<1>. USE DEF LinkInv, Begin, Proceed, files
<1>1. TextInv'
  BY DEF TextInv
<1>2. SeenInv'
  BY DEF SeenInv, LinkTypeOK
<1>3. PlaceInv'
  BY DEF PlaceInv, LinkTypeOK, NoAnswer
<1>4. OneImport'
  BY DEF OneImport, LoopFree, LinkTypeOK
<1>5. LostLinksAreConcurrent'
  BY DEF LostLinksAreConcurrent, LinkTypeOK
<1>6. ImportsShowThemselves'
  BY DEF ImportsShowThemselves, LinkTypeOK
<1>. QED
  BY <1>1, <1>2, <1>3, <1>4, <1>5, <1>6

(* A request that is answered disturbs nothing.                            *)
LEMMA AnswerLinkInv ==
  ASSUME LinkInv, LinkTypeOK', NEW r \in Clients, NEW code, Answer(r, code)
  PROVE  LinkInv'
<1>. USE DEF LinkInv, Answer, files
<1>1. TextInv'
  BY DEF TextInv
<1>2. SeenInv'
  BY DEF SeenInv, LinkTypeOK
<1>3. PlaceInv'
  BY DEF PlaceInv, LinkTypeOK
<1>4. OneImport'
  BY DEF OneImport, LinkTypeOK
<1>5. LostLinksAreConcurrent'
  BY DEF LostLinksAreConcurrent, LinkTypeOK
<1>6. ImportsShowThemselves'
  BY DEF ImportsShowThemselves, LinkTypeOK
<1>. QED
  BY <1>1, <1>2, <1>3, <1>4, <1>5, <1>6

(* LinkInv is preserved by every step.                                     *)
LEMMA NextLinkInv == LinkInv /\ [LinkNext]_linkVars => LinkInv'
<1> SUFFICES ASSUME LinkInv, [LinkNext]_linkVars PROVE LinkInv'
  OBVIOUS
<1>. USE DEF LinkInv
<1>t. LinkTypeOK'
  BY NextType
<1>1. ASSUME NEW r \in Clients, List(r) PROVE LinkInv'
  BY <1>1, <1>t, BeginLinkInv DEF List, Labels
<1>2. ASSUME NEW r \in Clients, NEW t \in Treaties, NEW e \in Edms \cup {Nothing}, Put(r, t, e)
      PROVE  LinkInv'
  <2>1. \A q \in Clients \ {r} : target'[q] = target[q]
    BY <1>2 DEF Put, LinkTypeOK
  <2>. QED
    BY <2>1, <1>2, <1>t, BeginLinkInv DEF Put, Labels
<1>3. ASSUME NEW r \in Clients, NEW m \in LinkMaps, BulkSave(r, m) PROVE LinkInv'
  <2>1. \A q \in Clients \ {r} : links'[q] = links[q]
    BY <1>3 DEF BulkSave, LinkTypeOK
  <2>. QED
    BY <2>1, <1>3, <1>t, BeginLinkInv DEF BulkSave, Labels
<1>4. ASSUME NEW r \in Clients, NEW parsed \in SUBSET Treaties, Import(r, parsed)
      PROVE  LinkInv'
  <2>1. \A q \in Clients \ {r} : rows'[q] = rows[q]
    BY <1>4 DEF Import, LinkTypeOK
  <2>. QED
    BY <2>1, <1>4, <1>t, BeginLinkInv DEF Import, Labels
<1>5. ASSUME NEW r \in Clients, NEW code, Answer(r, code) PROVE LinkInv'
  BY <1>5, <1>t, AnswerLinkInv
<1>6. ASSUME NEW r \in Clients, CheckTreaty(r) PROVE LinkInv'
  <2>. USE <1>6 DEF CheckTreaty, Proceed, files, request
  <2>1. TextInv'
    BY DEF TextInv, LinkTypeOK
  <2>2. SeenInv'
    BY DEF SeenInv, LinkTypeOK
  <2>3. PlaceInv'
    BY DEF PlaceInv, LinkTypeOK
  <2>4. OneImport'
    BY DEF OneImport, LinkTypeOK
  <2>5. LostLinksAreConcurrent'
    BY DEF LostLinksAreConcurrent, LinkTypeOK
  <2>6. ImportsShowThemselves'
    BY DEF ImportsShowThemselves, LinkTypeOK
  <2>. QED
    BY <2>1, <2>2, <2>3, <2>4, <2>5, <2>6, <1>t
<1>7. ASSUME NEW r \in Clients, LoadLinks(r) PROVE LinkInv'
  <2>. USE <1>7 DEF LoadLinks, Proceed, files, request, Updated, TextInv, SeenInv, LinkMaps
  <2>1. TextInv'
    BY DEF TextInv, LinkTypeOK
  <2>2. SeenInv'
    BY DEF SeenInv, LinkTypeOK
  <2>3. PlaceInv'
    BY DEF PlaceInv, LinkTypeOK
  <2>4. OneImport'
    BY DEF OneImport, LinkTypeOK
  <2>5. LostLinksAreConcurrent'
    <3>1. linkFile.links = stored
      OBVIOUS
    <3>2. \A t \in Treaties \ {target[r]} : links'[r][t] = stored[t]
      BY <3>1 DEF LinkTypeOK
    <3>3. \A t \in Treaties : stored[t] \in seen[r][t]
      OBVIOUS
    <3>4. \A q \in Clients \ {r} : links'[q] = links[q] /\ at'[q] = at[q]
      BY DEF LinkTypeOK
    <3>. QED
      BY <3>2, <3>3, <3>4 DEF LostLinksAreConcurrent
  <2>6. ImportsShowThemselves'
    BY DEF ImportsShowThemselves, LinkTypeOK
  <2>. QED
    BY <2>1, <2>2, <2>3, <2>4, <2>5, <2>6, <1>t
<1>8. ASSUME NEW r \in Clients, OpenLinks(r) PROVE LinkInv'
  <2>. USE <1>8 DEF OpenLinks, Proceed, request
  <2>1. TextInv'
    BY TextsParse DEF TextInv, LinkTypeOK
  <2>2. SeenInv'
    BY DEF SeenInv, LinkTypeOK
  <2>3. PlaceInv'
    BY DEF PlaceInv, LinkTypeOK
  <2>4. OneImport'
    BY DEF OneImport, LinkTypeOK
  <2>5. LostLinksAreConcurrent'
    BY DEF LostLinksAreConcurrent, LinkTypeOK
  <2>6. ImportsShowThemselves'
    BY DEF ImportsShowThemselves, LinkTypeOK
  <2>. QED
    BY <2>1, <2>2, <2>3, <2>4, <2>5, <2>6, <1>t
<1>9. ASSUME NEW r \in Clients, WriteLinks(r) PROVE LinkInv'
  <2>. USE <1>9 DEF WriteLinks, Proceed, request, WrittenOver
  <2>1. TextInv'
    BY DEF TextInv, LinkTypeOK
  <2>2. SeenInv'
    BY DEF SeenInv, LinkTypeOK
  <2>3. PlaceInv'
    BY DEF PlaceInv, LinkTypeOK
  <2>4. OneImport'
    BY DEF OneImport, LinkTypeOK
  <2>5. LostLinksAreConcurrent'
    BY DEF LostLinksAreConcurrent, LinkTypeOK
  <2>6. ImportsShowThemselves'
    BY DEF ImportsShowThemselves, PlaceInv, LinkTypeOK
  <2>. QED
    BY <2>1, <2>2, <2>3, <2>4, <2>5, <2>6, <1>t
<1>10. ASSUME NEW r \in Clients, OpenTreaties(r) PROVE LinkInv'
  <2>. USE <1>10 DEF OpenTreaties, Proceed, request, PlaceInv, OneImport
  <2>1. TextInv'
    BY DEF TextInv, LinkTypeOK
  <2>2. SeenInv'
    BY DEF SeenInv, LinkTypeOK
  <2>3. PlaceInv'
    BY DEF PlaceInv, LinkTypeOK
  <2>4. OneImport'
    BY DEF OneImport, LinkTypeOK
  <2>5. LostLinksAreConcurrent'
    BY DEF LostLinksAreConcurrent, LinkTypeOK
  <2>6. ImportsShowThemselves'
    <3>1. \A q \in Clients \ {r} : op[q] # "import"
      OBVIOUS
    <3>. QED
      BY <3>1 DEF ImportsShowThemselves, LinkTypeOK
  <2>. QED
    BY <2>1, <2>2, <2>3, <2>4, <2>5, <2>6, <1>t
<1>11. ASSUME NEW r \in Clients, WriteTreaties(r) PROVE LinkInv'
  <2>. USE <1>11 DEF WriteTreaties, Proceed, request, PlaceInv, OneImport
  <2>1. TextInv'
    BY DEF TextInv, LinkTypeOK
  <2>2. SeenInv'
    BY DEF SeenInv, LinkTypeOK
  <2>3. PlaceInv'
    BY DEF PlaceInv, LinkTypeOK
  <2>4. OneImport'
    BY DEF OneImport, LinkTypeOK
  <2>5. LostLinksAreConcurrent'
    BY DEF LostLinksAreConcurrent, LinkTypeOK
  <2>6. ImportsShowThemselves'
    BY DEF ImportsShowThemselves, LinkTypeOK
  <2>. QED
    BY <2>1, <2>2, <2>3, <2>4, <2>5, <2>6, <1>t
<1>12. ASSUME NEW r \in Clients, ViewRows(r) PROVE LinkInv'
  <2>. USE <1>12 DEF ViewRows, Proceed, files, request
  <2>1. TextInv'
    BY DEF TextInv, LinkTypeOK
  <2>2. SeenInv'
    BY DEF SeenInv, LinkTypeOK
  <2>3. PlaceInv'
    BY DEF PlaceInv, LinkTypeOK
  <2>4. OneImport'
    BY DEF OneImport, LinkTypeOK
  <2>5. LostLinksAreConcurrent'
    BY DEF LostLinksAreConcurrent, LinkTypeOK
  <2>6. ImportsShowThemselves'
    BY DEF ImportsShowThemselves, LinkTypeOK
  <2>. QED
    BY <2>1, <2>2, <2>3, <2>4, <2>5, <2>6, <1>t
<1>13. ASSUME Crash PROVE LinkInv'
  BY <1>13, <1>t
  DEF Crash, files, TextInv, SeenInv, PlaceInv, OneImport, LostLinksAreConcurrent,
      ImportsShowThemselves
<1>14. CASE UNCHANGED linkVars
  BY <1>14, <1>t
  DEF linkVars, files, request, TextInv, SeenInv, PlaceInv, OneImport,
      LostLinksAreConcurrent, ImportsShowThemselves
<1>. QED
  BY <1>1, <1>2, <1>3, <1>4, <1>5, <1>6, <1>7, <1>8, <1>9, <1>10, <1>11, <1>12,
     <1>13, <1>14
  DEF LinkNext, Arrival, Step, TreatyUnknown, ViewLinks, ReadFails
LEMMA LinkInvHolds == LinkSpec => []LinkInv
  BY InitLinkInv, NextLinkInv, PTL DEF LinkSpec

(* The state is well typed, whatever is saved, imported or killed.         *)
THEOREM LinkTypeCorrect == LinkSpec => []LinkTypeOK
<1>1. LinkInv => LinkTypeOK
  BY DEF LinkInv
<1>. QED
  BY <1>1, LinkInvHolds, PTL

(* An update (admin.py:144-172) undoes only links that were saved while it *)
(* was in progress.                                                        *)
THEOREM UpdatesLoseLittle == LinkSpec => []LostLinksAreConcurrent
<1>1. LinkInv => LostLinksAreConcurrent
  BY DEF LinkInv
<1>. QED
  BY <1>1, LinkInvHolds, PTL

(* import_csv answers with the list it imported.                           *)
THEOREM ImportsAreShown == LinkSpec => []ImportsShowThemselves
<1>1. LinkInv => ImportsShowThemselves
  BY DEF LinkInv
<1>. QED
  BY <1>1, LinkInvHolds, PTL

(* joined_view shows links that were current during the request.           *)
THEOREM ViewsShowCurrentLinks == LinkSpec => ViewsAreCurrent
<1> DEFINE Shows == \A r \in Clients :
                      at[r] = "viewLinks" /\ answer'[r].code = 200 =>
                        \A t \in answer'[r].rows : answer'[r].links[t] \in seen[r][t]
<1>1. ASSUME LinkInv, [LinkNext]_linkVars, NEW r \in Clients, at[r] = "viewLinks",
             answer'[r].code = 200, NEW t \in answer'[r].rows
      PROVE  answer'[r].links[t] \in seen[r][t]
  <2>. USE DEF LinkInv
  <2>1. answer[r].code = 0
    BY <1>1 DEF PlaceInv
  <2>2. ViewLinks(r)
    <3>1. CASE \E q \in Clients : Arrival(q)
      <4>1. PICK q \in Clients : Arrival(q)
        BY <3>1
      <4>2. q # r /\ answer'[r] = answer[r]
        BY <4>1, <1>1 DEF Arrival, List, Put, BulkSave, Import, Begin, LinkTypeOK
      <4>. QED
        BY <4>2, <2>1, <1>1
    <3>2. CASE \E q \in Clients : Step(q)
      <4>1. PICK q \in Clients : Step(q)
        BY <3>2
      <4>2. q = r
        BY <4>1, <2>1, <1>1
        DEF Step, CheckTreaty, TreatyUnknown, LoadLinks, OpenLinks, WriteLinks,
            OpenTreaties, WriteTreaties, ViewRows, ViewLinks, ReadFails, Answer, LinkTypeOK
      <4>3. ViewLinks(r) \/ ReadFails(r)
        BY <4>1, <4>2, <1>1
        DEF Step, CheckTreaty, TreatyUnknown, LoadLinks, OpenLinks, WriteLinks,
            OpenTreaties, WriteTreaties, ViewRows
      <4>4. ~ReadFails(r)
        BY <1>1 DEF ReadFails, Answer, LinkTypeOK
      <4>. QED
        BY <4>3, <4>4
    <3>3. CASE Crash
      BY <3>3, <1>1 DEF Crash, NoAnswer
    <3>4. CASE UNCHANGED linkVars
      BY <3>4, <2>1, <1>1 DEF linkVars
    <3>. QED
      BY <3>1, <3>2, <3>3, <3>4, <1>1 DEF LinkNext
  <2>3. answer'[r].links = linkFile.links /\ answer'[r].rows = rows[r]
    BY <2>2, <1>1 DEF ViewLinks, Answer, LinkTypeOK
  <2>4. linkFile.links = stored /\ t \in Treaties
    BY <2>2, <2>3, <1>1 DEF ViewLinks, TextInv, LinkTypeOK
  <2>. QED
    BY <2>3, <2>4, <1>1 DEF SeenInv
<1>2. LinkInv /\ [LinkNext]_linkVars => Shows
  BY <1>1
<1>. QED
  BY <1>2, LinkInvHolds, PTL DEF LinkSpec, ViewsAreCurrent

-----------------------------------------------------------------------------
(* What the documentation says of one editor at a time                     *)

SoleEditor == \A r, q \in Editors : r = q

(* A put still holds the stored links of the other treaties.               *)
PutsAreFresh ==
  \A r \in Clients :
    op[r] = "put" /\ at[r] \in {"open", "write"} =>
      \A t \in Treaties \ {target[r]} : links[r][t] = stored[t]

(* With one editor, PutsAreFresh is inductive.                             *)
LEMMA FreshStep ==
  ASSUME SoleEditor, LinkInv, PutsAreFresh, [LinkNext]_linkVars
  PROVE  PutsAreFresh'
<1> SUFFICES ASSUME NEW r \in Clients, op'[r] = "put", at'[r] \in {"open", "write"},
                    NEW t \in Treaties, t # target'[r]
             PROVE  links'[r][t] = stored'[t]
  BY DEF PutsAreFresh
<1>. USE DEF LinkInv
<1>1. CASE \E q \in Clients : Arrival(q)
  <2>1. PICK q \in Clients : Arrival(q)
    BY <1>1
  <2>2. q # r
    BY <2>1 DEF Arrival, List, Put, BulkSave, Import, Begin, Proceed, LinkTypeOK
  <2>3. /\ op'[r] = op[r] /\ at'[r] = at[r] /\ target'[r] = target[r]
        /\ links'[r] = links[r] /\ stored' = stored
    BY <2>1, <2>2 DEF Arrival, List, Put, BulkSave, Import, Begin, Proceed, files, LinkTypeOK
  <2>. QED
    BY <2>3 DEF PutsAreFresh
<1>2. CASE \E q \in Clients : LoadLinks(q)
  <2>1. PICK q \in Clients : LoadLinks(q)
    BY <1>2
  <2>2. CASE q = r
    BY <2>1, <2>2 DEF LoadLinks, Updated, TextInv, files, request, LinkMaps, LinkTypeOK
  <2>3. CASE q # r
    BY <2>1, <2>3 DEF LoadLinks, Proceed, files, request, PutsAreFresh, LinkTypeOK
  <2>. QED
    BY <2>2, <2>3
<1>3. CASE \E q \in Clients : WriteLinks(q)
  <2>1. PICK q \in Clients : WriteLinks(q)
    BY <1>3
  <2>2. q \in Editors /\ r \in Editors
    BY <2>1 DEF WriteLinks, Proceed, request, PlaceInv
  <2>3. q = r
    BY <2>2 DEF SoleEditor
  <2>. QED
    BY <2>1, <2>3 DEF WriteLinks, Proceed, LinkTypeOK
<1>4. CASE \E q \in Clients : Answer(q, 200) \/ Answer(q, 404) \/ Answer(q, 500)
  <2>1. PICK q \in Clients : Answer(q, 200) \/ Answer(q, 404) \/ Answer(q, 500)
    BY <1>4
  <2>2. q # r
    BY <2>1 DEF Answer, LinkTypeOK
  <2>3. /\ op'[r] = op[r] /\ at'[r] = at[r] /\ target'[r] = target[r]
        /\ links'[r] = links[r] /\ stored' = stored
    BY <2>1, <2>2 DEF Answer, files, LinkTypeOK
  <2>. QED
    BY <2>3 DEF PutsAreFresh
<1>5. CASE \E q \in Clients : CheckTreaty(q) \/ OpenLinks(q) \/ OpenTreaties(q)
                                \/ WriteTreaties(q) \/ ViewRows(q)
  <2>1. PICK q \in Clients : CheckTreaty(q) \/ OpenLinks(q) \/ OpenTreaties(q)
                               \/ WriteTreaties(q) \/ ViewRows(q)
    BY <1>5
  <2>2. op' = op /\ target' = target /\ links' = links /\ stored' = stored
    BY <2>1 DEF CheckTreaty, OpenLinks, OpenTreaties, WriteTreaties, ViewRows, files, request
  <2>3. at'[r] \in {"open", "write"} => at[r] \in {"open", "write"}
    <3>1. CASE q = r
      BY <2>1, <3>1 DEF CheckTreaty, OpenLinks, OpenTreaties, WriteTreaties, ViewRows, Proceed, LinkTypeOK
    <3>2. CASE q # r
      BY <2>1, <3>2 DEF CheckTreaty, OpenLinks, OpenTreaties, WriteTreaties, ViewRows, Proceed, LinkTypeOK
    <3>. QED
      BY <3>1, <3>2
  <2>. QED
    BY <2>2, <2>3 DEF PutsAreFresh
<1>6. CASE Crash
  BY <1>6 DEF Crash
<1>7. CASE UNCHANGED linkVars
  BY <1>7 DEF linkVars, files, request, PutsAreFresh
<1>. QED
  BY <1>1, <1>2, <1>3, <1>4, <1>5, <1>6, <1>7
  DEF LinkNext, Step, TreatyUnknown, ViewLinks, ReadFails

(* "Update one programme's EDM linkage." (admin.py:150) is true of every   *)
(* put when all edits come from one editor.                                *)
THEOREM SoleEditorUpdatesOneLink == SoleEditor => (LinkSpec => PutsChangeOneLink)
<1> SUFFICES ASSUME SoleEditor PROVE LinkSpec => PutsChangeOneLink
  OBVIOUS
<1> DEFINE OneLink == \A r \in Clients :
                        op[r] = "put" /\ at[r] = "write" /\ at'[r] = "viewRows" =>
                          \A t \in Treaties \ {target[r]} : stored'[t] = stored[t]
<1>1. LinkInit => PutsAreFresh
  BY DEF LinkInit, PutsAreFresh
<1>2. LinkInv /\ PutsAreFresh /\ [LinkNext]_linkVars => PutsAreFresh'
  BY FreshStep
<1>3. ASSUME LinkInv, PutsAreFresh, [LinkNext]_linkVars, NEW r \in Clients, op[r] = "put",
             at[r] = "write", at'[r] = "viewRows", NEW t \in Treaties \ {target[r]}
      PROVE  stored'[t] = stored[t]
  <2>1. CASE WriteLinks(r)
    BY <2>1, <1>3 DEF WriteLinks, PutsAreFresh
  <2>2. CASE \E q \in Clients : q # r /\ WriteLinks(q)
    BY <2>2, <1>3 DEF WriteLinks, Proceed, LinkInv, LinkTypeOK
  <2>3. CASE UNCHANGED stored
    BY <2>3
  <2>. QED
    BY <2>1, <2>2, <2>3, <1>3
    DEF LinkNext, Arrival, Step, List, Put, BulkSave, Import, Begin, Answer, CheckTreaty,
        TreatyUnknown, LoadLinks, OpenLinks, OpenTreaties, WriteTreaties, ViewRows,
        ViewLinks, ReadFails, Crash, files, linkVars
<1>4. LinkInv /\ PutsAreFresh /\ [LinkNext]_linkVars => OneLink
  BY <1>3
<1>. QED
  BY <1>1, <1>2, <1>4, LinkInvHolds, PTL DEF LinkSpec, PutsChangeOneLink
=============================================================================
