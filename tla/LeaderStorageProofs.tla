------------------------- MODULE LeaderStorageProofs -------------------------
(***************************************************************************)
(* Every back-end of LeaderStorage implements LeaderLease, for any         *)
(* clients, any TTL and any clocks that differ by at most MaxSkew.  Where  *)
(* one client's DELETE takes the lock of another, it is a Drop of that     *)
(* client's promise; nobody else's is affected.                            *)
(***************************************************************************)
EXTENDS LeaderStorage, TLAPS

IsDB == type \in {"db", "sqlite"}
Skewed == IsDB \/ type = "spanner"

\* By how much the lock outlasts what its holder has been promised.
Margin == IF Skewed THEN MaxSkew ELSE 0

\* No promise is longer than one that is made now.
Cap(c) == (IF Skewed THEN Now(c) ELSE clock) + TTL - Margin
Capped == \A c \in Clients : until[c] <= Cap(c)

\* Who has a promise that stands has the lock, for long enough.
Standing(c) == c \notin robbed /\ clock < until[c]
Kept == \A c \in Clients : Standing(c) => holder = c /\ until[c] + Margin <= expires

\* The time that a call to DBStorage works with is past; if its row is still
\* there when it reads it back, it is as the call has made it; and the call
\* creates a row only for a client without a promise.
InTime(c) ==
    /\ now[c] <= Now(c)
    /\ pc[c] = "verify" /\ holder = c => expires = now[c] + TTL
    /\ pc[c] = "create" => ~Standing(c)
Working == IsDB => \A c \in Clients : InTime(c)

IInv ==
    /\ TypeOK
    /\ Capped
    /\ Kept
    /\ Working
    /\ RobbedIsRefused

\* What each step has to do.
Step == IInv' /\ [Lease!Next]_(Lease!vars)

LEMMA InitIInv == Init => IInv
<1> SUFFICES ASSUME Init PROVE IInv
  OBVIOUS
<1>1. /\ TTL \in Nat /\ MaxClock \in Nat /\ MaxSkew \in Nat /\ MaxSkew <= TTL
      /\ \A c \in Clients : Skew[c] \in 0..MaxSkew
  BY TimeAssumption, SkewAssumption
<1>2. TypeOK
  <2>1. until \in [Clients -> 0..(MaxClock + MaxSkew + TTL)]
    BY <1>1 DEF Init, InitLock
  <2>2. now \in [Clients -> 0..(MaxClock + MaxSkew)]
    BY <1>1 DEF Init
  <2>3. pc \in [Clients -> Redis!PCs \cup DB!PCs]
    BY DEF Init, Redis!PCs
  <2>4. clock \in 0..MaxClock /\ expires \in 0..(MaxClock + MaxSkew + TTL)
    BY <1>1 DEF Init, InitLock
  <2>5. type \in Types /\ holder \in Clients \cup {Nobody} /\ robbed \subseteq Clients
    BY Zenon DEF Init, InitLock
  <2> QED
    BY <2>1, <2>2, <2>3, <2>4, <2>5 DEF TypeOK
<1>3. Capped
  <2>1. ASSUME NEW c \in Clients PROVE 0 <= Cap(c)
    BY <1>1 DEF Init, InitLock, Cap, Now, Margin
  <2> QED
    BY <2>1 DEF Init, InitLock, Capped
<1>4. Kept
  BY DEF Init, InitLock, Kept, Standing
<1>5. Working
  <2>1. ASSUME NEW c \in Clients PROVE now[c] = 0 /\ clock = 0 /\ pc[c] = "idle"
    BY DEF Init, InitLock
  <2>2. ASSUME NEW c \in Clients PROVE now[c] <= Now(c)
    BY <1>1, <2>1 DEF Now
  <2> QED
    BY <2>1, <2>2 DEF Working, InTime
<1>6. RobbedIsRefused
  BY DEF Init, InitLock, RobbedIsRefused
<1> QED
  BY <1>2, <1>3, <1>4, <1>5, <1>6 DEF IInv

-----------------------------------------------------------------------------
(* What the back-ends' steps have in common.                               *)

\* The lock and the promises as they are when a call of c's has granted the
\* lock to it, or taken its promise away, or left it as it is.
Others(c) == \A d \in Clients \ {c} : ~Standing(d)

Granted(c, time) ==
    /\ Others(c)
    /\ holder' = c
    /\ expires' = time + TTL
    /\ Promise(c, time + TTL - Margin)
    /\ time + TTL - Margin <= Cap(c)
    /\ time \in 0..(MaxClock + MaxSkew)
    /\ UNCHANGED clock

\* The lock may change as well, if nobody else has a promise, or whoever has
\* one is robbed of it.
Dropped(c, victims) ==
    /\ Answer(c, 0, victims)
    /\ \/ UNCHANGED <<holder, expires>>
       \/ \A d \in Clients \ {c} : Standing(d) => d \in victims
    /\ holder' \notin victims
    /\ UNCHANGED clock

Left(c, victims) ==
    /\ Rob(victims)
    /\ \/ UNCHANGED <<holder, expires>>
       \/ \A d \in Clients : Standing(d) => d \in victims
       \/ Others(c) /\ holder' = c /\ expires' = Cap(c) + Margin
    /\ holder' \notin victims
    /\ c \in robbed /\ holder' = c => type # "redis" /\ pc'[c] = "verify"
    /\ UNCHANGED clock

LEMMA LockType ==
    ASSUME IInv
    PROVE  /\ clock \in Nat /\ expires \in Nat /\ TTL \in Nat /\ TTL > 0
           /\ MaxSkew \in Nat /\ MaxSkew <= TTL /\ MaxClock \in Nat
           /\ until \in [Clients -> Nat]
           /\ Margin \in 0..MaxSkew
           /\ \A c \in Clients :
                /\ Skew[c] \in 0..MaxSkew
                /\ Cap(c) \in Nat /\ Cap(c) <= clock + TTL
                /\ Cap(c) + Margin \in 0..(MaxClock + MaxSkew + TTL)
<1>1. clock \in 0..MaxClock /\ MaxClock \in Nat /\ TTL \in Nat /\ TTL > 0
  BY TimeAssumption DEF IInv, TypeOK
<1>2. MaxSkew \in Nat /\ MaxSkew <= TTL /\ \A c \in Clients : Skew[c] \in 0..MaxSkew
  BY <1>1, SkewAssumption
<1>3. expires \in Nat /\ until \in [Clients -> Nat]
  BY <1>1, <1>2 DEF IInv, TypeOK
<1>4. Margin \in 0..MaxSkew
  BY <1>2 DEF Margin
<1>5. ASSUME NEW c \in Clients
      PROVE  /\ Cap(c) \in Nat /\ Cap(c) <= clock + TTL
             /\ Cap(c) + Margin \in 0..(MaxClock + MaxSkew + TTL)
  <2>1. CASE Skewed
    BY <2>1, <1>1, <1>2 DEF Cap, Margin, Now
  <2>2. CASE ~Skewed
    BY <2>2, <1>1, <1>2 DEF Cap, Margin, Now
  <2> QED
    BY <2>1, <2>2
<1> QED
  BY <1>1, <1>2, <1>3, <1>4, <1>5

\* Cap and Margin move with the clock only.
LEMMA CapMoves ==
    ASSUME IInv, type' = type, clock' \in {clock, clock + 1}
    PROVE  Margin' = Margin /\ \A c \in Clients : Cap(c)' = Cap(c) + (clock' - clock)
<1>1. Margin' = Margin
  BY DEF Margin, Skewed, IsDB
<1>2. ASSUME NEW c \in Clients PROVE Cap(c)' = Cap(c) + (clock' - clock)
  BY <1>1, LockType DEF Cap, Now, Margin, Skewed, IsDB
<1> QED
  BY <1>1, <1>2

\* The promises of the lease are those that stand.
LEMMA DueStands ==
    ASSUME IInv, NEW c \in Clients
    PROVE  Lease!Entitled(c) <=> Standing(c)
  BY LockType DEF Lease!Entitled, due, Standing

LEMMA GrantedStep ==
    ASSUME IInv, type' = type, NEW c \in Clients, NEW time, Granted(c, time)
    PROVE  Capped' /\ Kept' /\ Lease!Grant(c)
<1> USE LockType, CapMoves DEF Granted, Promise, Answer
<1>1. Capped'
  BY DEF IInv, Capped
<1>2. Kept'
  <2>1. ASSUME NEW d \in Clients, d # c PROVE ~Standing(d)'
    BY <2>1 DEF Others, Standing
  <2> QED
    BY <2>1 DEF Kept
<1>3. Lease!Grant(c)
  <2>1. time + TTL - Margin \in 0..(clock + TTL)
    OBVIOUS
  <2>2. due' = [due EXCEPT ![c] = time + TTL - Margin]
    BY DEF due
  <2>3. \A d \in Clients \ {c} : ~Lease!Entitled(d)
    BY DueStands DEF Others
  <2> QED
    BY <2>1, <2>2, <2>3 DEF Lease!Grant
<1> QED
  BY <1>1, <1>2, <1>3

LEMMA DroppedStep ==
    ASSUME IInv, type' = type, NEW c \in Clients, NEW victims \in SUBSET Clients,
           Dropped(c, victims)
    PROVE  Capped' /\ Kept' /\ Lease!Drop({c} \cup victims)
<1> USE LockType, CapMoves DEF Dropped, Answer
<1>1. Capped'
  BY DEF IInv, Capped
<1>2. Kept'
  <2>1. ASSUME NEW d \in Clients, Standing(d)'
        PROVE  d # c /\ Standing(d) /\ d \notin victims /\ until'[d] = until[d]
    BY <2>1 DEF Standing
  <2> QED
    BY <2>1 DEF IInv, Kept
<1>3. Lease!Drop({c} \cup victims)
  BY DEF Lease!Drop, due
<1> QED
  BY <1>1, <1>2, <1>3

LEMMA LeftStep ==
    ASSUME IInv, type' = type, NEW c \in Clients, NEW victims \in SUBSET Clients,
           Left(c, victims)
    PROVE  Capped' /\ Kept' /\ Lease!Drop(victims)
<1> USE LockType, CapMoves DEF Left, Rob
<1>1. Capped'
  BY DEF IInv, Capped
<1>2. Kept'
  <2>1. ASSUME NEW d \in Clients, Standing(d)'
        PROVE  Standing(d) /\ d \notin victims /\ until'[d] = until[d]
    BY <2>1 DEF Standing
  <2> QED
    BY <2>1 DEF IInv, Capped, Others, Kept
<1>3. Lease!Drop(victims)
  BY DEF Lease!Drop, due
<1> QED
  BY <1>1, <1>2, <1>3

\* What a client has robbed is somebody else's, and a client that is told
\* something is no longer robbed.
LEMMA RefusedStep ==
    ASSUME IInv, type' = type, NEW c \in Clients, NEW victims \in SUBSET Clients,
           (\E time : Granted(c, time)) \/ Dropped(c, victims) \/ Left(c, victims),
           holder' \in {holder, c, Nobody},
           \A d \in Clients \ {c} : pc'[d] = pc[d]
    PROVE  RobbedIsRefused'
<1> SUFFICES ASSUME NEW d \in robbed', holder' = d
             PROVE  type # "redis" /\ pc'[d] = "verify"
  BY DEF RobbedIsRefused
<1>1. d \in Clients
  BY DEF IInv, TypeOK, Granted, Dropped, Left, Promise, Answer, Rob
<1>2. CASE d = c
  BY <1>2 DEF Granted, Dropped, Left, Promise, Answer, Rob
<1>3. CASE d # c
  <2>1. d \in robbed /\ holder = d
    BY <1>1, <1>3, ClientsAssumption DEF Granted, Dropped, Left, Promise, Answer, Rob
  <2> QED
    BY <1>1, <1>3, <2>1 DEF IInv, RobbedIsRefused
<1> QED
  BY <1>2, <1>3

\* A call of c's preserves the invariant and is a step of the lease.
LEMMA CallStep ==
    ASSUME IInv, type' = type, NEW c \in Clients, NEW victims \in SUBSET Clients,
           (\E time : Granted(c, time)) \/ Dropped(c, victims) \/ Left(c, victims),
           holder' \in {holder, c, Nobody},
           expires' \in 0..(MaxClock + MaxSkew + TTL),
           pc' \in [Clients -> Redis!PCs \cup DB!PCs],
           \A d \in Clients \ {c} : pc'[d] = pc[d],
           now' \in [Clients -> 0..(MaxClock + MaxSkew)],
           Working'
    PROVE  Step
<1> USE DEF Promise, Answer, Rob
<1>1. /\ until' \in [Clients -> 0..(MaxClock + MaxSkew + TTL)]
      /\ robbed' \subseteq Clients
      /\ clock' = clock
  <2>1. CASE \E time : Granted(c, time)
    <3>1. PICK time : Granted(c, time)
      BY <2>1
    <3>2. time + TTL - Margin \in 0..(MaxClock + MaxSkew + TTL)
      BY <3>1, LockType DEF Granted
    <3> QED
      BY <3>1, <3>2 DEF Granted, IInv, TypeOK
  <2>2. CASE Dropped(c, victims)
    <3>1. 0 \in 0..(MaxClock + MaxSkew + TTL)
      BY LockType
    <3> QED
      BY <2>2, <3>1 DEF Dropped, IInv, TypeOK
  <2>3. CASE Left(c, victims)
    BY <2>3 DEF Left, IInv, TypeOK
  <2> QED
    BY <2>1, <2>2, <2>3
<1>2. TypeOK'
  BY <1>1 DEF IInv, TypeOK
<1>3. RobbedIsRefused'
  BY RefusedStep
<1>4. CASE \E time : Granted(c, time)
  <2>1. PICK time : Granted(c, time)
    BY <1>4
  <2>2. Capped' /\ Kept' /\ Lease!Grant(c)
    BY <2>1, GrantedStep
  <2> QED
    BY <1>2, <1>3, <2>2 DEF IInv, Step, Lease!Next
<1>5. CASE Dropped(c, victims)
  BY <1>2, <1>3, <1>5, DroppedStep DEF IInv, Step, Lease!Next
<1>6. CASE Left(c, victims)
  BY <1>2, <1>3, <1>6, LeftStep DEF IInv, Step, Lease!Next
<1> QED
  BY <1>4, <1>5, <1>6

\* Where a client finds the lock its own or gone, nobody else has a promise;
\* where it finds it expired, nobody has.
LEMMA OthersHaveNone ==
    ASSUME IInv, NEW c \in Clients, holder \in {c, Nobody}
    PROVE  Others(c)
  BY ClientsAssumption DEF IInv, Kept, Others

LEMMA NobodyHasOne ==
    ASSUME IInv, holder = Nobody \/ expires <= clock + Margin
    PROVE  \A d \in Clients : ~Standing(d)
<1>1. CASE holder = Nobody
  BY <1>1, ClientsAssumption DEF IInv, Kept
<1>2. CASE expires <= clock + Margin
  BY <1>2, LockType DEF IInv, Kept, Standing
<1> QED
  BY <1>1, <1>2

\* Time passes, and may take the lock away once it has expired.
LEMMA TickStep ==
    ASSUME IInv, type' = type,
           clock < MaxClock, clock' = clock + 1,
           UNCHANGED <<expires, until, robbed, pc, now>>,
           holder' = holder \/ (holder' = Nobody /\ expires <= clock' /\ type = "redis")
    PROVE  Step
<1> USE LockType, CapMoves
<1>1. TypeOK'
  BY DEF IInv, TypeOK
<1>2. Capped'
  BY DEF IInv, Capped
<1>3. ASSUME NEW c \in Clients, Standing(c)' PROVE Standing(c)
  BY <1>3 DEF Standing
<1>4. Kept'
  BY <1>3 DEF IInv, Kept, Standing
<1>5. Working'
  <2>1. ASSUME NEW c \in Clients PROVE Now(c)' = Now(c) + 1
    BY DEF Now
  <2>2. CASE IsDB
    <3>1. ASSUME NEW c \in Clients PROVE InTime(c)'
      <4>1. now[c] <= Now(c) /\ now[c] \in Int /\ Now(c) \in Int
        BY <2>2 DEF IInv, TypeOK, Working, InTime, Now
      <4>2. holder' = holder
        BY <2>2 DEF IsDB
      <4> QED
        BY <1>3, <2>1, <2>2, <4>1, <4>2 DEF IInv, Working, InTime
    <3> QED
      BY <2>2, <3>1 DEF Working
  <2>3. CASE ~IsDB
    BY <2>3 DEF Working, IsDB
  <2> QED
    BY <2>2, <2>3
<1>6. RobbedIsRefused'
  BY ClientsAssumption DEF IInv, TypeOK, RobbedIsRefused
<1>7. Lease!Tick
  BY DEF Lease!Tick, due
<1> QED
  BY <1>1, <1>2, <1>4, <1>5, <1>6, <1>7 DEF IInv, Step, Lease!Next

-----------------------------------------------------------------------------
(* InMemoryStorage.                                                        *)

LEMMA MemoryStep == IInv /\ UseMemory /\ UNCHANGED type => Step
<1> SUFFICES ASSUME IInv, UseMemory, UNCHANGED type PROVE Step
  OBVIOUS
<1>0. /\ {} \in SUBSET Clients
      /\ \A c \in Clients : c \in robbed /\ holder = c => type # "redis" /\ pc[c] = "verify"
  BY DEF IInv, RobbedIsRefused
<1> USE DEF Memory!Expired, Memory!Write, Memory!Deny, Memory!SetLock,
            Memory!KeepLock, Memory!Promise, Memory!Refuse, Memory!Answer, Memory!Rob,
            Memory!NoAnswer, Promise, Answer, Rob
<1>1. /\ type = "memory" /\ Margin = 0 /\ Working'
      /\ UNCHANGED <<pc, now>>
      /\ pc' \in [Clients -> Redis!PCs \cup DB!PCs]
      /\ now' \in [Clients -> 0..(MaxClock + MaxSkew)]
  BY DEF UseMemory, Margin, Skewed, IsDB, Working, IInv, TypeOK
<1>2. ASSUME NEW c \in Clients, Memory!Write(c),
             holder = Nobody \/ Memory!Expired \/ holder = c
      PROVE  Step
  <2>1. Others(c)
    BY <1>1, <1>2, OthersHaveNone, NobodyHasOne, LockType DEF Others
  <2>2. Granted(c, clock)
    <3>1. clock + TTL - Margin = clock + TTL /\ Cap(c) = clock + TTL
      BY <1>1, LockType DEF Cap, Skewed, IsDB
    <3>2. clock \in 0..(MaxClock + MaxSkew)
      BY LockType DEF IInv, TypeOK
    <3> QED
      BY <1>2, <2>1, <3>1, <3>2, LockType DEF Granted
  <2>3. expires' \in 0..(MaxClock + MaxSkew + TTL)
    BY <1>2, LockType DEF IInv, TypeOK
  <2> QED
    BY <1>0, <1>1, <1>2, <2>2, <2>3, CallStep
<1>3. ASSUME NEW c \in Clients, Memory!Deny(c) PROVE Step
  <2>1. Dropped(c, {})
    BY <1>3 DEF Dropped, Others
  <2> QED
    BY <1>0, <1>1, <1>3, <2>1, CallStep DEF IInv, TypeOK
<1>4. CASE Memory!Tick
  BY <1>1, <1>4, TickStep DEF Memory!Tick
<1>5. ASSUME NEW c \in Clients, Memory!TryAcquireLock(c) PROVE Step
  BY <1>2, <1>3, <1>5 DEF Memory!TryAcquireLock
<1>6. ASSUME NEW c \in Clients, Memory!RenewLock(c) PROVE Step
  BY <1>2, <1>3, <1>6 DEF Memory!RenewLock
<1>7. ASSUME NEW c \in Clients, Memory!ReleaseLock(c) PROVE Step
  <2>1. Others(c) \/ UNCHANGED <<holder, expires>>
    BY <1>7, OthersHaveNone DEF Memory!ReleaseLock
  <2>2. Dropped(c, {})
    BY <1>7, <2>1 DEF Dropped, Others, Memory!ReleaseLock
  <2> QED
    BY <1>1, <1>7, <2>2, CallStep DEF Memory!ReleaseLock, IInv, TypeOK
<1> QED
  BY <1>4, <1>5, <1>6, <1>7 DEF UseMemory, Memory!Next

-----------------------------------------------------------------------------
(* RedisStorage.                                                           *)

LEMMA RedisStep == IInv /\ UseRedis /\ UNCHANGED type => Step
<1> SUFFICES ASSUME IInv, UseRedis, UNCHANGED type PROVE Step
  OBVIOUS
<1>0. /\ {} \in SUBSET Clients
      /\ \A c \in Clients : c \in robbed /\ holder = c => type # "redis" /\ pc[c] = "verify"
  BY DEF IInv, RobbedIsRefused
<1> USE DEF Redis!SetLock, Redis!KeepLock, Redis!Promise, Redis!Refuse, Redis!Goto,
            Redis!Answer, Redis!Rob, Redis!NoAnswer, Redis!lockVars, Promise, Answer, Rob
<1>1. /\ type = "redis" /\ Margin = 0 /\ Working' /\ UNCHANGED now
      /\ now' \in [Clients -> 0..(MaxClock + MaxSkew)]
      /\ {"idle", "eval", "verify", "delete"} \subseteq Redis!PCs \cup DB!PCs
      /\ pc \in [Clients -> Redis!PCs \cup DB!PCs]
      /\ expires \in 0..(MaxClock + MaxSkew + TTL)
  BY DEF UseRedis, Margin, Skewed, IsDB, Working, IInv, TypeOK, Redis!PCs
<1>2. /\ clock + TTL \in 0..(MaxClock + MaxSkew + TTL)
      /\ clock + TTL - Margin = clock + TTL
      /\ clock \in 0..(MaxClock + MaxSkew)
      /\ \A c \in Clients : Cap(c) = clock + TTL /\ Cap(c) + Margin = clock + TTL
  BY <1>1, LockType DEF Cap, Skewed, IsDB, IInv, TypeOK
<1>3. ASSUME NEW c \in Clients, holder \in {c, Nobody}, Redis!SetLock(c, clock),
             Redis!Promise(c, clock + TTL), UNCHANGED clock
      PROVE  Granted(c, clock)
  BY <1>2, <1>3, OthersHaveNone, LockType DEF Granted
<1>4. CASE Redis!Tick
  BY <1>1, <1>4, TickStep DEF Redis!Tick
<1>5. ASSUME NEW c \in Clients, Redis!TryAcquireLock(c) PROVE Step
  <2>1. (\E time : Granted(c, time)) \/ Dropped(c, {})
    BY <1>3, <1>5, OthersHaveNone DEF Redis!TryAcquireLock, Dropped, Others
  <2> QED
    BY <1>0, <1>1, <1>2, <1>5, <2>1, CallStep DEF Redis!TryAcquireLock
<1>6. ASSUME NEW c \in Clients, Redis!RenewGet(c) PROVE Step
  <2>1. Dropped(c, {}) \/ Left(c, {})
    BY <1>0, <1>6 DEF Redis!RenewGet, Dropped, Left
  <2> QED
    BY <1>1, <1>6, <2>1, CallStep DEF Redis!RenewGet
<1>7. ASSUME NEW c \in Clients, Redis!RenewEval(c) PROVE Step
  <2>1. (\E time : Granted(c, time)) \/ Dropped(c, {}) \/ Left(c, {})
    BY <1>0, <1>2, <1>3, <1>7, OthersHaveNone DEF Redis!RenewEval, Dropped, Left
  <2> QED
    BY <1>1, <1>2, <1>7, <2>1, CallStep DEF Redis!RenewEval
<1>8. ASSUME NEW c \in Clients, Redis!ReleaseEval(c) PROVE Step
  <2>1. Dropped(c, {})
    BY <1>8, OthersHaveNone DEF Redis!ReleaseEval, Dropped, Others
  <2> QED
    BY <1>1, <1>8, <2>1, CallStep DEF Redis!ReleaseEval
<1>9. ASSUME NEW c \in Clients, Redis!ReleaseVerify(c) PROVE Step
  <2>1. Left(c, {})
    BY <1>0, <1>1, <1>9 DEF Redis!ReleaseVerify, Left
  <2> QED
    BY <1>1, <1>9, <2>1, CallStep DEF Redis!ReleaseVerify
<1>10. ASSUME NEW c \in Clients, Redis!ForceDelete(c) PROVE Step
  <2>1. CASE UNCHANGED holder /\ Redis!NoAnswer
    <3>1. Left(c, {})
      BY <1>0, <1>10, <2>1 DEF Redis!ForceDelete, Left
    <3> QED
      BY <1>1, <1>10, <2>1, <3>1, CallStep DEF Redis!ForceDelete
  <2>2. CASE holder' = Nobody /\ Redis!Rob({holder} \ {Nobody})
    <3>1. {holder} \ {Nobody} \in SUBSET Clients
      BY DEF IInv, TypeOK
    <3>2. Left(c, {holder} \ {Nobody})
      BY <1>10, <2>2, ClientsAssumption DEF Redis!ForceDelete, Left, IInv, Kept
    <3> QED
      BY <1>1, <1>10, <2>2, <3>1, <3>2, CallStep DEF Redis!ForceDelete
  <2> QED
    BY <1>10, <2>1, <2>2 DEF Redis!ForceDelete
<1>11. ASSUME NEW c \in Clients, Redis!Crash(c) PROVE Step
  <2>1. Dropped(c, {})
    BY <1>11 DEF Redis!Crash, Dropped
  <2> QED
    BY <1>1, <1>11, <2>1, CallStep DEF Redis!Crash
<1> QED
  BY <1>4, <1>5, <1>6, <1>7, <1>8, <1>9, <1>10, <1>11 DEF UseRedis, Redis!Next

-----------------------------------------------------------------------------
(* SpannerStorage.                                                         *)

LEMMA SpannerStep == IInv /\ UseSpanner /\ UNCHANGED type => Step
<1> SUFFICES ASSUME IInv, UseSpanner, UNCHANGED type PROVE Step
  OBVIOUS
<1>0. /\ {} \in SUBSET Clients
      /\ \A c \in Clients : c \in robbed /\ holder = c => type # "redis" /\ pc[c] = "verify"
  BY DEF IInv, RobbedIsRefused
<1> USE DEF Spanner!SetLock, Spanner!KeepLock, Spanner!Promise, Spanner!Refuse,
            Spanner!Answer, Spanner!Rob, Spanner!NoAnswer, Promise, Answer, Rob
<1>1. /\ type = "spanner" /\ Margin = MaxSkew /\ Working' /\ UNCHANGED <<pc, now>>
      /\ pc' \in [Clients -> Redis!PCs \cup DB!PCs]
      /\ now' \in [Clients -> 0..(MaxClock + MaxSkew)]
      /\ expires \in 0..(MaxClock + MaxSkew + TTL)
  BY DEF UseSpanner, Margin, Skewed, IsDB, Working, IInv, TypeOK
<1>2. ASSUME NEW c \in Clients
      PROVE  /\ Spanner!Now(c) \in 0..(MaxClock + MaxSkew)
             /\ Spanner!Now(c) + TTL \in 0..(MaxClock + MaxSkew + TTL)
             /\ Spanner!Promised(Spanner!Now(c)) = Spanner!Now(c) + TTL - Margin
             /\ Spanner!Now(c) + TTL - Margin = Cap(c)
             /\ Spanner!Now(c) + TTL = Cap(c) + Margin
  BY <1>1, LockType DEF Spanner!Now, Spanner!Promised, Now, Cap, Skewed, IInv, TypeOK
<1>3. ASSUME NEW c \in Clients, Spanner!Available(c) PROVE Others(c)
  <2>1. clock + ServerSkew <= clock + Margin /\ ServerSkew \in Nat
    BY <1>1, LockType, SkewAssumption
  <2>2. CASE holder = c
    BY <1>3, <2>2, OthersHaveNone
  <2>3. CASE holder # c
    <3>1. holder = Nobody \/ expires <= clock + ServerSkew
      BY <1>3, <2>1, <2>3, LockType DEF Spanner!Available, Spanner!Live, Spanner!ServerNow
    <3> QED
      BY <1>3, <2>1, <3>1, NobodyHasOne, LockType DEF Others
  <2> QED
    BY <2>2, <2>3
<1>4. ASSUME NEW c \in Clients, Spanner!Available(c), Spanner!Take(c), UNCHANGED clock
      PROVE  Granted(c, Spanner!Now(c))
  <2>1. Others(c)
    BY <1>3, <1>4
  <2>2. holder' = c /\ expires' = Spanner!Now(c) + TTL
    BY <1>4 DEF Spanner!Take
  <2>3. Promise(c, Spanner!Now(c) + TTL - Margin)
    BY <1>2, <1>4 DEF Spanner!Take
  <2>4. Spanner!Now(c) + TTL - Margin <= Cap(c) /\ Spanner!Now(c) \in 0..(MaxClock + MaxSkew)
    BY <1>2, LockType
  <2> QED
    BY <1>4, <2>1, <2>2, <2>3, <2>4 DEF Granted
<1>5. CASE Spanner!Tick
  BY <1>1, <1>5, TickStep DEF Spanner!Tick
<1>6. CASE Spanner!CleanupExpiredLocks
  <2>1. PICK c \in Clients : TRUE
    BY <1>6, LockType DEF Spanner!CleanupExpiredLocks, IInv, TypeOK
  <2>2. \A d \in Clients : ~Standing(d)
    BY <1>1, <1>6, NobodyHasOne, LockType, SkewAssumption
       DEF Spanner!CleanupExpiredLocks, Spanner!ServerNow
  <2>3. Left(c, {})
    BY <1>6, <2>2, ClientsAssumption DEF Spanner!CleanupExpiredLocks, Left
  <2> QED
    BY <1>1, <1>6, <2>3, CallStep DEF Spanner!CleanupExpiredLocks
<1>7. ASSUME NEW c \in Clients, Spanner!TryAcquireLock(c) PROVE Step
  <2>1. (\E time : Granted(c, time)) \/ Dropped(c, {})
    BY <1>3, <1>4, <1>7 DEF Spanner!TryAcquireLock, Dropped, Others
  <2> QED
    BY <1>1, <1>2, <1>7, <2>1, CallStep DEF Spanner!TryAcquireLock, Spanner!Take
<1>8. ASSUME NEW c \in Clients, Spanner!RenewLock(c) PROVE Step
  <2>1. (\E time : Granted(c, time)) \/ Dropped(c, {}) \/ Left(c, {})
    BY <1>0, <1>1, <1>2, <1>3, <1>4, <1>8 DEF Spanner!RenewLock, Spanner!Available, Dropped, Left
  <2> QED
    BY <1>0, <1>1, <1>2, <1>8, <2>1, CallStep DEF Spanner!RenewLock, Spanner!Take
<1>9. ASSUME NEW c \in Clients, Spanner!ReleaseLock(c) PROVE Step
  <2>1. Dropped(c, {})
    BY <1>9, OthersHaveNone DEF Spanner!ReleaseLock, Dropped, Others
  <2> QED
    BY <1>1, <1>9, <2>1, CallStep DEF Spanner!ReleaseLock
<1>10. ASSUME NEW c \in Clients, Spanner!Crash(c) PROVE Step
  <2>1. Dropped(c, {})
    BY <1>10 DEF Spanner!Crash, Dropped
  <2> QED
    BY <1>1, <1>10, <2>1, CallStep DEF Spanner!Crash
<1> QED
  BY <1>5, <1>6, <1>7, <1>8, <1>9, <1>10 DEF UseSpanner, Spanner!Next

-----------------------------------------------------------------------------
(* DBStorage.                                                              *)

\* What the other clients' calls work with is not changed by a call of c's.
LEMMA WorkingStep ==
    ASSUME IInv, IsDB, type' = type, NEW c \in Clients,
           clock' = clock,
           holder' \in {holder, c, Nobody},
           holder' = c \/ UNCHANGED expires,
           \E label : DB!Goto(c, label),
           now' = now \/ now' = [now EXCEPT ![c] = Now(c)],
           pc'[c] = "verify" /\ holder' = c => expires' = now'[c] + TTL,
           pc'[c] = "create" => ~Standing(c)',
           \A d \in Clients \ {c} : Standing(d)' => Standing(d)
    PROVE  Working'
<1>1. ASSUME NEW d \in Clients PROVE Now(d)' = Now(d) /\ Now(d) \in Int
  BY LockType DEF Now
<1>2. ASSUME NEW d \in Clients PROVE InTime(d)'
  <2>1. now'[d] <= Now(d)
    BY <1>1 DEF IInv, TypeOK, Working, InTime
  <2>2. CASE d = c
    BY <1>1, <2>1, <2>2 DEF InTime
  <2>3. CASE d # c
    <3>1. pc'[d] = pc[d] /\ now'[d] = now[d]
      BY <2>3 DEF DB!Goto, IInv, TypeOK
    <3>2. holder' = d => holder = d /\ UNCHANGED expires
      BY <2>3, ClientsAssumption
    <3> QED
      BY <1>1, <2>1, <3>1, <3>2 DEF IInv, Working, InTime
  <2> QED
    BY <2>2, <2>3
<1> QED
  BY <1>2 DEF Working

\* So a call of c's has to be right about the lock only.
LEMMA DBCallStep ==
    ASSUME IInv, IsDB, type' = type, NEW c \in Clients, NEW victims \in SUBSET Clients,
           (\E time : Granted(c, time)) \/ Dropped(c, victims) \/ Left(c, victims),
           holder' \in {holder, c, Nobody},
           holder' = c \/ UNCHANGED expires,
           expires' \in 0..(MaxClock + MaxSkew + TTL),
           \E label \in DB!PCs : DB!Goto(c, label),
           now' = now \/ now' = [now EXCEPT ![c] = Now(c)],
           pc'[c] = "verify" /\ holder' = c => expires' = now'[c] + TTL,
           pc'[c] = "create" => ~Standing(c)'
    PROVE  Step
<1>1. clock' = clock /\ \A d \in Clients \ {c} : Standing(d)' => Standing(d)
  BY LockType DEF Granted, Dropped, Left, Promise, Answer, Rob, Standing
<1>2. Working'
  BY <1>1, WorkingStep
<1>3. pc' \in [Clients -> Redis!PCs \cup DB!PCs]
  BY DEF DB!Goto, IInv, TypeOK
<1>4. \A d \in Clients \ {c} : pc'[d] = pc[d]
  BY DEF DB!Goto, IInv, TypeOK
<1>5. now' \in [Clients -> 0..(MaxClock + MaxSkew)]
  <2>1. Now(c) \in 0..(MaxClock + MaxSkew)
    BY LockType DEF Now, IInv, TypeOK
  <2> QED
    BY <2>1 DEF IInv, TypeOK
<1> QED
  BY <1>2, <1>3, <1>4, <1>5, CallStep

LEMMA DBStep == IInv /\ UseDB /\ UNCHANGED type => Step
<1> SUFFICES ASSUME IInv, UseDB, UNCHANGED type PROVE Step
  OBVIOUS
<1>0. /\ {} \in SUBSET Clients
      /\ \A c \in Clients : c \in robbed /\ holder = c => type # "redis" /\ pc[c] = "verify"
  BY DEF IInv, RobbedIsRefused
<1> USE DEF DB!SetLock, DB!KeepLock, DB!Promise, DB!Refuse, DB!Answer, DB!Rob,
            DB!NoAnswer, Promise, Answer, Rob
<1>1. /\ IsDB /\ Margin = MaxSkew
      /\ pc \in [Clients -> Redis!PCs \cup DB!PCs]
      /\ now \in [Clients -> 0..(MaxClock + MaxSkew)]
      /\ expires \in 0..(MaxClock + MaxSkew + TTL)
  BY DEF UseDB, IsDB, Margin, Skewed, IInv, TypeOK
<1>2. {"idle", "retry", "update", "create", "verify"} = DB!PCs
  BY DEF DB!PCs
<1>3. ASSUME NEW c \in Clients, NEW time \in 0..(MaxClock + MaxSkew), time <= Now(c)
      PROVE  /\ time + TTL \in 0..(MaxClock + MaxSkew + TTL)
             /\ DB!Promised(time) = time + TTL - Margin
             /\ time + TTL - Margin <= Cap(c)
  BY <1>1, <1>3, LockType DEF DB!Promised, Now, Cap, Skewed, IInv, TypeOK
<1>4. ASSUME NEW c \in Clients
      PROVE  /\ now[c] \in 0..(MaxClock + MaxSkew) /\ now[c] <= Now(c)
             /\ Now(c) \in 0..(MaxClock + MaxSkew) /\ Now(c) <= Now(c)
             /\ Now(c) + TTL = Cap(c) + Margin
             /\ DB!Now(c) = Now(c)
             /\ pc[c] = "verify" /\ holder = c => expires = now[c] + TTL
             /\ Now(c) <= clock + Margin
  BY <1>1, LockType DEF IInv, TypeOK, Working, InTime, Now, Cap, Skewed, DB!Now
<1>5. CASE DB!Tick
  BY <1>1, <1>5, TickStep DEF DB!Tick, UseDB
<1>6. ASSUME NEW c \in Clients, DB!TryCheck(c) PROVE Step
  <2>1. Dropped(c, {}) \/ Left(c, {})
    BY <1>0, <1>6 DEF DB!TryCheck, Dropped, Left
  <2>2. pc'[c] # "verify" /\ (pc'[c] = "create" => ~Standing(c)')
    <3>1. pc'[c] = "create" => (holder = Nobody \/ expires <= Now(c)) /\ UNCHANGED <<clock, until, robbed>>
      BY <1>1, <1>4, <1>6, LockType DEF DB!TryCheck, DB!Goto, DB!Live
    <3>2. pc'[c] = "create" => ~Standing(c)
      BY <1>1, <1>4, <3>1, NobodyHasOne, LockType
    <3> QED
      BY <1>1, <1>6, <3>1, <3>2 DEF DB!TryCheck, DB!Goto, Standing
  <2> QED
    BY <1>1, <1>2, <1>4, <1>6, <2>1, <2>2, DBCallStep DEF DB!TryCheck
<1>7. ASSUME NEW c \in Clients, DB!Retry(c) PROVE Step
  <2>1. Left(c, {})
    BY <1>0, <1>7 DEF DB!Retry, Left
  <2>2. pc'[c] \notin {"verify", "create"}
    BY <1>1, <1>7 DEF DB!Retry, DB!Goto
  <2> QED
    BY <1>1, <1>2, <1>7, <2>1, <2>2, DBCallStep DEF DB!Retry
<1>8. ASSUME NEW c \in Clients, DB!TryUpdate(c) PROVE Step
  <2>1. (\E time : Granted(c, time)) \/ Dropped(c, {})
    <3>1. holder = c => Others(c)
      BY OthersHaveNone
    <3>2. holder = c /\ DB!SetLock(c, now[c]) /\ DB!Promise(c, DB!Promised(now[c]))
          => Granted(c, now[c])
      BY <1>3, <1>4, <1>8, <3>1 DEF DB!TryUpdate, Granted
    <3> QED
      BY <1>8, <3>1, <3>2 DEF DB!TryUpdate, Dropped, Others
  <2>2. pc'[c] \notin {"verify", "create"}
    BY <1>1, <1>8 DEF DB!TryUpdate, DB!Goto
  <2> QED
    BY <1>1, <1>2, <1>3, <1>4, <1>8, <2>1, <2>2, DBCallStep DEF DB!TryUpdate
<1>9. ASSUME NEW c \in Clients, DB!TryCreate(c) PROVE Step
  <2> DEFINE victims == DB!Robbed(c)
  <2>1. ~Standing(c) /\ (c \in robbed => holder # c)
    BY <1>1, <1>9 DEF DB!TryCreate, IInv, Working, InTime, RobbedIsRefused
  <2>2. victims \in SUBSET Clients /\ c \notin victims
    BY DEF DB!Robbed, DB!Live, IInv, TypeOK
  <2>3. ASSUME NEW d \in Clients, Standing(d) PROVE d \in victims
    <3>1. holder = d /\ clock + Margin < expires
      BY <2>3, LockType DEF IInv, Kept, Standing
    <3>2. now[c] < expires
      BY <1>4, <3>1, LockType
    <3> QED
      BY <2>1, <2>3, <3>1, <3>2, ClientsAssumption DEF DB!Robbed, DB!Live
  <2>4. CASE DB!SetLock(c, now[c]) /\ DB!Rob(victims) /\ DB!Goto(c, "verify")
    <3>1. Left(c, victims)
      BY <1>1, <1>9, <2>2, <2>3, <2>4 DEF Left, DB!TryCreate, DB!Goto, IsDB
    <3> QED
      BY <1>1, <1>2, <1>3, <1>4, <1>9, <2>2, <2>4, <3>1, DBCallStep DEF DB!TryCreate, DB!Goto
  <2>5. CASE DB!SetLock(c, now[c]) /\ DB!Answer(c, 0, victims) /\ DB!Goto(c, "idle")
    <3>1. Dropped(c, victims)
      BY <1>9, <2>2, <2>3, <2>5 DEF Dropped, DB!TryCreate
    <3> QED
      BY <1>1, <1>2, <1>3, <1>4, <1>9, <2>2, <2>5, <3>1, DBCallStep DEF DB!TryCreate, DB!Goto
  <2>6. CASE DB!KeepLock /\ DB!Refuse(c) /\ DB!Goto(c, "idle")
    <3>1. Dropped(c, {})
      BY <1>9, <2>6 DEF Dropped, DB!TryCreate
    <3> QED
      BY <1>0, <1>1, <1>2, <1>9, <2>6, <3>1, DBCallStep DEF DB!TryCreate, DB!Goto
  <2> HIDE DEF victims
  <2> QED
    BY <1>9, <2>4, <2>5, <2>6 DEF DB!TryCreate, victims
<1>10. ASSUME NEW c \in Clients, DB!TryVerify(c) PROVE Step
  <2>1. (\E time : Granted(c, time)) \/ Dropped(c, {})
    <3>1. holder = c => Others(c)
      BY OthersHaveNone
    <3>2. holder = c /\ DB!Promise(c, DB!Promised(now[c])) => Granted(c, now[c])
      BY <1>3, <1>4, <1>10, <3>1 DEF DB!TryVerify, Granted
    <3> QED
      BY <1>10, <3>2 DEF DB!TryVerify, Dropped
  <2>2. pc'[c] \notin {"verify", "create"}
    BY <1>1, <1>10 DEF DB!TryVerify, DB!Goto
  <2> QED
    BY <1>1, <1>2, <1>10, <2>1, <2>2, DBCallStep DEF DB!TryVerify
<1>11. ASSUME NEW c \in Clients, DB!RenewLock(c) PROVE Step
  <2>1. (\E time : Granted(c, time)) \/ Dropped(c, {}) \/ Left(c, {})
    <3>1. holder = c => Others(c)
      BY OthersHaveNone
    <3>2. holder = c /\ DB!SetLock(c, Now(c)) /\ DB!Promise(c, DB!Promised(Now(c)))
          => Granted(c, Now(c))
      BY <1>3, <1>4, <1>11, <3>1 DEF DB!RenewLock, Granted
    <3> QED
      BY <1>0, <1>4, <1>11, <3>1, <3>2 DEF DB!RenewLock, Dropped, Left
  <2>2. pc'[c] \notin {"verify", "create"} /\ DB!Goto(c, "idle")
    BY <1>1, <1>11 DEF DB!RenewLock, DB!Goto
  <2> QED
    BY <1>0, <1>1, <1>2, <1>3, <1>4, <1>11, <2>1, <2>2, DBCallStep DEF DB!RenewLock
<1>12. ASSUME NEW c \in Clients, DB!ReleaseLock(c) PROVE Step
  <2>1. Dropped(c, {})
    BY <1>12, OthersHaveNone DEF DB!ReleaseLock, Dropped, Others
  <2>2. pc'[c] \notin {"verify", "create"} /\ DB!Goto(c, "idle")
    BY <1>1, <1>12 DEF DB!ReleaseLock, DB!Goto
  <2> QED
    BY <1>1, <1>2, <1>12, <2>1, <2>2, DBCallStep DEF DB!ReleaseLock
<1>13. ASSUME NEW c \in Clients, DB!CleanupExpiredLocks(c) PROVE Step
  <2>1. \A d \in Clients : ~Standing(d)
    BY <1>1, <1>4, <1>13, NobodyHasOne, LockType DEF DB!CleanupExpiredLocks
  <2>2. Left(c, {})
    BY <1>13, <2>1, ClientsAssumption DEF DB!CleanupExpiredLocks, Left
  <2>3. DB!Goto(c, pc[c]) /\ pc[c] \in Redis!PCs \cup DB!PCs
    BY <1>1, <1>13 DEF DB!CleanupExpiredLocks, DB!Goto
  <2>4. Working'
    <3>1. \A d \in Clients : ~Standing(d)'
      BY <1>13, <2>1 DEF DB!CleanupExpiredLocks, Standing
    <3> QED
      BY <1>1, <1>13, <2>3, <3>1, WorkingStep, ClientsAssumption DEF DB!CleanupExpiredLocks
  <2> QED
    BY <1>1, <1>13, <2>2, <2>4, CallStep DEF DB!CleanupExpiredLocks
<1>14. ASSUME NEW c \in Clients, DB!Crash(c) PROVE Step
  <2>1. Dropped(c, {})
    BY <1>14 DEF DB!Crash, Dropped
  <2>2. pc'[c] \notin {"verify", "create"}
    BY <1>1, <1>14 DEF DB!Crash, DB!Goto
  <2> QED
    BY <1>1, <1>2, <1>14, <2>1, <2>2, DBCallStep DEF DB!Crash
<1> QED
  BY <1>5, <1>6, <1>7, <1>8, <1>9, <1>10, <1>11, <1>12, <1>13, <1>14 DEF UseDB, DB!Next

-----------------------------------------------------------------------------

LEMMA NextStep == IInv /\ [Next]_vars => Step
<1> SUFFICES ASSUME IInv, [Next]_vars PROVE Step
  OBVIOUS
<1>1. CASE Next
  BY <1>1, MemoryStep, RedisStep, DBStep, SpannerStep DEF Next
<1>2. CASE UNCHANGED vars
  <2>1. IInv'
    BY <1>2 DEF vars, lockVars, IInv, TypeOK, Capped, Cap, Now, Margin, Skewed, Kept, Standing,
                IsDB, Working, InTime, RobbedIsRefused, Lease!Entitled
  <2>2. UNCHANGED Lease!vars
    BY <1>2 DEF vars, lockVars, Lease!vars, due
  <2> QED
    BY <2>1, <2>2 DEF Step
<1> QED
  BY <1>1, <1>2

\* All that is said below rests on this invariant, of every back-end.
THEOREM Invariance == Spec => []IInv
<1>1. IInv /\ [Next]_vars => IInv'
  BY NextStep DEF Step
<1> QED
  BY <1>1, InitIInv, PTL DEF Spec

\* The variables keep their types, and so every back-end its bounds.
THEOREM TypeCorrect == Spec => []TypeOK
<1>1. IInv => TypeOK
  BY DEF IInv
<1> QED
  BY <1>1, Invariance, PTL

\* Whoever has been promised the lock is the one that every client sees.
THEOREM PromisesAreSeen == Spec => []EntitledIsSeen
<1>1. IInv => EntitledIsSeen
  <2> SUFFICES ASSUME IInv, NEW c \in Clients, NEW d \in Clients, Standing(c)
               PROVE  GetLockValue(d) = c
    BY DEF EntitledIsSeen, Standing
  <2>1. holder = c /\ clock + Margin < expires /\ holder # Nobody
    BY LockType, ClientsAssumption DEF IInv, Kept, Standing
  <2>2. type \in {"memory", "redis", "db", "sqlite", "spanner"}
    BY TypesAssumption DEF IInv, TypeOK
  <2>3. Memory!GetLockValue = c
    BY <2>1, LockType DEF Memory!GetLockValue, Memory!Expired
  <2>4. Redis!GetLockValue = c
    BY <2>1 DEF Redis!GetLockValue
  <2>5. IsDB => DB!GetLockValue(d) = c
    BY <2>1, LockType DEF DB!GetLockValue, DB!Live, DB!Now, Margin, Skewed
  <2>6. type = "spanner" => Spanner!GetLockValue = c
    BY <2>1, LockType, SkewAssumption
       DEF Spanner!GetLockValue, Spanner!Live, Spanner!ServerNow, Margin, Skewed
  <2> QED
    BY <2>2, <2>3, <2>4, <2>5, <2>6 DEF GetLockValue, IsDB
<1> QED
  BY <1>1, Invariance, PTL

\* A client whose lock another one's DELETE has taken does not find it its own
\* again until it has created it anew, so that its next renewal is refused.
THEOREM RobbedAreRefused == Spec => []RobbedIsRefused
<1>1. IInv => RobbedIsRefused
  BY DEF IInv
<1> QED
  BY <1>1, Invariance, PTL

\* Every back-end is a lease.
THEOREM StorageIsALease == Spec => ImplementsLease
<1>1. Init => Lease!Init
  BY DEF Init, InitLock, Lease!Init, due
<1>2. IInv /\ [Next]_vars => [Lease!Next]_(Lease!vars)
  BY NextStep DEF Step
<1> QED
  BY <1>1, <1>2, Invariance, PTL DEF Spec, ImplementsLease, Lease!Spec

=============================================================================
