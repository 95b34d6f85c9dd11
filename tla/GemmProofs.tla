----------------------------- MODULE GemmProofs -----------------------------
(***************************************************************************)
(* For any number of threads, any programs of theirs, any queue depth and  *)
(* cache: a call of gemm_run_batch returns success only for its own batch, *)
(* no descriptor is dropped, and the accelerator is quiet outside calls.   *)
(*                                                                         *)
(* None of the three is inductive.  What carries them is an invariant that *)
(* follows the holder of the mutex through the call: which part of it the  *)
(* accelerator can be busy in, how full the queue is, and where the thread *)
(* can be while the interrupt is pending.                                  *)
(***************************************************************************)
EXTENDS GemmThreads, TLAPS

Held == {"submit", "reset", "clear", "kick", "count", "wait", "abort", "resume", "invd", "unlock"}
Places == Held \cup {"idle", "lock", "operands", "range"}

Quiet == ~qBusy /\ descQ = <<>> /\ cur = <<>>

Typed ==
  /\ descQ \in Seq(Tiles)
  /\ age \in Nat /\ done \in {0, 1} /\ kicks \in Nat /\ t_isr \in Nat
  /\ lock \in Threads \cup {NoThread}
  /\ pc \in [Threads -> Places] /\ req \in [Threads -> Requests]
  /\ tile \in [Threads -> Nat] /\ t_kick \in [Threads -> Nat]
  /\ load \in Workloads /\ ip \in [Threads -> Nat \ {0}]

\* The mutex, and requests that fit the queue.
Mutex ==
  /\ \A t \in Threads : pc[t] \in Held <=> lock = t
  /\ \A t \in Threads : pc[t] \in Held \cup {"lock"} => Len(req[t].tiles) \in 1 .. QueueDepth

\* The accelerator, seen from the thread that holds the mutex.
Phase(t) ==
  /\ pc[t] = "submit" => /\ ~qBusy /\ tile[t] \in 1 .. Len(req[t].tiles)
                         /\ Len(descQ) = tile[t] - 1
  /\ pc[t] \in {"reset", "clear", "kick"} => ~qBusy
  /\ pc[t] \in {"count", "wait"} /\ qDone => Quiet
  /\ pc[t] \in {"resume", "invd"} => Quiet /\ qDone
  /\ pc[t] = "unlock" => Quiet

Healthy == ~qOverflow /\ (cur # <<>> => qBusy)

Phases ==
  /\ Healthy
  /\ lock = NoThread => Quiet
  /\ \A t \in Threads : Phase(t)

\* A pending interrupt belongs to a call that is still there to take it, and
\* isr_fired, the semaphore and the time stamps to the batch of the call.
Raises(t) == \/ pc[t] \in {"count", "wait", "abort"}
             \/ pc[t] \in {"resume", "unlock"} /\ age >= 1
Raised == irq => \E t \in Threads : Raises(t)

Booked(t) ==
  /\ pc[t] \in {"clear", "kick"} => done = 0
  /\ pc[t] = "kick" => ~isr_fired
  /\ pc[t] \in {"count", "wait"} => /\ irq \/ isr_fired => qDone
                                    /\ done = 1 => isr_fired
  /\ pc[t] \in {"count", "wait", "abort", "resume"} =>
       t_kick[t] = kicks /\ (isr_fired => t_isr = kicks)
  /\ pc[t] = "resume" /\ ~poll_mode => isr_fired

Signals == Raised /\ \A t \in Threads : Booked(t)

Inv == Typed /\ Mutex /\ Phases /\ Signals

-----------------------------------------------------------------------------
(* Steps. *)

USE GemmAssumption

\* A step of a thread that is not in gemm_run_batch, or only calls it, keeps the
\* invariant: it can change its own place and request and, while nobody holds
\* the mutex, the way to wait.
LEMMA AsideKeeps ==
  ASSUME Inv, Preemptible, NEW t \in Threads, pc[t] \in {"idle", "operands", "range"},
         NEW p \in {"idle", "lock", "operands", "range"}, pc' = [pc EXCEPT ![t] = p],
         NEW r \in Requests, req' = [req EXCEPT ![t] = r],
         p = "lock" => Len(r.tiles) \in 1 .. QueueDepth,
         NEW i \in Nat, tile' = [tile EXCEPT ![t] = i],
         ip' \in [Threads -> Nat \ {0}],
         lock = NoThread \/ UNCHANGED poll_mode,
         UNCHANGED <<load, descQ, qBusy, qDone, qOverflow, cur, done, lock, isr_fired, t_isr, kicks, t_kick>>
  PROVE  Inv'
<1>1. Typed'
  <2>1. age' \in Nat BY DEF Inv, Typed, Preemptible
  <2>2. p \in Places /\ pc' \in [Threads -> Places] BY Zenon DEF Inv, Typed, Places
  <2>3. req' \in [Threads -> Requests] /\ tile' \in [Threads -> Nat] BY Zenon DEF Inv, Typed
  <2>4. QED BY <2>1, <2>2, <2>3, Zenon DEF Inv, Typed
<1>2. \A u \in Threads : u # t => pc'[u] = pc[u] /\ req'[u] = req[u] /\ tile'[u] = tile[u] BY Zenon DEF Inv, Typed
<1>3. pc'[t] = p /\ req'[t] = r BY Zenon DEF Inv, Typed
<1>4. p \notin Held /\ pc[t] \notin Held /\ lock # t BY Zenon DEF Inv, Mutex, Held
<1>5. Mutex'
  <2>1. ASSUME NEW u \in Threads PROVE (pc[u] \in Held <=> lock = u)' BY <1>2, <1>3, <1>4 DEF Inv, Mutex
  <2>2. ASSUME NEW u \in Threads PROVE (pc[u] \in Held \cup {"lock"} => Len(req[u].tiles) \in 1 .. QueueDepth)'
    BY <1>2, <1>3, <1>4, SMTT(30) DEF Inv, Mutex
  <2>3. QED BY <2>1, <2>2, Zenon DEF Mutex
<1>6. Phases' BY SMTT(30), <1>2, <1>3, <1>4 DEF Inv, Phases, Phase, Healthy, Quiet, Held
<1>7. Signals'
  <2>1. irq' = irq /\ (age >= 1 => age' >= 1) BY DEF Inv, Typed, Preemptible
  <2>2. ASSUME NEW u \in Threads, u # t, pc[u] \in {"count", "wait", "abort"}
        PROVE  pc'[u] \in {"count", "wait", "abort"}
    BY <1>2, <2>2, Zenon
  <2>3. ASSUME NEW u \in Threads, u # t, pc[u] \in {"resume", "unlock"}, age >= 1
        PROVE  pc'[u] \in {"resume", "unlock"} /\ age' >= 1
    BY <1>2, <2>1, <2>3, Zenon
  <2>4. pc[t] \notin {"count", "wait", "abort", "resume", "unlock"} BY Zenon
  <2>5. Raised' BY <2>1, <2>2, <2>3, <2>4, Zenon DEF Inv, Signals, Raised, Raises
  <2>6. ASSUME NEW u \in Threads PROVE Booked(u)'
    <3>1. CASE u = t BY <1>3, <3>1, Zenon DEF Booked
    <3>2. CASE u # t
      <4>1. pc'[u] = pc[u] BY <1>2, <3>2, Zenon
      <4>2. pc[u] = "resume" => UNCHANGED poll_mode BY Zenon DEF Inv, Typed, Mutex, Held
      <4>3. QED BY <2>1, <4>1, <4>2 DEF Inv, Signals, Raised, Booked
    <3>3. QED BY <3>1, <3>2, Zenon
  <2>7. QED BY <2>5, <2>6, ZenonT(30) DEF Signals
<1>8. QED BY <1>1, <1>5, <1>6, <1>7, Zenon DEF Inv

\* Thread steps age a pending interrupt, which was not older than one step.
LEMMA Ages ==
  ASSUME Inv, Preemptible
  PROVE  irq' = irq /\ age' \in Nat /\ age' >= age /\ (irq => age = 0 /\ age' >= 1)
<1>1. age \in Nat BY Zenon DEF Inv, Typed
<1>2. QED BY <1>1 DEF Preemptible

\* A step that leaves alone what the invariant is about, and raises no interrupt.
LEMMA StillKeeps ==
  ASSUME Inv, age' \in Nat, irq' => irq /\ age' >= age,
         UNCHANGED <<load, ip, descQ, qBusy, qDone, qOverflow, cur, done, lock, isr_fired, t_isr,
                     poll_mode, kicks, pc, req, tile, t_kick>>
  PROVE  Inv'
<1>1. Typed' BY Zenon DEF Inv, Typed
<1>2. Mutex' BY Zenon DEF Inv, Mutex
<1>3. Phases'
  <2>1. ASSUME NEW u \in Threads PROVE Phase(u)' BY Zenon DEF Inv, Phases, Phase, Quiet
  <2>2. QED BY <2>1, Zenon DEF Inv, Phases, Healthy, Quiet
<1>4. Signals'
  <2>1. ASSUME NEW u \in Threads PROVE Booked(u)' BY Zenon DEF Inv, Signals, Booked
  <2>2. ASSUME NEW u \in Threads, irq', Raises(u) PROVE Raises(u)' BY <2>2 DEF Inv, Typed, Raises
  <2>3. QED BY <2>1, <2>2, Zenon DEF Inv, Signals, Raised
<1>5. QED BY <1>1, <1>2, <1>3, <1>4, Zenon DEF Inv

\* What the invariant says of the holder of the mutex.
LEMMA HolderHas ==
  ASSUME Inv, NEW t \in Threads, pc[t] \in Held
  PROVE  lock = t /\ Healthy /\ Phase(t) /\ Booked(t) /\ (irq => Raises(t))
<1>1. lock = t BY Zenon DEF Inv, Mutex
<1>2. ASSUME NEW u \in Threads, Raises(u) PROVE u = t
  <2>1. pc[u] \in Held BY <1>2, Zenon DEF Raises, Held
  <2>2. QED BY <1>1, <2>1, Zenon DEF Inv, Mutex
<1>3. QED BY <1>1, <1>2, Zenon DEF Inv, Phases, Signals, Raised

\* Only the holder of the mutex is in a place the invariant says something of,
\* so a step that leaves the mutex with t has to be looked at for t alone.
LEMMA HolderKeeps ==
  ASSUME Inv, Preemptible, NEW t \in Threads, pc[t] \in Held \cup {"lock"},
         NEW p \in Held, pc' = [pc EXCEPT ![t] = p],
         lock \in {t, NoThread}, lock' = t, UNCHANGED <<load, ip, req>>,
         descQ' \in Seq(Tiles), done' \in {0, 1}, kicks' \in Nat, t_isr' \in Nat,
         tile' \in [Threads -> Nat], t_kick' \in [Threads -> Nat],
         Healthy', Phase(t)', irq => Raises(t)', Booked(t)'
  PROVE  Inv'
<1>1. lock' # NoThread BY Zenon
<1>2. pc'[t] = p /\ \A u \in Threads : u # t => pc'[u] = pc[u] BY Zenon DEF Inv, Typed
<1>3. ASSUME NEW u \in Threads, u # t PROVE pc'[u] \notin Held BY <1>2, <1>3, Zenon DEF Inv, Mutex
<1>4. Typed'
  <2>1. age' \in Nat BY DEF Inv, Typed, Preemptible
  <2>2. pc' \in [Threads -> Places] BY Zenon DEF Inv, Typed, Places
  <2>3. QED BY <2>1, <2>2, Zenon DEF Inv, Typed
<1>5. Mutex'
  <2>1. ASSUME NEW u \in Threads PROVE (pc[u] \in Held <=> lock = u)' BY <1>2, <1>3, Zenon
  <2>2. ASSUME NEW u \in Threads PROVE (pc[u] \in Held \cup {"lock"} => Len(req[u].tiles) \in 1 .. QueueDepth)'
    BY <1>2, Zenon DEF Inv, Mutex
  <2>3. QED BY <2>1, <2>2, Zenon DEF Mutex
<1>6. ASSUME NEW u \in Threads, u # t PROVE Phase(u)' /\ Booked(u)'
  <2>1. pc'[u] \notin Held BY <1>3, <1>6, Zenon
  <2>2. QED BY <2>1, Zenon DEF Phase, Booked, Held
<1>7. Phases' BY <1>1, <1>6, Zenon DEF Phases
<1>8. Signals' BY <1>6, Zenon DEF Signals, Raised, Preemptible
<1>9. QED BY <1>4, <1>5, <1>7, <1>8, Zenon DEF Inv

\* A step of a thread inside gemm_run_batch or one of the walks keeps the
\* invariant.
LEMMA InsideKeeps ==
  ASSUME NEW t \in Threads, Inv, Preemptible, Inside(t), UNCHANGED <<load, ip>>
  PROVE  Inv'
<1>a. irq' = irq /\ age' \in Nat /\ age' >= age /\ (irq => age = 0 /\ age' >= 1) BY Ages, Zenon
<1> USE DEF Goes, Enter, accelVars, dataVars, callVars
<1>1. CASE Lock(t)
  <2>1. /\ pc[t] = "lock" /\ pc' = [pc EXCEPT ![t] = "submit"] /\ lock = NoThread /\ lock' = t
        /\ tile' = [tile EXCEPT ![t] = 1]
        /\ UNCHANGED <<descQ, qBusy, qDone, qOverflow, cur, done, isr_fired, t_isr, poll_mode, kicks, req, t_kick>>
    BY <1>1, Zenon DEF Lock
  <2>2. pc'[t] = "submit" /\ tile'[t] = 1 /\ tile' \in [Threads -> Nat] BY <2>1, Zenon DEF Inv, Typed
  <2>3. Healthy /\ Quiet BY <2>1, Zenon DEF Inv, Phases
  <2>4. 1 \in 1 .. Len(req[t].tiles) BY <2>1 DEF Inv, Mutex
  <2>5. Healthy' /\ Phase(t)' BY <2>1, <2>2, <2>3, <2>4 DEF Healthy, Phase, Quiet
  <2>6. ASSUME irq PROVE FALSE
    <3>1. PICK u \in Threads : Raises(u) BY <2>6, Zenon DEF Inv, Signals, Raised
    <3>2. pc[u] \in Held BY <3>1, Zenon DEF Raises, Held
    <3>3. QED BY <2>1, <3>2, Zenon DEF Inv, Mutex
  <2>7. Booked(t)' BY <2>2, Zenon DEF Booked
  <2>8. QED BY <2>1, <2>2, <2>5, <2>6, <2>7, HolderKeeps, Zenon DEF Inv, Typed, Held
<1>2. CASE DisplaceLine(t)
  BY <1>2, <1>a, StillKeeps, Zenon DEF DisplaceLine
<1>3. CASE PushDesc(t)
  <2>1. pc[t] = "submit" BY <1>3, Zenon DEF PushDesc
  <2>2. lock = t /\ Phase(t) BY <2>1, HolderHas, Zenon DEF Held
  <2>3. /\ ~qBusy /\ tile[t] \in 1 .. Len(req[t].tiles) /\ Len(descQ) = tile[t] - 1
        /\ Len(req[t].tiles) \in 1 .. QueueDepth
    BY <2>1, <2>2, Zenon DEF Phase, Inv, Mutex, Held
  <2>4. QUEUE_FREE > 0 BY <2>3 DEF QUEUE_FREE, Inv, Typed
  <2>5. Tile(t) \in Tiles BY <2>3 DEF Inv, Typed, Tile, Requests
  <2>6. descQ' = Append(descQ, Tile(t)) /\ UNCHANGED qOverflow BY <1>3, <2>4, Zenon DEF PushDesc
  <2>7. descQ' \in Seq(Tiles) /\ Len(descQ') = Len(descQ) + 1 BY <2>5, <2>6 DEF Inv, Typed
  <2>8. CASE LastTile(t)
    <3>1. /\ pc[t] = "submit" /\ pc' = [pc EXCEPT ![t] = "reset"]
          /\ UNCHANGED <<qBusy, qDone, qOverflow, cur, done, lock, isr_fired, t_isr, poll_mode, kicks, req, tile, t_kick>>
      BY <1>3, <2>6, <2>8, Zenon DEF PushDesc
    <3>2. pc'[t] = "reset" BY <3>1, Zenon DEF Inv, Typed
    <3>3. lock = t /\ Healthy /\ Phase(t) /\ Booked(t) /\ (irq => Raises(t)) BY <3>1, HolderHas, Zenon DEF Held
    <3>4. Healthy' /\ Phase(t)' BY <3>1, <3>2, <3>3, <2>3, Zenon DEF Healthy, Phase, Quiet
    <3>5. (irq => Raises(t)') /\ Booked(t)' BY <3>1, <3>2, <3>3, <1>a, Zenon DEF Raises, Booked
    <3>6. QED BY <3>1, <3>3, <3>4, <3>5, HolderKeeps, <2>7, Zenon DEF Inv, Typed, Held
  <2>9. CASE ~LastTile(t)
    <3>1. /\ pc[t] = "submit" /\ pc' = [pc EXCEPT ![t] = "submit"]
          /\ tile' = [tile EXCEPT ![t] = tile[t] + 1]
          /\ UNCHANGED <<qBusy, qDone, qOverflow, cur, done, lock, isr_fired, t_isr, poll_mode, kicks, req, t_kick>>
      BY <1>3, <2>6, <2>9, Zenon DEF PushDesc
    <3>2. pc'[t] = "submit" BY <3>1, Zenon DEF Inv, Typed
    <3>3. lock = t /\ Healthy /\ Phase(t) /\ Booked(t) /\ (irq => Raises(t)) BY <3>1, HolderHas, Zenon DEF Held
    <3>a. tile[t] + 1 \in 1 .. Len(req[t].tiles) BY <2>3, <2>9 DEF LastTile
    <3>b. tile' \in [Threads -> Nat] /\ tile'[t] = tile[t] + 1 BY <3>1, <3>a DEF Inv, Typed
    <3>c. tile'[t] \in 1 .. Len(req'[t].tiles) /\ Len(descQ') = tile'[t] - 1 BY <2>3, <2>7, <3>1, <3>a, <3>b
    <3>4. Healthy' /\ Phase(t)' BY <3>1, <3>2, <3>3, <2>3, <3>c, Zenon DEF Healthy, Phase, Quiet
    <3>5. (irq => Raises(t)') /\ Booked(t)' BY <3>1, <3>2, <3>3, <1>a, Zenon DEF Raises, Booked
    <3>6. QED BY <3>1, <3>3, <3>4, <3>5, HolderKeeps, <2>7, <3>b, Zenon DEF Inv, Typed, Held
  <2>10. QED BY <2>8, <2>9, Zenon
<1>4. CASE SemReset(t)
  <2>1. /\ pc[t] = "reset" /\ pc' = [pc EXCEPT ![t] = "clear"] /\ done' = 0
        /\ UNCHANGED <<descQ, qBusy, qDone, qOverflow, cur, lock, isr_fired, t_isr, poll_mode, kicks, req, tile, t_kick>>
    BY <1>4, Zenon DEF SemReset
  <2>2. pc'[t] = "clear" BY <2>1, Zenon DEF Inv, Typed
  <2>3. lock = t /\ Healthy /\ Phase(t) /\ Booked(t) /\ (irq => Raises(t)) BY <2>1, HolderHas, Zenon DEF Held
  <2>4. Healthy' /\ Phase(t)' BY <2>1, <2>2, <2>3, Zenon DEF Healthy, Phase, Quiet
  <2>5. (irq => Raises(t)') /\ Booked(t)' BY <2>1, <2>2, <2>3, <1>a, Zenon DEF Raises, Booked
  <2>6. QED BY <2>1, <2>3, <2>4, <2>5, HolderKeeps, Zenon DEF Inv, Typed, Held
<1>5. CASE ClearFired(t)
  <2>1. /\ pc[t] = "clear" /\ pc' = [pc EXCEPT ![t] = "kick"] /\ isr_fired' = FALSE
        /\ UNCHANGED <<descQ, qBusy, qDone, qOverflow, cur, done, lock, t_isr, poll_mode, kicks, req, tile, t_kick>>
    BY <1>5, Zenon DEF ClearFired
  <2>2. pc'[t] = "kick" BY <2>1, Zenon DEF Inv, Typed
  <2>3. lock = t /\ Healthy /\ Phase(t) /\ Booked(t) /\ (irq => Raises(t)) BY <2>1, HolderHas, Zenon DEF Held
  <2>4. Healthy' /\ Phase(t)' BY <2>1, <2>2, <2>3, Zenon DEF Healthy, Phase, Quiet
  <2>5. (irq => Raises(t)') /\ Booked(t)' BY <2>1, <2>2, <2>3, <1>a, Zenon DEF Raises, Booked
  <2>6. QED BY <2>1, <2>3, <2>4, <2>5, HolderKeeps, Zenon DEF Inv, Typed, Held
<1>6. CASE Kick(t)
  <2>1. /\ pc[t] = "kick" /\ pc' = [pc EXCEPT ![t] = "count"]
        /\ IF qBusy THEN UNCHANGED <<qBusy, qDone, qOverflow>>
                    ELSE qBusy' = TRUE /\ qDone' = FALSE /\ qOverflow' = FALSE
        /\ kicks' = kicks + 1 /\ t_kick' = [t_kick EXCEPT ![t] = kicks + 1]
        /\ UNCHANGED <<descQ, cur, done, lock, isr_fired, t_isr, poll_mode, req, tile>>
    BY <1>6, Zenon DEF Kick
  <2>2. pc'[t] = "count" BY <2>1, Zenon DEF Inv, Typed
  <2>3. lock = t /\ Healthy /\ Phase(t) /\ Booked(t) /\ (irq => Raises(t)) BY <2>1, HolderHas, Zenon DEF Held
  <2>a. qBusy' /\ ~qDone' /\ ~qOverflow' BY <2>1, <2>3, ZenonT(30) DEF Phase
  <2>b. kicks' \in Nat /\ t_kick' \in [Threads -> Nat] /\ t_kick'[t] = kicks' BY <2>1 DEF Inv, Typed
  <2>c. ~irq /\ ~isr_fired /\ done = 0 BY <2>1, <2>3, Zenon DEF Raises, Booked
  <2>4. Healthy' /\ Phase(t)' BY <2>1, <2>2, <2>3, <2>a, Zenon DEF Healthy, Phase, Quiet
  <2>d. ~irq' /\ ~isr_fired' /\ done' = 0 BY <1>a, <2>1, <2>c, Zenon
  <2>5. (irq => Raises(t)') /\ Booked(t)' BY <2>2, <2>b, <2>c, <2>d DEF Booked
  <2>6. QED BY <2>1, <2>3, <2>4, <2>5, HolderKeeps, <2>b, Zenon DEF Inv, Typed, Held
<1>7. CASE CountDone(t)
  <2>1. /\ pc[t] = "count" /\ pc' = [pc EXCEPT ![t] = "wait"]
        /\ UNCHANGED <<descQ, qBusy, qDone, qOverflow, cur, done, lock, isr_fired, t_isr, poll_mode, kicks, req, tile, t_kick>>
    BY <1>7, Zenon DEF CountDone
  <2>2. pc'[t] = "wait" BY <2>1, Zenon DEF Inv, Typed
  <2>3. lock = t /\ Healthy /\ Phase(t) /\ Booked(t) /\ (irq => Raises(t)) BY <2>1, HolderHas, Zenon DEF Held
  <2>4. Healthy' /\ Phase(t)' BY <2>1, <2>2, <2>3, Zenon DEF Healthy, Phase, Quiet
  <2>5. (irq => Raises(t)') /\ Booked(t)' BY <2>1, <2>2, <2>3, <1>a, ZenonT(30) DEF Raises, Booked
  <2>6. QED BY <2>1, <2>3, <2>4, <2>5, HolderKeeps, Zenon DEF Inv, Typed, Held
<1>8. CASE PollStatus(t)
  <2>1. /\ pc[t] = "wait" /\ pc' = [pc EXCEPT ![t] = "resume"] /\ poll_mode /\ qDone
        /\ UNCHANGED <<descQ, qBusy, qDone, qOverflow, cur, done, lock, isr_fired, t_isr, poll_mode, kicks, req, tile, t_kick>>
    BY <1>8, Zenon DEF PollStatus
  <2>2. pc'[t] = "resume" BY <2>1, Zenon DEF Inv, Typed
  <2>3. lock = t /\ Healthy /\ Phase(t) /\ Booked(t) /\ (irq => Raises(t)) BY <2>1, HolderHas, Zenon DEF Held
  <2>4. Healthy' /\ Phase(t)' BY <2>1, <2>2, <2>3, Zenon DEF Healthy, Phase, Quiet
  <2>5. (irq => Raises(t)') /\ Booked(t)' BY <2>1, <2>2, <2>3, <1>a, Zenon DEF Raises, Booked
  <2>6. QED BY <2>1, <2>3, <2>4, <2>5, HolderKeeps, Zenon DEF Inv, Typed, Held
<1>9. CASE SemTake(t)
  <2>1. /\ pc[t] = "wait" /\ pc' = [pc EXCEPT ![t] = "resume"] /\ ~poll_mode
        /\ done > 0 /\ done' = 0
        /\ UNCHANGED <<descQ, qBusy, qDone, qOverflow, cur, lock, isr_fired, t_isr, poll_mode, kicks, req, tile, t_kick>>
    BY <1>9, Zenon DEF SemTake
  <2>2. pc'[t] = "resume" BY <2>1, Zenon DEF Inv, Typed
  <2>3. lock = t /\ Healthy /\ Phase(t) /\ Booked(t) /\ (irq => Raises(t)) BY <2>1, HolderHas, ZenonT(30) DEF Held
  <2>a. isr_fired /\ qDone BY <2>1, <2>3 DEF Booked, Inv, Typed
  <2>4. Healthy' /\ Phase(t)' BY <2>1, <2>2, <2>3, <2>a, Zenon DEF Healthy, Phase, Quiet
  <2>5. (irq => Raises(t)') /\ Booked(t)' BY <2>1, <2>2, <2>3, <2>a, <1>a, Zenon DEF Raises, Booked
  <2>6. QED BY <2>1, <2>3, <2>4, <2>5, HolderKeeps, Zenon DEF Inv, Typed, Held
<1>10. CASE Timeout(t)
  <2>1. /\ pc[t] = "wait" /\ pc' = [pc EXCEPT ![t] = "abort"]
        /\ UNCHANGED <<descQ, qBusy, qDone, qOverflow, cur, done, lock, isr_fired, t_isr, poll_mode, kicks, req, tile, t_kick>>
    BY <1>10, Zenon DEF Timeout
  <2>2. pc'[t] = "abort" BY <2>1, Zenon DEF Inv, Typed
  <2>3. lock = t /\ Healthy /\ Phase(t) /\ Booked(t) /\ (irq => Raises(t)) BY <2>1, HolderHas, Zenon DEF Held
  <2>4. Healthy' /\ Phase(t)' BY <2>1, <2>2, <2>3, Zenon DEF Healthy, Phase, Quiet
  <2>5. (irq => Raises(t)') /\ Booked(t)' BY <2>1, <2>2, <2>3, <1>a, Zenon DEF Raises, Booked
  <2>6. QED BY <2>1, <2>3, <2>4, <2>5, HolderKeeps, Zenon DEF Inv, Typed, Held
<1>11. CASE Abandon(t)
  <2>1. /\ pc[t] = "abort" /\ pc' = [pc EXCEPT ![t] = "unlock"]
        /\ descQ' = <<>> /\ qBusy' = FALSE /\ qDone' = FALSE /\ qOverflow' = FALSE /\ cur' = <<>>
        /\ UNCHANGED <<done, lock, isr_fired, t_isr, poll_mode, kicks, req, tile, t_kick>>
    BY <1>11, Zenon DEF Abandon
  <2>2. pc'[t] = "unlock" BY <2>1, Zenon DEF Inv, Typed
  <2>3. lock = t /\ Healthy /\ Phase(t) /\ Booked(t) /\ (irq => Raises(t)) BY <2>1, HolderHas, Zenon DEF Held
  <2>a. descQ' \in Seq(Tiles) BY <2>1
  <2>4. Healthy' /\ Phase(t)' BY <2>1, <2>2, <2>3, Zenon DEF Healthy, Phase, Quiet
  <2>5. (irq => Raises(t)') /\ Booked(t)' BY <2>1, <2>2, <2>3, <1>a, Zenon DEF Raises, Booked
  <2>6. QED BY <2>1, <2>3, <2>4, <2>5, HolderKeeps, <2>a, Zenon DEF Inv, Typed, Held
<1>12. CASE Resume(t)
  <2>1. /\ pc[t] = "resume" /\ pc' = [pc EXCEPT ![t] = "invd"] /\ tile' = [tile EXCEPT ![t] = 1]
        /\ UNCHANGED <<descQ, qBusy, qDone, qOverflow, cur, done, lock, isr_fired, t_isr, poll_mode, kicks, req, t_kick>>
    BY <1>12, Zenon DEF Resume
  <2>2. pc'[t] = "invd" BY <2>1, Zenon DEF Inv, Typed
  <2>3. lock = t /\ Healthy /\ Phase(t) /\ Booked(t) /\ (irq => Raises(t)) BY <2>1, HolderHas, Zenon DEF Held
  <2>a. ~irq BY <1>a, <2>1, <2>3 DEF Raises
  <2>b. tile' \in [Threads -> Nat] BY <2>1, Zenon DEF Inv, Typed
  <2>4. Healthy' /\ Phase(t)' BY <2>1, <2>2, <2>3, Zenon DEF Healthy, Phase, Quiet
  <2>5. (irq => Raises(t)') /\ Booked(t)' BY <2>1, <2>2, <2>3, <2>a, <1>a, Zenon DEF Raises, Booked
  <2>6. QED BY <2>1, <2>3, <2>4, <2>5, HolderKeeps, <2>b, Zenon DEF Inv, Typed, Held
<1>13. CASE NextDest(t)
  <2>1. CASE LastTile(t)
    <3>1. /\ pc[t] = "invd" /\ pc' = [pc EXCEPT ![t] = "unlock"]
          /\ UNCHANGED <<descQ, qBusy, qDone, qOverflow, cur, done, lock, isr_fired, t_isr, poll_mode, kicks, req, tile, t_kick>>
      BY <1>13, <2>1, Zenon DEF NextDest
    <3>2. pc'[t] = "unlock" BY <3>1, Zenon DEF Inv, Typed
    <3>3. lock = t /\ Healthy /\ Phase(t) /\ Booked(t) /\ (irq => Raises(t)) BY <3>1, HolderHas, Zenon DEF Held
    <3>4. Healthy' /\ Phase(t)' BY <3>1, <3>2, <3>3, Zenon DEF Healthy, Phase, Quiet
    <3>5. (irq => Raises(t)') /\ Booked(t)' BY <3>1, <3>2, <3>3, <1>a, Zenon DEF Raises, Booked
    <3>6. QED BY <3>1, <3>3, <3>4, <3>5, HolderKeeps, Zenon DEF Inv, Typed, Held
  <2>2. CASE ~LastTile(t)
    <3>1. /\ pc[t] = "invd" /\ pc' = [pc EXCEPT ![t] = "invd"]
          /\ tile' = [tile EXCEPT ![t] = tile[t] + 1]
          /\ UNCHANGED <<descQ, qBusy, qDone, qOverflow, cur, done, lock, isr_fired, t_isr, poll_mode, kicks, req, t_kick>>
      BY <1>13, <2>2, Zenon DEF NextDest
    <3>2. pc'[t] = "invd" BY <3>1, Zenon DEF Inv, Typed
    <3>3. lock = t /\ Healthy /\ Phase(t) /\ Booked(t) /\ (irq => Raises(t)) BY <3>1, HolderHas, Zenon DEF Held
    <3>a. tile[t] + 1 \in Nat BY DEF Inv, Typed
    <3>b. tile' \in [Threads -> Nat] BY <3>1, <3>a, Zenon DEF Inv, Typed
    <3>4. Healthy' /\ Phase(t)' BY <3>1, <3>2, <3>3, Zenon DEF Healthy, Phase, Quiet
    <3>5. (irq => Raises(t)') /\ Booked(t)' BY <3>1, <3>2, <3>3, <1>a, Zenon DEF Raises, Booked
    <3>6. QED BY <3>1, <3>3, <3>4, <3>5, HolderKeeps, <3>b, Zenon DEF Inv, Typed, Held
  <2>3. QED BY <2>1, <2>2, Zenon
<1>14. CASE Unlock(t)
  <2>1. /\ pc[t] = "unlock" /\ pc' = [pc EXCEPT ![t] = "idle"] /\ lock' = NoThread
        /\ UNCHANGED <<descQ, qBusy, qDone, qOverflow, cur, done, isr_fired, t_isr, poll_mode, kicks, req, tile, t_kick>>
    BY <1>14, Zenon DEF Unlock
  <2>2. lock = t /\ Healthy /\ Phase(t) /\ (irq => Raises(t)) BY <2>1, HolderHas, Zenon DEF Held
  <2>3. Healthy' /\ Quiet' BY <2>1, <2>2, ZenonT(30) DEF Healthy, Phase, Quiet
  <2>4. ~irq BY <1>a, <2>1, <2>2 DEF Raises
  <2>5. pc'[t] = "idle" /\ \A u \in Threads : u # t => pc'[u] = pc[u] BY <2>1, Zenon DEF Inv, Typed
  <2>6. ASSUME NEW u \in Threads PROVE pc'[u] \notin Held BY <2>2, <2>5, Zenon DEF Inv, Mutex, Held
  <2>7. Typed'
    <3>1. pc' \in [Threads -> Places] BY <2>1, Zenon DEF Inv, Typed, Places
    <3>2. QED BY <1>a, <2>1, <3>1, Zenon DEF Inv, Typed
  <2>8. Mutex' BY <2>1, <2>5, <2>6, Zenon DEF Inv, Mutex
  <2>9. ASSUME NEW u \in Threads PROVE Phase(u)' /\ Booked(u)'
    <3>1. pc'[u] \notin Held BY <2>6, Zenon
    <3>2. QED BY <3>1, Zenon DEF Phase, Booked, Held
  <2>10. Phases' /\ Signals' BY <2>3, <2>4, <2>9, ZenonT(30) DEF Phases, Signals, Raised, Preemptible
  <2>11. QED BY <2>7, <2>8, <2>10, Zenon DEF Inv
<1>15. CASE NextOperands(t)
  <2>1. req[t] \in Requests /\ tile[t] \in Nat /\ ip' \in [Threads -> Nat \ {0}] BY Zenon DEF Inv, Typed
  <2>2. req' = [req EXCEPT ![t] = req[t]] BY <1>15, Zenon DEF NextOperands, Enter, Inv, Typed, callVars
  <2>3. CASE LastTile(t)
    <3>1. /\ pc[t] = "operands" /\ pc' = [pc EXCEPT ![t] = "idle"] /\ tile' = tile
          /\ UNCHANGED <<descQ, qBusy, qDone, qOverflow, cur, done, lock, isr_fired, t_isr, poll_mode, kicks, t_kick>>
      BY <1>15, <2>3, ZenonT(30) DEF NextOperands, Goes, Enter, LastTile, memVars, accelVars, dataVars, callVars
    <3>2. tile' = [tile EXCEPT ![t] = tile[t]] BY <3>1, Zenon DEF Inv, Typed
    <3>3. QED BY <2>1, <2>2, <3>1, <3>2, AsideKeeps, ZenonT(30)
  <2>4. CASE ~LastTile(t)
    <3>1. /\ pc[t] = "operands" /\ pc' = [pc EXCEPT ![t] = "operands"] /\ tile' = [tile EXCEPT ![t] = tile[t] + 1]
          /\ UNCHANGED <<descQ, qBusy, qDone, qOverflow, cur, done, lock, isr_fired, t_isr, poll_mode, kicks, t_kick>>
      BY <1>15, <2>4, Zenon DEF NextOperands, Goes, Enter, LastTile, memVars, accelVars, dataVars, callVars
    <3>2. tile[t] + 1 \in Nat BY <2>1
    <3>3. QED BY <2>1, <2>2, <3>1, <3>2, AsideKeeps, Zenon
  <2>5. QED BY <2>3, <2>4, Zenon
<1>16. CASE FlushedRange(t)
  <2>1. req[t] \in Requests /\ tile[t] \in Nat /\ ip' \in [Threads -> Nat \ {0}] BY Zenon DEF Inv, Typed
  <2>2. /\ pc[t] = "range" /\ pc' = [pc EXCEPT ![t] = "idle"] /\ req' = req /\ tile' = tile
        /\ UNCHANGED <<descQ, qBusy, qDone, qOverflow, cur, done, lock, isr_fired, t_isr, poll_mode, kicks, t_kick>>
    BY <1>16, Zenon DEF FlushedRange, Goes, memVars, accelVars, dataVars, callVars
  <2>3. req' = [req EXCEPT ![t] = req[t]] /\ tile' = [tile EXCEPT ![t] = tile[t]] BY <2>2, Zenon DEF Inv, Typed
  <2>4. QED BY <2>1, <2>2, <2>3, AsideKeeps, Zenon
<1>17. QED BY <1>1, <1>2, <1>3, <1>4, <1>5, <1>6, <1>7, <1>8, <1>9, <1>10, <1>11, <1>12, <1>13, <1>14, <1>15, <1>16, ZenonT(30) DEF Inside

\* gemm_flush_operands takes the tiles alone: with them a request stays one.
LEMMA OtherTiles ==
  ASSUME NEW q \in Requests, NEW s \in Seq(Tiles) PROVE [q EXCEPT !.tiles = s] \in Requests
BY Zenon DEF Requests

\* A number that is not more than what is left of q is at most q (the test of
\* gemm_run_batch against QUEUE_FREE).
LEMMA WithinRest ==
  ASSUME NEW n \in Nat, NEW k \in Nat, NEW q \in Nat, n # 0, ~(n > q - k)
  PROVE  n \in 1 .. q
OBVIOUS

\* A request that gemm_run_batch does not refuse has tiles, and no more than the
\* queue can hold.
LEMMA AdmittedFits ==
  ASSUME Inv, NEW r \in Requests
  PROVE  Refusal(r) = "0" => Len(r.tiles) \in 1 .. QueueDepth
<1> SUFFICES ASSUME Refusal(r) = "0" PROVE Len(r.tiles) \in 1 .. QueueDepth BY Zenon
<1>1. r.tiles \in Seq(Tiles) BY Zenon DEF Requests
<1>2. descQ \in Seq(Tiles) BY Zenon DEF Inv, Typed
<1>3. Len(r.tiles) \in Nat /\ Len(descQ) \in Nat BY <1>1, <1>2
<1>4. QueueDepth \in Nat BY GemmAssumption, Zenon
<1>5. r.tiles # <<>> /\ ~(Len(r.tiles) > QueueDepth - Len(descQ)) BY Zenon DEF Refusal, QUEUE_FREE
<1>6. Len(r.tiles) # 0 BY <1>1, <1>5
<1>7. QED BY <1>3, <1>4, <1>5, <1>6, WithinRest, Zenon

\* Every call, load and store of a program is such a step.
LEMMA OutsideKeeps ==
  ASSUME Inv, Preemptible, NEW t \in Threads, Outside(t)
  PROVE  Inv'
<1> USE DEF Inv, Typed
<1>1. ASSUME NEW op, Does(t, op) PROVE ip' \in [Threads -> Nat \ {0}] BY <1>1, SMTT(30) DEF Does
<1>2. req[t] \in Requests /\ tile[t] \in Nat /\ req = [req EXCEPT ![t] = req[t]] /\ tile = [tile EXCEPT ![t] = tile[t]]
  BY Zenon
<1>3. pc[t] = "idle" => pc = [pc EXCEPT ![t] = "idle"] BY Zenon
<1>4. Running(t) => ip[t] \in 1 .. Len(load.prog[t])
  <2>1. Len(load.prog[t]) \in Nat BY WorkloadAssumption, Zenon
  <2>2. ip[t] \in Nat \ {0} BY Zenon
  <2>3. QED BY <2>1, <2>2 DEF Running
<1>5. ASSUME NEW m, CpuAccess(t, m), ip' \in [Threads -> Nat \ {0}], UNCHANGED load PROVE Inv'
  BY <1>2, <1>3, <1>5, AsideKeeps, ZenonT(30) DEF CpuAccess, accelVars, dataVars, callVars
<1>6. ASSUME NEW w, FlushRange(t, w), ip' \in [Threads -> Nat \ {0}], UNCHANGED load PROVE Inv'
  BY <1>2, <1>6, AsideKeeps, Zenon DEF FlushRange, Goes, accelVars, dataVars
<1>7. CASE StoreLine(t) BY <1>1, <1>5, <1>7, Zenon DEF StoreLine
<1>8. CASE VerifyLine(t) BY <1>1, <1>5, <1>8, Zenon DEF VerifyLine
<1>9. CASE FlushDest(t) BY <1>1, <1>6, <1>9, Zenon DEF FlushDest
<1>10. CASE FlushAll(t) BY <1>1, <1>6, <1>10, Zenon DEF FlushAll
<1>11. CASE SetMode(t)
  BY <1>1, <1>2, <1>3, <1>11, AsideKeeps, ZenonT(30) DEF SetMode, gemm_set_poll_mode, accelVars, callVars
<1>12. CASE ResetStats(t)
  BY <1>1, <1>2, <1>3, <1>12, AsideKeeps, Zenon DEF ResetStats, gemm_reset_stats, accelVars, callVars
<1>13. CASE FlushOperands(t)
  <2> DEFINE r == [req[t] EXCEPT !.tiles = Op(t).tiles]
  <2>1. Op(t).tiles \in Seq(Tiles) BY <1>4, <1>13, WorkloadAssumption, Zenon DEF FlushOperands, Does, Op
  <2>2. r \in Requests BY <1>2, <2>1, OtherTiles, Zenon
  <2>a. req' = [req EXCEPT ![t] = r] BY <1>13, Zenon DEF FlushOperands, gemm_flush_operands
  <2>3. CASE Op(t).tiles = <<>>
    <3> HIDE DEF r
    <3>1. /\ pc[t] = "idle" /\ UNCHANGED <<pc, tile>>
          /\ UNCHANGED <<load, descQ, qBusy, qDone, qOverflow, cur, done, lock, isr_fired, t_isr, poll_mode, kicks, t_kick>>
      BY <1>13, <2>3, Zenon DEF FlushOperands, gemm_flush_operands, accelVars, dataVars
    <3>2. pc' = [pc EXCEPT ![t] = "idle"] /\ tile' = [tile EXCEPT ![t] = tile[t]] BY <1>2, <1>3, <3>1, Zenon
    <3>3. ip' \in [Threads -> Nat \ {0}] BY <1>1, <1>13, Zenon DEF FlushOperands
    <3>4. QED BY <1>2, <2>2, <2>a, <3>1, <3>2, <3>3, AsideKeeps, ZenonT(30)
  <2>4. CASE Op(t).tiles # <<>>
    BY <1>1, <1>13, <2>2, <2>a, <2>4, AsideKeeps, ZenonT(30) DEF FlushOperands, gemm_flush_operands, Goes, Enter, accelVars, dataVars
  <2>5. QED BY <2>3, <2>4, Zenon
<1>14. CASE Submit(t)
  <2> DEFINE r == Op(t).req
  <2>1. r \in Requests BY <1>4, <1>14, WorkloadAssumption, Zenon DEF Submit, Does, Op
  <2>2. Refusal(r) = "0" => Len(r.tiles) \in 1 .. QueueDepth BY <2>1, AdmittedFits, Zenon
  <2>3. /\ pc[t] = "idle" /\ req' = [req EXCEPT ![t] = r] /\ UNCHANGED tile
        /\ pc' = [pc EXCEPT ![t] = IF Refusal(r) = "0" THEN "lock" ELSE "idle"]
        /\ UNCHANGED <<load, descQ, qBusy, qDone, qOverflow, cur, done, lock, isr_fired, t_isr, poll_mode, kicks, t_kick>>
    BY <1>14, Zenon DEF Submit, RunBatch, Goes, accelVars, dataVars
  <2>4. QED BY <1>1, <1>2, <1>14, <2>1, <2>2, <2>3, AsideKeeps, ZenonT(30) DEF Submit
<1>15. CASE BreakOff(t) BY <1>1, <1>5, <1>15, Zenon DEF BreakOff
<1>16. CASE CheckTile(t) BY <1>1, <1>5, <1>16, Zenon DEF CheckTile
<1>17. QED
  BY <1>7, <1>8, <1>9, <1>10, <1>11, <1>12, <1>13, <1>14, <1>15, <1>16, ZenonT(30) DEF Outside

\* The accelerator works only between the kick and the end of the wait.
LEMMA AcceleratorKeeps ==
  ASSUME Inv, Accelerator, UNCHANGED <<load, ip>>
  PROVE  Inv'
<1> USE DEF Accelerator, dataVars, callVars, irqVars
<1>1. Mutex' BY Zenon DEF Inv, Mutex
<1>2. CASE AccelFetch
  <2>a. descQ \in Seq(Tiles) /\ descQ # <<>> /\ descQ' = Tail(descQ) BY <1>2, ZenonT(30) DEF Inv, Typed, AccelFetch
  <2>b. descQ' \in Seq(Tiles) BY <2>a
  <2>1. Typed' BY <1>2, <2>b, Zenon DEF Inv, Typed, AccelFetch
  <2>2. Phases' BY <1>2, Zenon DEF Inv, Typed, Mutex, Phases, Phase, Healthy, Quiet, AccelFetch, Held
  <2>3. Signals' BY <1>2, ZenonT(30) DEF Inv, Signals, Raised, Raises, Booked, AccelFetch
  <2>4. QED BY <1>1, <2>1, <2>2, <2>3, ZenonT(30) DEF Inv
<1>3. CASE AccelStore
  <2>1. Typed' BY <1>3, Zenon DEF Inv, Typed, AccelStore
  <2>2. Phases' BY <1>3, Zenon DEF Inv, Typed, Mutex, Phases, Phase, Healthy, Quiet, AccelStore, Held
  <2>3. Signals' BY <1>3, Zenon DEF Inv, Signals, Raised, Raises, Booked, AccelStore
  <2>4. QED BY <1>1, <2>1, <2>2, <2>3, Zenon DEF Inv
<1>4. CASE AccelDone
  <2>1. Typed' BY <1>4, Zenon DEF Inv, Typed, AccelDone
  <2>2. Phases' BY <1>4, Zenon DEF Inv, Typed, Mutex, Phases, Phase, Healthy, Quiet, AccelDone, Held
  <2>3. lock \in Threads /\ pc[lock] \in {"count", "wait", "abort"}
    BY <1>4, Zenon DEF Inv, Typed, Mutex, Phases, Phase, Healthy, Quiet, AccelDone, Held
  <2>4. Signals' BY <1>4, <2>3, Zenon DEF Inv, Mutex, Signals, Raised, Raises, Booked, AccelDone, Held
  <2>5. QED BY <1>1, <2>1, <2>2, <2>4, Zenon DEF Inv
<1>5. QED BY <1>2, <1>3, <1>4, Zenon

\* An interrupt is taken, or lost, only while its batch still holds the mutex.
LEMMA InterruptKeeps ==
  ASSUME Inv, gemm_isr \/ LoseInterrupt, UNCHANGED <<load, ip>>
  PROVE  Inv'
<1>1. CASE LoseInterrupt
  BY <1>1, StillKeeps, Zenon DEF LoseInterrupt, accelVars, dataVars, callVars
<1>2. CASE gemm_isr
  <2>1. /\ irq /\ irq' = FALSE /\ age' = 0 /\ t_isr' = kicks /\ isr_fired' = TRUE /\ done' = 1
        /\ UNCHANGED <<descQ, qBusy, qDone, qOverflow, cur, lock, poll_mode, kicks, pc, req, tile, t_kick>>
    BY <1>2, Zenon DEF gemm_isr, accelVars, callVars
  <2>2. Typed' BY <2>1, Zenon DEF Inv, Typed
  <2>3. Mutex' BY <2>1, Zenon DEF Inv, Mutex
  <2>4. PICK t \in Threads : Raises(t) BY <2>1, Zenon DEF Inv, Signals, Raised
  <2>5. pc[t] \in Held BY <2>4, Zenon DEF Raises, Held
  <2>6. ASSUME NEW u \in Threads PROVE Phase(u)' BY <2>1, Zenon DEF Inv, Phases, Phase, Quiet
  <2>7. ASSUME NEW u \in Threads PROVE Booked(u)'
    <3>1. CASE u = t BY <2>1, <2>4, <3>1, Zenon DEF Inv, Signals, Booked, Raises
    <3>2. CASE u # t
      <4>1. pc'[u] \notin Held BY <2>1, <2>5, <3>2, Zenon DEF Inv, Mutex
      <4>2. QED BY <4>1, Zenon DEF Booked, Held
    <3>3. QED BY <3>1, <3>2, Zenon
  <2>8. Phases' BY <2>1, <2>6, Zenon DEF Inv, Phases, Healthy, Quiet
  <2>9. Signals' BY <2>1, <2>7, Zenon DEF Signals, Raised
  <2>10. QED BY <2>2, <2>3, <2>8, <2>9, Zenon DEF Inv
<1>3. QED BY <1>1, <1>2, Zenon

\* The worker thread only moves lines of the cache.
LEMMA WorkerKeeps == ASSUME Inv, worker PROVE Inv'
<1>1. irq' = irq /\ age' \in Nat /\ age' >= age BY Ages, Zenon DEF worker
<1>2. QED BY <1>1, StillKeeps, Zenon DEF worker, accelVars, dataVars, callVars

\* The invariant holds in every state of every behaviour.
THEOREM DriverInvariant == Spec => []Inv
<1>1. Init => Inv
  <2> SUFFICES ASSUME Init PROVE Inv BY Zenon
  <2>1. Typed
    <3>a. <<>> \in Seq(Tiles) OBVIOUS
    <3>b. 0 \in Nat /\ TRUE \in BOOLEAN /\ FALSE \in BOOLEAN BY Zenon
    <3>1. NoReq \in Requests BY Zenon, <3>a, <3>b DEF NoReq, Requests
    <3>2. /\ descQ = <<>> /\ age = 0 /\ kicks = 0 /\ done = 0 /\ t_isr = 0 /\ lock = NoThread
          /\ pc = [t \in Threads |-> "idle"] /\ req = [t \in Threads |-> NoReq]
          /\ tile = [t \in Threads |-> 0] /\ t_kick = [t \in Threads |-> 0]
          /\ load \in Workloads /\ ip = [t \in Threads |-> 1]
      BY Zenon DEF Init, gemm_init
    <3>3. pc \in [Threads -> Places] BY <3>2, Zenon DEF Places
    <3>4. req \in [Threads -> Requests] BY <3>1, <3>2, Zenon
    <3>5. /\ tile \in [Threads -> Nat] /\ t_kick \in [Threads -> Nat]
          /\ ip \in [Threads -> Nat \ {0}]
      BY <3>2
    <3>6. descQ \in Seq(Tiles) BY Zenon, <3>a, <3>2
    <3>7. QED BY <3>2, <3>3, <3>4, <3>5, <3>6, Zenon DEF Typed
  <2>2. Mutex /\ Phases /\ Signals BY Zenon DEF Init, gemm_init, Mutex, Phases, Phase, Healthy, Signals, Raised, Raises, Booked, Quiet, Held
  <2>3. QED BY <2>1, <2>2, Zenon DEF Inv
<1>2. Inv /\ [Next]_vars => Inv'
  <2> SUFFICES ASSUME Inv, [Next]_vars PROVE Inv' BY Zenon
  <2>1. ASSUME NEW t \in Threads, Thread(t) PROVE Inv'
    BY <2>1, OutsideKeeps, InsideKeeps, Zenon DEF Thread, appVars
  <2>2. CASE UNCHANGED vars
    <3>1. age \in Nat BY Zenon DEF Inv, Typed
    <3>2. irq' = irq /\ age' = age BY <2>2, Zenon DEF vars, driverVars, irqVars
    <3>3. age' \in Nat /\ (irq' => irq /\ age' >= age) BY <3>1, <3>2
    <3>4. QED BY <2>2, <3>3, StillKeeps, Zenon DEF vars, driverVars, appVars, accelVars, dataVars, callVars
  <2>3. QED BY <2>1, <2>2, AcceleratorKeeps, InterruptKeeps, WorkerKeeps, Zenon DEF Next, appVars
<1>3. QED BY <1>1, <1>2, PTL DEF Spec

\* gemm_run_batch never returns success for a batch that is not its own: for
\* every number of threads and every program, a call goes past its wait only
\* when the accelerator has finished what this call started.
THEOREM WakesAreOwn == Spec => []NoStaleWake
<1>1. Inv => NoStaleWake
  BY Zenon DEF Inv, Typed, Mutex, Phases, Phase, Healthy, Signals, Raised, Raises, Booked, Quiet, NoStaleWake, Woken, Held
<1>2. QED BY <1>1, DriverInvariant, PTL

\* The check of QUEUE_FREE before the mutex is enough: it bounds the batch by
\* the depth of the queue, and whoever holds the mutex finds the queue empty.
THEOREM NoDrop == Spec => []PushNeverDropped
<1>1. Inv => PushNeverDropped BY Zenon DEF Inv, Phases, Phase, Healthy, PushNeverDropped
<1>2. QED BY <1>1, DriverInvariant, PTL

\* Between calls the accelerator is idle, whichever way the last call ended.
THEOREM QuietBetweenCalls == Spec => []QuietOutsideCalls
<1>1. Inv => QuietOutsideCalls BY Zenon DEF Inv, Phases, Phase, Healthy, Quiet, QuietOutsideCalls
<1>2. QED BY <1>1, DriverInvariant, PTL
=============================================================================
