------------------------------ MODULE CoreMark ------------------------------
(***************************************************************************)
(* The CoreMark port (fpga/coremark): main, the iteration count it         *)
(* calibrates, iterate, the list benchmark with its two merge sorts, and   *)
(* the state and matrix benchmarks the first sort's comparisons run.       *)
(*                                                                         *)
(* The sorts are stepped cell by cell; the searches, reversals and the two *)
(* other benchmarks are one step each.  iterate runs at most Detail of its *)
(* iterations in detail; the others only take their time.  Time is counted *)
(* in milliseconds: the 32-bit cycle counter wraps after Wrap of them.     *)
(***************************************************************************)
EXTENDS CoreList, CoreState, CoreMatrix

CONSTANTS Configs,   \* builds: kind of run, TOTAL_DATA_SIZE, ITERATIONS, time per iteration
          Detail,    \* iterations of one call of iterate that are run in detail
          Ticks,     \* clock ticks in a second
          Wrap       \* ticks after which the counter wraps

VARIABLES cfg,       \* the build that runs
          pc,        \* where main is
          h, list,   \* the heap of the list, and core_bench_list's pointer into it
          blk,       \* the state machine's block
          mat,       \* the matrices
          res,       \* core_results: the list's head and the four checksums
          b,         \* core_bench_list's other locals
          m,         \* core_list_mergesort's locals
          it,        \* iterate's and main's counters, and the clock
          fresh,     \* what the blocks held when main had initialised them
          far        \* how far the scans of the state block went at most

vars == <<cfg, pc, h, list, blk, mat, res, b, m, it, fresh, far>>

Seconds(t) == t \div Ticks

(* The kind of run the build asks for, or the one core_portme.h chooses.   *)
RunKind ==
    IF cfg.run # "unset" THEN cfg.run
    ELSE CASE cfg.total = 1200 -> "profile" [] cfg.total = 2000 -> "performance"
           [] OTHER -> "validation"

seed_volatile ==
    CASE RunKind = "validation"  -> <<13333, 13333, 102, cfg.iterations, 0>>
      [] RunKind = "performance" -> <<0, 0, 102, cfg.iterations, 0>>
      [] RunKind = "profile"     -> <<8, 8, 8, cfg.iterations, 0>>

get_seed_32(i) == IF i \in 1..5 THEN seed_volatile[i] ELSE 0

(* The three seeds main uses, with its defaults for a single seed given.   *)
Seeds ==
    LET given == <<get_seed_32(1), get_seed_32(2), get_seed_32(3)>>
    IN  CASE given = <<0, 0, 0>> -> <<0, 0, 102>>
          [] given = <<1, 0, 0>> -> <<13333, 13333, 102>>
          [] OTHER -> given

(* Each of the three algorithms gets a third of the memory.                *)
num_algorithms == 3

Size == cfg.total \div num_algorithms
-----------------------------------------------------------------------------
(* The effects of a comparison: what calc_func and cmp_idx may change.     *)
Effects == [h |-> h, blk |-> blk, A |-> mat.A, res |-> res, far |-> far]

(* What a benchmark returned (v) and left behind in s: that of the state   *)
(* machine, and that of the matrices.                                      *)
StateRan(s, st) ==
    [v |-> st.crc,
     s |-> [s EXCEPT !.blk = st.blk,
                     !.far = IF st.end > @ THEN st.end ELSE @,
                     !.res.crcstate = IF @ = 0 THEN st.crc ELSE @]]

MatrixRan(s, mx) ==
    [v |-> mx.crc, s |-> [s EXCEPT !.A = mx.A, !.res.crcmatrix = IF @ = 0 THEN mx.crc ELSE @]]

(* The low three bits of a data item choose a benchmark or the data.       *)
Bench(s, data) ==
    LET dtype == ((data \div 8) % 16) * 17
        step  == IF dtype < 34 THEN 34 ELSE dtype
    IN  CASE data % 8 = 0 ->
               StateRan(s, core_bench_state(s.blk, Seeds[1], Seeds[2], step, s.res.crc))
          [] data % 8 = 1 ->
               MatrixRan(s, core_bench_matrix([mat EXCEPT !.A = s.A], dtype, s.res.crc))
          [] OTHER -> [v |-> data, s |-> s]

(* The result is folded into the CRC and cached in the low byte.           *)
Cached(item, data, ran) ==
    LET v == ran.v % 128
    IN  [v |-> v,
         s |-> [ran.s EXCEPT !.res.crc = crcu16(ran.v, @),
                             !.h.data16[item] = (data \div 256) * 256 + 128 + v]]

(* calc_func on a data item: the cached value if there is one.             *)
calc_func(s, item) ==
    LET data == s.h.data16[item]
    IN  IF Bit(data, 7) = 1 THEN [v |-> data % 128, s |-> s]
        ELSE Cached(item, data, Bench(s, data))

(* The two comparison functions, on cells p and q.                         *)
Compared(one, two) == [d |-> one.v - two.v, s |-> two.s]

ThenCompared(one, q) == Compared(one, calc_func(one.s, one.s.h.info[q]))

cmp_complex(s, p, q) == ThenCompared(calc_func(s, s.h.info[p]), q)

cmp_idx(s, p, q) ==
    [d |-> Idx(s.h, p) - Idx(s.h, q),
     s |-> [s EXCEPT !.h.data16[s.h.info[p]] = Regen(@), !.h.data16[s.h.info[q]] = Regen(@)]]
-----------------------------------------------------------------------------
(* core_list_mergesort, entered with the list l of heap hp; the caller     *)
(* continues at ret.                                                       *)
SortCall(hp, l, cmp, ret) ==
    /\ m' = [list |-> NULL, p |-> l, q |-> NULL, tail |-> NULL, insize |-> 1, nmerges |-> 0,
             psize |-> 0, qsize |-> 0, cmp |-> cmp, ret |-> ret, before |-> Chain(hp, l)]
    /\ pc' = "runs"

(* The next two runs to merge: insize cells from p, and what follows them. *)
PickRuns ==
    /\ pc = "runs" /\ m.p # NULL
    /\ m' = [m EXCEPT !.nmerges = @ + 1,
                      !.q = Along(h, m.p, m.insize),
                      !.psize = Len(FirstCells(h, m.p, m.insize)),
                      !.qsize = m.insize]
    /\ pc' = "merge"
    /\ UNCHANGED <<cfg, h, list, blk, mat, res, b, it, fresh, far>>

RunsLeft == m.psize > 0 \/ (m.qsize > 0 /\ m.q # NULL)

(* Equal heads: the first run goes first.                                  *)
TakeFirst_slip(d) == d < 0

TakeFirst(d) == d <= 0

(* The comparison of the two heads, when both runs have one.               *)
BothLeft == m.psize > 0 /\ m.qsize > 0 /\ m.q # NULL

Comparison ==
    IF ~BothLeft THEN [d |-> 0, s |-> Effects]
    ELSE IF m.cmp = "complex" THEN cmp_complex(Effects, m.p, m.q)
    ELSE cmp_idx(Effects, m.p, m.q)

(* Take the lower of the two heads and link it behind the merged cells.    *)
Merge(both, c) ==
    LET fromP == IF both THEN TakeFirst(c.d) ELSE m.psize > 0
        e     == IF fromP THEN m.p ELSE m.q
    IN  /\ h' = IF m.tail = NULL THEN c.s.h ELSE [c.s.h EXCEPT !.next[m.tail] = e]
        /\ blk' = c.s.blk /\ mat' = [mat EXCEPT !.A = c.s.A] /\ res' = c.s.res /\ far' = c.s.far
        /\ m' = [m EXCEPT !.p = IF fromP THEN h.next[e] ELSE @,
                          !.psize = IF fromP THEN @ - 1 ELSE @,
                          !.q = IF fromP THEN @ ELSE h.next[e],
                          !.qsize = IF fromP THEN @ ELSE @ - 1,
                          !.list = IF m.tail = NULL THEN e ELSE @,
                          !.tail = e]

MergeOne ==
    /\ pc = "merge" /\ RunsLeft
    /\ \E c \in {Comparison} : Merge(BothLeft, c)
    /\ UNCHANGED <<cfg, pc, list, b, it, fresh>>

RunsMerged ==
    /\ pc = "merge" /\ ~RunsLeft
    /\ m' = [m EXCEPT !.p = m.q]
    /\ pc' = "runs"
    /\ UNCHANGED <<cfg, h, list, blk, mat, res, b, it, fresh, far>>

(* The size of the runs of the next pass.                                  *)
NextInsize_slip(insize) == insize

NextInsize(insize) == 2 * insize

(* The pass is over: return after a single merge, else merge runs twice    *)
(* the size.                                                               *)
PassEnd ==
    /\ pc = "runs" /\ m.p = NULL
    /\ h' = [h EXCEPT !.next[m.tail] = NULL]
    /\ IF m.nmerges <= 1
       THEN list' = m.list /\ pc' = m.ret /\ m' = m
       ELSE /\ m' = [m EXCEPT !.p = m.list, !.list = NULL, !.tail = NULL, !.nmerges = 0,
                              !.insize = NextInsize(@)]
            /\ UNCHANGED <<list, pc>>
    /\ UNCHANGED <<cfg, blk, mat, res, b, it, fresh, far>>
-----------------------------------------------------------------------------
(* core_bench_list(res, fidx) is entered with the list as res holds it.    *)
BenchCall(hp, r, fidx) ==
    /\ list' = r.list
    /\ b' = [fidx |-> fidx, i |-> 0, idx |-> fidx, data |-> 0, retval |-> 0,
             found |-> 0, missed |-> 0, rem |-> NULL]
    /\ pc' = "find"

(* The cell behind the one found moves to second place.                    *)
ToFront(next, at, head) ==
    LET finder == next[at]
        one == [next EXCEPT ![at] = next[finder]]
        two == [one EXCEPT ![finder] = one[head]]
    IN  IF finder = NULL THEN next ELSE [two EXCEPT ![head] = finder]

(* One round of the search loop: find, reverse, and count.                 *)
FindOne ==
    /\ pc = "find" /\ b.i < Seeds[3]
    /\ LET data == b.i % 256
           this == core_list_find(h, list, b.idx, data)
           r    == core_list_reverse(h, list)
           gain == IF this = NULL THEN Bit(Data(r.h, r.h.next[r.list]), 8)
                   ELSE IF Bit(Data(r.h, this), 0) = 1 THEN Bit(Data(r.h, this), 9) ELSE 0
       IN  /\ h' = IF this = NULL THEN r.h
                   ELSE [r.h EXCEPT !.next = ToFront(r.h.next, this, r.list)]
           /\ list' = r.list
           /\ b' = [b EXCEPT !.i = @ + 1, !.data = data,
                             !.idx = IF @ >= 0 THEN @ + 1 ELSE @,
                             !.retval = U16(@ + gain),
                             !.found = IF this = NULL THEN @ ELSE @ + 1,
                             !.missed = IF this = NULL THEN @ + 1 ELSE @]
    /\ UNCHANGED <<cfg, pc, blk, mat, res, m, it, fresh, far>>

(* The loop is over: sort by data when called with a positive index.       *)
FindEnd ==
    /\ pc = "find" /\ b.i = Seeds[3]
    /\ b' = [b EXCEPT !.retval = U16(@ + 4 * b.found - b.missed)]
    /\ IF b.fidx > 0 THEN SortCall(h, list, "complex", "remove")
                     ELSE pc' = "remove" /\ m' = m
    /\ UNCHANGED <<cfg, h, list, blk, mat, res, it, fresh, far>>

Remove ==
    /\ pc = "remove"
    /\ b' = [b EXCEPT !.rem = h.next[h.next[list]]]
    /\ h' = core_list_remove(h, h.next[list])
    /\ pc' = "walk"
    /\ UNCHANGED <<cfg, list, blk, mat, res, m, it, fresh, far>>

(* The CRC of the head's data, once for every cell from finder on.         *)
CrcTimes(n, data, crc) ==
    LET Go(s)  == s.n > 0
        Add(s) == [n |-> s.n - 1, crc |-> crc16(data, s.crc)]
    IN  While(Go, Add, [n : Nat, crc : Nat], [n |-> n, crc |-> crc]).crc

(* Checksum with one item gone, put it back, and sort by index.            *)
WalkAndUndo ==
    /\ pc = "walk"
    /\ LET sought == core_list_find(h, list, b.idx, b.data)
           finder == IF sought = NULL THEN h.next[list] ELSE sought
       IN  b' = [b EXCEPT !.retval = CrcTimes(Len(Chain(h, finder)), Data(h, list), @)]
    /\ h' = core_list_undo_remove(h, b.rem, h.next[list])
    /\ SortCall(h', list, "idx", "last")
    /\ UNCHANGED <<cfg, list, blk, mat, res, it, fresh, far>>
-----------------------------------------------------------------------------
(* iterate: two calls of core_bench_list in every iteration.               *)
IterateCall(r) ==
    LET r0 == [r EXCEPT !.crc = 0, !.crclist = 0, !.crcmatrix = 0, !.crcstate = 0]
    IN  /\ res' = r0
        /\ BenchCall(h, r0, 1)

(* core_bench_list's last checksum and what iterate does with the result.  *)
BenchEnd ==
    /\ pc = "last"
    /\ LET ret  == CrcTimes(Len(Chain(h, h.next[list])), Data(h, list), b.retval)
           crc  == crcu16(ret, res.crc)
           more == it.i + 1 < it.iterations /\ it.i + 1 < Detail
           r    == [res EXCEPT !.crc = crc,
                               !.crclist = IF b.fidx < 0 /\ it.i = 0 THEN crc ELSE @]
       IN  /\ res' = r
           /\ it' = [it EXCEPT !.i = IF b.fidx > 0 THEN @ ELSE @ + 1]
           /\ IF b.fidx > 0 THEN BenchCall(h, r, -1)
              ELSE IF more THEN BenchCall(h, r, 1)
              ELSE pc' = "timed" /\ UNCHANGED <<list, b>>
    /\ UNCHANGED <<cfg, h, blk, mat, m, fresh, far>>
-----------------------------------------------------------------------------
(* main: seeds, the three blocks, and the sort that ends core_list_init.   *)
Boot ==
    /\ pc = "boot"
    /\ h' = core_list_init(Size, Seeds[1]).h
    /\ mat' = core_init_matrix(Size, Seeds[1] + Seeds[2] * 65536)
    /\ blk' = core_init_state(Size, Seeds[1])
    /\ it' = [it EXCEPT !.iterations = IF get_seed_32(4) = 0 THEN 1 ELSE get_seed_32(4),
                        !.phase = IF get_seed_32(4) = 0 THEN "calibrate" ELSE "measure"]
    /\ SortCall(h', 0, "idx", "initialised")
    /\ UNCHANGED <<cfg, list, res, b, fresh, far>>

Initialised ==
    /\ pc = "initialised"
    /\ res' = [res EXCEPT !.list = list]
    /\ fresh' = [h |-> h, blk |-> blk, A |-> mat.A, list |-> list]
    /\ pc' = "ready"
    /\ UNCHANGED <<cfg, h, list, blk, mat, b, m, it, far>>

(* start_time and the call of iterate, calibrating with ten times as many  *)
(* iterations as before.                                                   *)
Start ==
    /\ pc = "ready"
    /\ it' = [it EXCEPT !.iterations = IF it.phase = "calibrate" THEN 10 * @ ELSE @,
                        !.i = 0, !.start = it.now]
    /\ IterateCall(res)
    /\ UNCHANGED <<cfg, h, blk, mat, m, fresh, far>>

(* The iterations that fill about ten seconds, given how long they took.   *)
Scale_slip(iterations, elapsed) == iterations * (10 \div Seconds(elapsed))

Scale(iterations, elapsed) == iterations * (1 + 10 \div Seconds(elapsed))

(* stop_time and get_time: an unsigned difference of the wrapping counter. *)
Stop ==
    /\ pc = "timed"
    /\ LET stop    == (it.now + it.iterations * cfg.tau) % Wrap
           elapsed == (stop - it.start) % Wrap
           enough  == elapsed >= Ticks
       IN  /\ it' = [it EXCEPT !.now = stop, !.elapsed = elapsed,
                               !.phase = IF enough THEN "measure" ELSE @,
                               !.iterations = IF it.phase = "calibrate" /\ enough
                                              THEN Scale(@, elapsed) ELSE @]
           /\ pc' = IF it.phase = "calibrate" THEN "ready" ELSE "report"
    /\ UNCHANGED <<cfg, h, list, blk, mat, res, b, m, fresh, far>>

(* The checksum of the inputs, and the runs whose results are known.       *)
seedcrc == crc16(Size, crc16(Seeds[3], crc16(Seeds[2], crc16(Seeds[1], 0))))

KnownId ==
    CASE seedcrc = 35330 -> 1 [] seedcrc = 31493 -> 2 [] seedcrc = 20143 -> 3
      [] seedcrc = 59893 -> 4 [] seedcrc = 6386 -> 5 [] OTHER -> 0

list_known_crc   == <<54448, 13120, 27257, 59156, 58305>>
matrix_known_crc == <<48722, 4505, 22024, 8151, 1863>>
state_known_crc  == <<24135, 14783, 58788, 36410, 36228>>

Errors(id) ==
    LET got  == <<res.crclist, res.crcmatrix, res.crcstate>>
        want == <<list_known_crc[id], matrix_known_crc[id], state_known_crc[id]>>
    IN  Cardinality({x \in 1..3 : got[x] # want[x]})

(* The verdict: no errors among the known results, and ten seconds or more.*)
Report ==
    /\ pc = "report"
    /\ it' = [it EXCEPT !.errors = (IF KnownId = 0 THEN -1 ELSE Errors(KnownId))
                                   + (IF Seconds(it.elapsed) < 10 THEN 1 ELSE 0)]
    /\ pc' = "done"
    /\ UNCHANGED <<cfg, h, list, blk, mat, res, b, m, fresh, far>>
-----------------------------------------------------------------------------
Init ==
    /\ cfg \in Configs
    /\ pc = "boot"
    /\ h = <<>> /\ list = NULL /\ blk = <<>> /\ mat = <<>>
    /\ res = [list |-> NULL, crc |-> 0, crclist |-> 0, crcmatrix |-> 0, crcstate |-> 0]
    /\ b = <<>> /\ m = <<>>
    /\ it = [iterations |-> 0, phase |-> "none", i |-> 0, now |-> cfg.t0, start |-> 0,
             elapsed |-> 0, errors |-> 0]
    /\ fresh = <<>> /\ far = 0

(* main has returned; crt0 stays in a loop.                                *)
Returning == pc = "done" /\ UNCHANGED vars

Next ==
    \/ Returning
    \/ Boot \/ Initialised \/ Start \/ Stop \/ Report
    \/ FindOne \/ FindEnd \/ Remove \/ WalkAndUndo \/ BenchEnd
    \/ PickRuns \/ MergeOne \/ RunsMerged \/ PassEnd

(* The processor keeps executing until main has returned: weak fairness of *)
(* Next, whose enabling condition is that main has not (no other state     *)
(* deadlocks).                                                             *)
Fairness == []<>(pc = "done") \/ []<><<TRUE>>_vars

Spec == Init /\ [][Next]_vars /\ Fairness
-----------------------------------------------------------------------------

SetOf(s) == {s[i] : i \in DOMAIN s}

Returned == pc = "last" \/ pc = "initialised" \/ (pc = "remove" /\ b.fidx > 0)

SortKey(c) == IF m.cmp = "idx" THEN Idx(h, c) ELSE Data(h, c) % 128

Place(s, c) == CHOOSE i \in DOMAIN s : s[i] = c

(* What core_list_mergesort returns: the cells it was given, in the order  *)
(* of their indices, or of the 7-bit values the other benchmarks gave      *)
(* them while it ran, and cells of equal value in the order they had.      *)
SortRight ==
    Returned =>
        LET s == Chain(h, list)
        IN  /\ Len(s) = Len(m.before) /\ SetOf(s) = SetOf(m.before)
            /\ \A i \in 1..(Len(s) - 1) :
                  \/ SortKey(s[i]) < SortKey(s[i + 1])
                  \/ /\ SortKey(s[i]) = SortKey(s[i + 1])
                     /\ Place(m.before, s[i]) < Place(m.before, s[i + 1])

(* The comment of core_bench_list, "At the end of this function, the list  *)
(* is back to original state": after all its reversals, moves, a sort by   *)
(* cached values, a removal and its undoing, every cell, link and data     *)
(* item is what main initialised, and so are the state block ("undo        *)
(* corruption") and matrix A ("return matrix to initial value").  One      *)
(* iteration therefore stands for those that repeat it.                    *)
MemoryRestored ==
    pc = "last" => h = fresh.h /\ list = fresh.list /\ blk = fresh.blk /\ mat.A = fresh.A

(* With the seeds and sizes main knows, all three checksums are the ones   *)
(* it expects, after every call of iterate.                                *)
KnownCrcs == pc \in {"timed", "report", "done"} /\ KnownId # 0 => Errors(KnownId) = 0

(* The scans of core_bench_state look for a zero and not for the end of    *)
(* the block: clean or corrupted, they meet one inside it.                 *)
ScanStaysInBlock == far <= Size

(* When main determines the iterations itself, the measured run takes ten  *)
(* seconds or more, at most a hundred, and the difference of the 32-bit    *)
(* counter is the time that really passed.                                 *)
CalibratedRunIsLongEnough ==
    pc \in {"report", "done"} /\ get_seed_32(4) = 0 =>
        /\ Seconds(it.elapsed) \in 10..100
        /\ it.elapsed = it.iterations * cfg.tau

(* main reaches its report: every sort, every search and the calibration   *)
(* end.                                                                    *)
BenchmarkEnds == <>(pc = "done")
=============================================================================
