------------------------------- MODULE MCGemm -------------------------------
(***************************************************************************)
(* Two threads, a cache of four lines of two bytes.  Operands of two bytes *)
(* at an odd address span two lines.                                       *)
(***************************************************************************)
EXTENDS GemmThreads, TLC

CONSTANTS t1, t2

X(a, b, d, bonly, coherent) ==
  [a_src |-> a, b_src |-> b, dest |-> d, b_only |-> bonly, src_coherent |-> coherent]
R(tiles, timeout) == [tiles |-> tiles, timeout |-> timeout, out_int8 |-> TRUE, dest_stride |-> 0]

St(line, v) == StoreTo(line, <<v>>)
Run(r) == [op |-> "run_batch", req |-> r, loop |-> FALSE]
Check(tiles, i) == [op |-> "check", tiles |-> tiles, tile |-> i]
Flush(addr, size) == [op |-> "flush_range", addr |-> addr, size |-> size]
Mode(poll) == [op |-> "set_poll_mode", poll |-> poll]

\* The sample: the A panel in line 0, B panels in lines 2 and 3.
Sample == stage_operands(2) \o SweepPoint(1) \o SweepPoint(2)

\* A caller with fresh operands for every batch, in the lines from base on.
Tile1(base) == <<X(2 * base + 1, 2 * base + 4, 2 * base + 6, FALSE, FALSE)>>
Fresh(base, v, timeout) ==
  <<St(base, v), St(base + 1, v), St(base + 2, v), Run(R(Tile1(base), timeout)), Check(Tile1(base), 1)>>

\* A batch that fills the queue.
Pair(base) == Tile1(base) \o <<X(2 * base + 1, 2 * base + 4, 2 * base + 6, TRUE, FALSE)>>
Full(base, v) ==
  <<St(base, v), St(base + 1, v), St(base + 2, v), Run(R(Pair(base), FALSE)), Check(Pair(base), 2)>>

\* A caller that cleared the destination and flushed it, as the cache driver asks.
Cleared(base) ==
  <<St(base + 3, 3), Flush(2 * base + 6, 2)>> \o Fresh(base, 1, FALSE)

\* Calls the driver refuses.
Refused ==
  <<Run(R(<<>>, FALSE)), Run([R(Tile1(4), FALSE) EXCEPT !.dest_stride = 1]),
    Run(R(Tile1(4) \o Tile1(4) \o Tile1(4), FALSE)), [op |-> "flush_operands", tiles |-> <<>>], [op |-> "flush_all"]>>

Two(p1, p2, faults) == [prog |-> (t1 :> p1) @@ (t2 :> p2), faults |-> faults]

MCWorkloads ==
  { Two(Sample, <<>>, FALSE),
    Two(stage_operands(2) \o run_mode(FALSE, 2, TRUE), cache_test(12, 2), TRUE),
    Two(Full(0, 1), Full(4, 1), FALSE),
    Two(Fresh(0, 1, TRUE), Fresh(4, 1, TRUE), TRUE),
    Two(Fresh(0, 1, TRUE) \o Fresh(0, 2, TRUE), <<>>, TRUE),
    Two(Fresh(0, 1, FALSE) \o Fresh(0, 2, FALSE), Fresh(4, 1, FALSE), FALSE),
    Two(Cleared(0), <<Mode(TRUE)>> \o Fresh(4, 1, FALSE), FALSE),
    Two(Refused \o Fresh(4, 1, FALSE), <<>>, FALSE) }

\* A caller that cleared its destination and relies on the driver.
DestWorkloads == { Two(<<St(3, 3)>> \o Fresh(0, 1, FALSE), <<>>, FALSE) }

MCTiles == [a_src : {0, 1, 9}, b_src : {4, 6, 12}, dest : {6, 8, 10, 14}, b_only : BOOLEAN, src_coherent : BOOLEAN]
MCThreads == {t1, t2}
MCLines == 0 .. 19
\* Clearing .bss leaves displace_buf itself dirty, or the destinations cached.
MCBoot == { [s \in 0 .. 3 |-> [line |-> 8 + s, val |-> Boot, dirty |-> TRUE]],
            [s \in 0 .. 3 |-> [line |-> 4 + s, val |-> Boot, dirty |-> FALSE]] }
MCWorkLines == {16, 19}
=============================================================================
