------------------------------ MODULE CoreList ------------------------------
(***************************************************************************)
(* CoreMark's linked list (core_list_join.c): a block of list cells and a  *)
(* block of data items, all operations in place.  A heap h is              *)
(*   next : cell -> cell or NULL       info : cell -> data item            *)
(*   idx, data16 : data item -> 16-bit value                               *)
(* Cells and items are numbered by their place in their block; cell 0 is   *)
(* the list's fixed header.                                                *)
(***************************************************************************)
EXTENDS CoreUtil, Bitwise

NULL == -1

(* The cells from c to the end of its list, in order.                      *)
RECURSIVE Chain(_, _)
Chain(h, c) == IF c = NULL THEN <<>> ELSE <<c>> \o Chain(h, h.next[c])

Idx(h, c) == h.idx[h.info[c]]

Data(h, c) == h.data16[h.info[c]]

copy_info(h, item, idx, data) == [h EXCEPT !.idx[item] = idx, !.data16[item] = data]

(* core_list_insert_new: the next free cell and item, if both blocks have  *)
(* one left (b is the number of each used so far, size the blocks' size).  *)
core_list_insert_new(s, at, idx, data, size) ==
    IF s.b + 1 >= size THEN s
    ELSE [h |-> [copy_info(s.h, s.b, idx, data)
                    EXCEPT !.next[s.b] = s.h.next[at], !.next[at] = s.b, !.info[s.b] = s.b],
          b |-> s.b + 1]

Heap(size) ==
    LET Words == [0..(size - 1) -> Int]
    IN  [next : Words, info : Words, idx : Words, data16 : Words]

(* The loop of core_list_init that inserts size items behind the header.   *)
InsertItems(s0, seed, size) ==
    LET Go(s)     == s.i < size
        Insert(s) == LET dat == (((seed ^^ s.i) % 16) * 8) + (s.i % 8)
                     IN  [i |-> s.i + 1,
                          l |-> core_list_insert_new(s.l, 0, 32767, dat * 256 + dat, size)]
    IN  While(Go, Insert, [i : Nat, l : [h : Heap(size), b : Nat]], [i |-> 0, l |-> s0]).l

(* The index of the i-th item: the first fifth in order, the rest mixed,   *)
(* behind them.                                                            *)
ItemIndex(i, seed, size) ==
    IF i < size \div 5 THEN i
    ELSE ((((i + 1) % 8) * 256) | (i ^^ seed)) % 16384

(* The loop of core_list_init that indexes every item but the last.        *)
IndexItems(h0, seed, size) ==
    LET Go(s)    == s.h.next[s.finder] # NULL
        Index(s) == [i |-> s.i + 1, finder |-> s.h.next[s.finder],
                     h |-> [s.h EXCEPT !.idx[s.h.info[s.finder]] = ItemIndex(s.i, seed, size)]]
    IN  While(Go, Index, [i : Nat, finder : Nat, h : Heap(size)],
              [i |-> 1, finder |-> h0.next[0], h |-> h0]).h

ListSize(blksize) == (blksize \div 20) - 2

(* core_list_init up to its final sort: header, tail, items, indices.      *)
core_list_init(blksize, seed) ==
    LET size  == ListSize(blksize)
        Cells == 0..(size - 1)
        h0    == [next   |-> [c \in Cells |-> NULL], info   |-> [c \in Cells |-> 0],
                  idx    |-> [d \in Cells |-> 0],
                  data16 |-> [d \in Cells |-> IF d = 0 THEN 32896 ELSE 0]]
        tail  == core_list_insert_new([h |-> h0, b |-> 1], 0, 32767, 65535, size)
        full  == InsertItems(tail, seed, size)
    IN  [h |-> IndexItems(full.h, seed, size), b |-> full.b]

(* core_list_find: the first cell with the index sought, or, when that is  *)
(* negative, with the data sought.                                         *)
RECURSIVE core_list_find(_, _, _, _)
core_list_find(h, c, idx, data) ==
    IF c = NULL THEN NULL
    ELSE IF IF idx >= 0 THEN Idx(h, c) = idx ELSE Data(h, c) % 256 = data THEN c
    ELSE core_list_find(h, h.next[c], idx, data)

(* core_list_reverse: c is the rest of the list, done what is reversed.    *)
core_list_reverse(h, list) ==
    LET Go(s)   == s.c # NULL
        Turn(s) == [next |-> [s.next EXCEPT ![s.c] = s.done], c |-> s.next[s.c], done |-> s.c]
        r == While(Go, Turn, [next : [DOMAIN h.next -> Int], c : Int, done : Int],
                   [next |-> h.next, c |-> list, done |-> NULL])
    IN  [h |-> [h EXCEPT !.next = r.next], list |-> r.done]

(* core_list_remove: the cell takes over its successor's item, and the     *)
(* successor leaves the list with the item removed.                        *)
core_list_remove(h, item) ==
    LET ret == h.next[item]
    IN  [h EXCEPT !.info[item] = h.info[ret], !.info[ret] = h.info[item],
                  !.next[item] = h.next[ret], !.next[ret] = NULL]

core_list_undo_remove_slip(h, removed, modified) ==
    [h EXCEPT !.next[removed] = h.next[modified], !.next[modified] = removed]

core_list_undo_remove(h, removed, modified) ==
    [h EXCEPT !.info[removed] = h.info[modified], !.info[modified] = h.info[removed],
              !.next[removed] = h.next[modified], !.next[modified] = removed]

(* The cell n places along from c, or NULL.                                *)
RECURSIVE Along(_, _, _)
Along_slip(h, c, n) == IF n <= 1 \/ c = NULL THEN c ELSE Along(h, h.next[c], n - 1)

Along(h, c, n) == IF n = 0 \/ c = NULL THEN c ELSE Along(h, h.next[c], n - 1)

(* The first n cells of c's list, fewer if it ends before.                 *)
RECURSIVE FirstCells(_, _, _)
FirstCells(h, c, n) ==
    IF n = 0 \/ c = NULL THEN <<>> ELSE <<c>> \o FirstCells(h, h.next[c], n - 1)

(* cmp_idx called without results restores the low byte of the data from   *)
(* its backup in the high byte.                                            *)
Regen(d) == (d \div 256) * 256 + (d \div 256)
=============================================================================
