----------------------------- MODULE CoreMatrix -----------------------------
(***************************************************************************)
(* CoreMark's matrix benchmark (core_matrix.c).  A matrix is a function of *)
(* 0 .. N*N-1, as the code indexes it; MATDAT is a signed 16-bit integer   *)
(* and MATRES a signed 32-bit one, which no value here exceeds.            *)
(***************************************************************************)
EXTENDS CoreUtil, FiniteSetsExt

matrix_clip(x, y) == IF y THEN x % 256 ELSE U16(x)

(* The low n bits of x shifted right by from; the shift keeps the sign.    *)
bit_extract(x, from, n) == (x \div 2^from) % 2^n

(* The largest matrix whose two operands and result take less than the     *)
(* block: core_init_matrix's first loop.                                   *)
Dimension_slip(blksize) == CHOOSE i \in 1..blksize : i * i * 8 >= blksize /\ (i - 1) * (i - 1) * 8 < blksize

Dimension(blksize) == (CHOOSE i \in 1..blksize : i * i * 8 >= blksize /\ (i - 1) * (i - 1) * 8 < blksize) - 1

(* core_init_matrix: its second loop multiplies the seed by each order;    *)
(* that gives B, and A from B.                                             *)
core_init_matrix(blksize, seed) ==
    LET N == Dimension(blksize)
        Go(s)   == s.order <= N * N
        Next(s) == LET product == (s.order * s.seed) % 65536
                   IN  [order |-> s.order + 1, seed |-> product, seeds |-> Append(s.seeds, product)]
        seeds == While(Go, Next, [order : Nat, seed : Nat, seeds : Seq(Nat)],
                       [order |-> 1, seed |-> IF seed = 0 THEN 1 ELSE seed, seeds |-> <<>>]).seeds
        B == [x \in 0..(N * N - 1) |-> S16(seeds[x + 1] + x + 1)]
    IN  [N |-> N, B |-> B,
         A |-> [x \in 0..(N * N - 1) |-> matrix_clip(B[x] + x + 1, TRUE)]]

matrix_mul_const(C, A, val) == [x \in DOMAIN C |-> A[x] * val]

matrix_add_const(A, val) == [x \in DOMAIN A |-> S16(A[x] + val)]

matrix_mul_vect(N, C, A, B) ==
    [x \in DOMAIN C |->
        IF x < N THEN MapThenSumSet(LAMBDA j : A[x * N + j] * B[j], 0..(N - 1)) ELSE C[x]]

matrix_mul_matrix(N, C, A, B) ==
    [x \in DOMAIN C |->
        LET i == x \div N
            j == x % N
        IN  MapThenSumSet(LAMBDA k : A[i * N + k] * B[k * N + j], 0..(N - 1))]

matrix_mul_matrix_bitextract(N, C, A, B) ==
    [x \in DOMAIN C |->
        LET i == x \div N
            j == x % N
            T(k) == A[i * N + k] * B[k * N + j]
        IN  MapThenSumSet(LAMBDA k : bit_extract(T(k), 2, 4) * bit_extract(T(k), 5, 7),
                          0..(N - 1))]

(* matrix_sum: the running sum is clipped; the result counts ten for a     *)
(* clip and one for a rise.                                                *)
matrix_sum(C, clipval) ==
    LET Go(s)  == s.x \in DOMAIN C
        Add(s) == LET cur  == C[s.x]
                      over == s.tmp + cur > clipval
                      gain == IF over THEN 10 ELSE IF cur > s.prev THEN 1 ELSE 0
                  IN  [x |-> s.x + 1, tmp |-> IF over THEN 0 ELSE s.tmp + cur,
                       prev |-> cur, ret |-> S16(s.ret + gain)]
    IN  While(Go, Add, [x : Nat, tmp : Int, prev : Int, ret : Int],
              [x |-> 0, tmp |-> 0, prev |-> 0, ret |-> 0]).ret

(* 0xf000 | val, as a signed 16-bit value (val is below 0x1000 here).      *)
matrix_big(val) == S16(61440 + val)

(* The last call of matrix_test, which takes the shift back.               *)
matrix_restore_slip(A, val) == matrix_add_const(A, val)

matrix_restore(A, val) == matrix_add_const(A, -val)

(* matrix_test: four products of the shifted matrix, a checksum of each,   *)
(* and the shift taken back.                                               *)
matrix_test(N, A, B, val) ==
    LET clip == matrix_big(val)
        A1   == matrix_add_const(A, val)
        C1   == matrix_mul_const([x \in DOMAIN A |-> 0], A1, val)
        C2   == matrix_mul_vect(N, C1, A1, B)
        C3   == matrix_mul_matrix(N, C2, A1, B)
        C4   == matrix_mul_matrix_bitextract(N, C3, A1, B)
    IN  [A   |-> matrix_restore(A1, val),
         crc |-> crc16(matrix_sum(C4, clip), crc16(matrix_sum(C3, clip),
                 crc16(matrix_sum(C2, clip), crc16(matrix_sum(C1, clip), 0))))]

core_bench_matrix(mat, val, crc) ==
    LET t == matrix_test(mat.N, mat.A, mat.B, val)
    IN  [A |-> t.A, crc |-> crc16(t.crc, crc)]
=============================================================================
