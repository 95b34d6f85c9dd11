------------------------------- MODULE ICache -------------------------------
(***************************************************************************)
(* The instruction cache (icache_bram.v) behind its front end (icache.v),  *)
(* with the instruction port of the tightly coupled memory (tcm.v).        *)
(*                                                                         *)
(* Addresses count halfwords, because an instruction may start at any      *)
(* halfword.  The content of the instruction memory is abstracted to its   *)
(* own address: halfword h of a region holds h.  NoHalf is what an array   *)
(* holds before it is filled, or returns when it is read while written.    *)
(***************************************************************************)
EXTENDS Integers

CONSTANTS
  LINE_HALVES,   \* halfwords of a line (LINE_BYTES / 2), even
  IC_SETS, IC_TAGS

ASSUME ICacheAssumption ==
  LINE_HALVES \in 2 .. 8 /\ LINE_HALVES % 2 = 0 /\ IC_SETS \in Nat \ {0} /\ IC_TAGS \in Nat \ {0}

Halves == 0 .. IC_TAGS * IC_SETS * LINE_HALVES - 1
NoHalf == -1
IcIndexes == 0 .. IC_SETS - 1
IcInvalid == [v |-> FALSE, tag |-> 0]

\* Address arithmetic; an address past the last one wraps, as 32 bits do.
Plus2(h) == (h + 1) % (IC_TAGS * IC_SETS * LINE_HALVES)
LineOf(h) == h \div LINE_HALVES
IndexOf(h) == LineOf(h) % IC_SETS
TagOf(h) == LineOf(h) \div IC_SETS
cross_line(h) == h % LINE_HALVES = LINE_HALVES - 1
LowBits(h) == h % (IC_SETS * LINE_HALVES)

VARIABLES
  dat_even, dat_odd,       \* set -> the line whose halves it holds, NoHalf if none
  tagA, tagB,              \* set -> {valid, tag}, mirrored
  iState, iSweep, miss_addr_q,
  he, ho,                  \* the halves the registered rows and selects give
  q_tagA, q_tagB, q_unal, q_a,
  tcm_i_pending, tcm_i_ready, tcm_i_even, tcm_i_odd, tcm_i_unal

icVars == <<dat_even, dat_odd, tagA, tagB, iState, iSweep, miss_addr_q, he, ho, q_tagA,
            q_tagB, q_unal, q_a>>
tcmIVars == <<tcm_i_pending, tcm_i_ready, tcm_i_even, tcm_i_odd, tcm_i_unal>>

ICacheInit ==
  /\ dat_even = [s \in IcIndexes |-> NoHalf] /\ dat_odd = dat_even
  /\ \E v \in BOOLEAN : tagA = [s \in IcIndexes |-> [v |-> v, tag |-> 0]]
  /\ tagB = tagA
  /\ iState = "S_INIT" /\ iSweep = 0 /\ miss_addr_q = 0
  /\ he = NoHalf /\ ho = NoHalf /\ q_tagA = IcInvalid /\ q_tagB = IcInvalid
  /\ q_unal = FALSE /\ q_a = 0

TcmIInit ==
  /\ tcm_i_pending = FALSE /\ tcm_i_ready = FALSE
  /\ tcm_i_even = NoHalf /\ tcm_i_odd = NoHalf /\ tcm_i_unal = FALSE

-----------------------------------------------------------------------------
\* fetch_addr is pc, a record of its region and its halfword h.

fetch_valid(fetch_addr) == fetch_addr.region # "tcm"
hitA(h) == q_tagA.v /\ q_tagA.tag = TagOf(h)
hitB(h) == q_tagB.v /\ q_tagB.tag = TagOf(Plus2(h))
i_spec_ok(h) == LowBits(q_a) = LowBits(h)

\* An instruction that crosses into the next line is served on the hit of its
\* first line.
fetch_hit_first_line(h) == i_spec_ok(h) /\ hitA(h)

fetch_hit(h) == i_spec_ok(h) /\ hitA(h) /\ (cross_line(h) => hitB(h))

fetch_ready(fetch_addr) ==
  iState = "S_IDLE" /\ fetch_valid(fetch_addr) /\ fetch_hit(fetch_addr.h)

Stitch(unaligned, even, odd) == IF unaligned THEN <<odd, even>> ELSE <<even, odd>>

\* A second miss that asks for the first line again.
miss_addr_first_line(h) == LineOf(h)

miss_addr(h) == LineOf(IF ~hitA(h) THEN h ELSE Plus2(h))

wr_en(mem_ready) == iState = "S_FILL" /\ mem_ready

\* The row of a bank, and the half its select picks out of it.
HalfAt(bank, line_idx, offset, mem_ready) ==
  IF \/ bank[line_idx] = NoHalf
     \/ wr_en(mem_ready) /\ line_idx = miss_addr_q % IC_SETS
  THEN NoHalf ELSE bank[line_idx] * LINE_HALVES + offset

\* The even bank serves the half after an odd one: in the next word, and
\* perhaps in the next set.
EvenHalf(h) == IF h % 2 = 1 THEN Plus2(h) ELSE h
OddHalf(h) == IF h % 2 = 1 THEN h ELSE h + 1

TagNext(tag, mem_ready) ==
  IF iState = "S_INIT" THEN [tag EXCEPT ![iSweep] = IcInvalid]
  ELSE IF wr_en(mem_ready)
  THEN [tag EXCEPT ![miss_addr_q % IC_SETS] = [v |-> TRUE, tag |-> miss_addr_q \div IC_SETS]]
  ELSE tag

BankNext(bank, mem_ready) ==
  IF wr_en(mem_ready) THEN [bank EXCEPT ![miss_addr_q % IC_SETS] = miss_addr_q] ELSE bank

IStateNext(fetch_addr, mem_ready) ==
  CASE iState = "S_INIT" -> IF iSweep = IC_SETS - 1 THEN "S_RECHECK" ELSE "S_INIT"
    [] iState = "S_IDLE" -> IF ~fetch_valid(fetch_addr) \/ fetch_ready(fetch_addr) THEN "S_IDLE"
                            ELSE IF ~i_spec_ok(fetch_addr.h) THEN "S_RECHECK" ELSE "S_FILL"
    [] iState = "S_FILL" -> IF mem_ready THEN "S_RECHECK" ELSE "S_FILL"
    [] iState = "S_RECHECK" -> "S_IDLE"

\* One clock edge; a is the halfword pc will hold after it (pc_next).
ICacheTick(fetch_addr, a, mem_ready) ==
  LET idxA == IndexOf(a)
      idxB == IF cross_line(a) THEN (idxA + 1) % IC_SETS ELSE idxA
  IN
  /\ dat_even' = BankNext(dat_even, mem_ready)
  /\ dat_odd' = BankNext(dat_odd, mem_ready)
  /\ tagA' = TagNext(tagA, mem_ready) /\ tagB' = TagNext(tagB, mem_ready)
  /\ iState' = IStateNext(fetch_addr, mem_ready)
  /\ iSweep' = IF iState = "S_INIT" THEN (iSweep + 1) % IC_SETS ELSE iSweep
  /\ miss_addr_q' = IF iState = "S_IDLE" /\ IStateNext(fetch_addr, mem_ready) = "S_FILL"
                    THEN miss_addr(fetch_addr.h) ELSE miss_addr_q
  /\ he' = HalfAt(dat_even, IndexOf(EvenHalf(a)), EvenHalf(a) % LINE_HALVES, mem_ready)
  /\ ho' = HalfAt(dat_odd, IndexOf(OddHalf(a)), OddHalf(a) % LINE_HALVES, mem_ready)
  /\ q_tagA' \in {tagA[idxA], TagNext(tagA, mem_ready)[idxA]}
  /\ q_tagB' \in {tagB[idxB], TagNext(tagB, mem_ready)[idxB]}
  /\ q_unal' = (a % 2 = 1) /\ q_a' = a

-----------------------------------------------------------------------------
\* The tightly coupled memory's instruction port.

tcm_i_req(fetch_addr) == fetch_addr.region = "tcm" /\ ~tcm_i_pending

TcmITick(fetch_addr) ==
  /\ tcm_i_pending' = IF tcm_i_req(fetch_addr) THEN TRUE
                      ELSE IF tcm_i_ready THEN FALSE ELSE tcm_i_pending
  /\ tcm_i_ready' = tcm_i_req(fetch_addr)
  /\ IF tcm_i_req(fetch_addr)
     THEN /\ tcm_i_even' = EvenHalf(fetch_addr.h) /\ tcm_i_odd' = OddHalf(fetch_addr.h)
          /\ tcm_i_unal' = (fetch_addr.h % 2 = 1)
     ELSE UNCHANGED <<tcm_i_even, tcm_i_odd, tcm_i_unal>>

cache_ready(fetch_addr) ==
  IF fetch_addr.region = "tcm" THEN tcm_i_ready ELSE fetch_ready(fetch_addr)
if_inst(fetch_addr) ==
  IF fetch_addr.region = "tcm" THEN Stitch(tcm_i_unal, tcm_i_even, tcm_i_odd)
  ELSE Stitch(q_unal, he, ho)
=============================================================================
