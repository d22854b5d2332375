------------------------------ MODULE Topology ------------------------------
(***************************************************************************)
(* The beam grid of topology.c, the nearest beam of a place, and the two   *)
(* maps of info_process.c between the waves of the satellite and the rows  *)
(* of a baseband unit, as operators.  Lengths are whole numbers in a unit  *)
(* in which the centres of the beams are whole (the width is then a        *)
(* multiple of 2 * cols, the height of 2 * rows); distances are compared   *)
(* by their squares.  UserTopology matches users to the beams, and the     *)
(* waves and the matrix of Scheduler's instance are from here.             *)
(***************************************************************************)
EXTENDS Integers, FiniteSets, FiniteSetsExt

CONSTANTS WAVE_TOTALNUM,                    (* beams, 600 *)
          COVERAGE_WIDTH, COVERAGE_HEIGHT,  (* 1000 km each *)
          INTERFERENCE_TH                   (* 2 * BEAM_RADIUS_KM, 50 km *)

Beam == 0 .. WAVE_TOTALNUM - 1
BBU_NUM == 8     (* the BEAM_TOTALNUM of globals.h *)
BBU == 0 .. BBU_NUM - 1
RowsOfBBU == WAVE_TOTALNUM \div (BBU_NUM \div 2)    (* WAVE_NUM *)
PolledOfBBU == WAVE_TOTALNUM \div BBU_NUM           (* WAVE_NUM_PER_BBU *)

cols == CHOOSE n \in 1 .. WAVE_TOTALNUM : /\ n * n <= WAVE_TOTALNUM
                                           /\ (n + 1) * (n + 1) > WAVE_TOTALNUM
rows == (WAVE_TOTALNUM + cols - 1) \div cols

step_x == COVERAGE_WIDTH \div cols
step_y == COVERAGE_HEIGHT \div rows

(* The 600 beams fill a grid of 24 by 25, and are shared out to 8 units. *)
ASSUME BeamsAssumption ==
  /\ WAVE_TOTALNUM \in Nat /\ 0 < WAVE_TOTALNUM /\ WAVE_TOTALNUM < 65536
  /\ WAVE_TOTALNUM % BBU_NUM = 0
  /\ WAVE_TOTALNUM = cols * rows

ASSUME AreaAssumption ==
  /\ COVERAGE_WIDTH \in Nat \ {0} /\ COVERAGE_WIDTH % (2 * cols) = 0
  /\ COVERAGE_HEIGHT \in Nat \ {0} /\ COVERAGE_HEIGHT % (2 * rows) = 0

(* The threshold lies between the distance of beams that share a side and
   those of beams that share a corner, or have one between them. *)
ASSUME ThresholdAssumption ==
  /\ INTERFERENCE_TH \in Nat
  /\ INTERFERENCE_TH >= step_x /\ INTERFERENCE_TH >= step_y
  /\ INTERFERENCE_TH < 2 * step_x /\ INTERFERENCE_TH < 2 * step_y
  /\ INTERFERENCE_TH * INTERFERENCE_TH < step_x * step_x + step_y * step_y

(* Mutant: rows and columns are mixed up. *)
Init_Topology_by_rows(b) == [x |-> (b \div cols) * step_x + step_x \div 2,
                             y |-> (b % cols) * step_y + step_y \div 2]

(* g_Beam_Topology[b].Center *)
Init_Topology(b) == [x |-> (b % cols) * step_x + step_x \div 2,
                     y |-> (b \div cols) * step_y + step_y \div 2]

calc_distance(p, q) == (p.x - q.x) * (p.x - q.x) + (p.y - q.y) * (p.y - q.y)

(* The first of the nearest beams: a later one has to be nearer. *)
Best_Wave_ID_at(pos) ==
  LET distance(b) == calc_distance(pos, Init_Topology(b))
      min_dist == Min({distance(b) : b \in Beam})
  IN  Min({b \in Beam : distance(b) = min_dist})

(* The row of g_Interference_Matrix of beam b. *)
Init_Interference_Matrix(b) ==
  {c \in Beam : \/ b = c
                \/ calc_distance(Init_Topology(b), Init_Topology(c))
                     <= INTERFERENCE_TH * INTERFERENCE_TH}

-----------------------------------------------------------------------------
(* The blocks of RowsOfBBU waves that the switches of both maps give to the
   BBUs: four blocks, and two BBUs for each. *)
Block(bbu) == CASE bbu \in {0, 6} -> 0
                [] bbu \in {1, 7} -> 1
                [] bbu \in {2, 4} -> 2
                [] bbu \in {3, 5} -> 3

WAVE_NUM_to_LocalIndex_map(bbu, wave_num) ==
  (wave_num - Block(bbu) * RowsOfBBU) % 65536

wave_local_index_to_WAVE_NUM(bbu, row) == (row + Block(bbu) * RowsOfBBU) % 65536

(* The rows that poll_wave_index_renew_MLRA looks at, each with the wave
   whose interference it reckons. *)
Polled(bbu) == {<<w, bbu * PolledOfBBU + w>> : w \in 0 .. PolledOfBBU - 1}

=============================================================================
