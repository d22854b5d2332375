---------------------------- MODULE UserTopology ----------------------------
(***************************************************************************)
(* Generate_Users_And_Match of topology.c: one user after the other gets a *)
(* random place in the area, and the beam whose centre is nearest.  Until  *)
(* then his entry is what a global of C begins with.  URNTI, address and   *)
(* class of service are RecordQueue's and MacAccess's matter.              *)
(***************************************************************************)
EXTENDS Topology

CONSTANTS UE_TOTALNUM,
          Positions        (* what random_double may return *)

ASSUME UsersAssumption ==
  /\ UE_TOTALNUM \in Nat
  /\ Positions \subseteq [x : 0 .. COVERAGE_WIDTH, y : 0 .. COVERAGE_HEIGHT]

VARIABLES g_User_Topology,
          generated        (* the index of the loop *)

matchVars == <<g_User_Topology, generated>>

UserIndex == 0 .. UE_TOTALNUM - 1

MatchInit ==
  /\ g_User_Topology =
       [n \in UserIndex |-> [Pos |-> [x |-> 0, y |-> 0], Best_Wave_ID |-> 0]]
  /\ generated = 0

Generate_Users_And_Match ==
  /\ generated < UE_TOTALNUM
  /\ \E pos \in Positions :
       g_User_Topology' = [g_User_Topology EXCEPT
         ![generated] = [Pos |-> pos, Best_Wave_ID |-> Best_Wave_ID_at(pos)]]
  /\ generated' = generated + 1

MatchSpec == MatchInit /\ [][Generate_Users_And_Match]_matchVars

-----------------------------------------------------------------------------
(* Property *)

(* The column and the row of a beam in the grid. *)
CellOf(b) == [x |-> b % cols, y |-> b \div cols]

(* The units that have a row for beam b. *)
Owners(b) == {u \in BBU : WAVE_NUM_to_LocalIndex_map(u, b) < RowsOfBBU}

(* A beam interferes with itself and with the beams that share a side with it
   and with no other; and just two baseband units have a row for it, and the
   row maps back to it. *)
HasRows(b) ==
  /\ Init_Interference_Matrix(b) =
       {c \in Beam : calc_distance(CellOf(b), CellOf(c)) <= 1}
  /\ Cardinality(Owners(b)) = 2
  /\ \A u \in Owners(b) :
       wave_local_index_to_WAVE_NUM(u, WAVE_NUM_to_LocalIndex_map(u, b)) = b

BeamsWithRows == {b \in Beam : HasRows(b)}

(* Unit 0, the one that this program runs as, polls only rows that are the
   wave they are taken for. *)
PolledRowsAreTheWaves ==
  \A p \in Polled(0) : WAVE_NUM_to_LocalIndex_map(0, p[2]) = p[1]

StandsIn(pos, b) == /\ pos.x - CellOf(b).x * step_x \in 0 .. step_x
                    /\ pos.y - CellOf(b).y * step_y \in 0 .. step_y

(* From the position of a user, over grid, nearest beam and matrix, to the
   rows that two units have for him, also if his request is sent before he
   has been matched; and the rows that unit 0 polls. *)
PlaceHasRows ==
  /\ \A n \in UserIndex :
       /\ StandsIn(g_User_Topology[n].Pos, g_User_Topology[n].Best_Wave_ID)
       /\ g_User_Topology[n].Best_Wave_ID \in BeamsWithRows
  /\ PolledRowsAreTheWaves
=============================================================================
