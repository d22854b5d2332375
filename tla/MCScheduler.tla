---------------------------- MODULE MCScheduler ----------------------------
(***************************************************************************)
(* Scheduler for TLC, on the beam grid of Topology: as in main, the users  *)
(* are matched to beams first, and the scheduler runs on what comes out.   *)
(* The first four of the 600 beams are the waves here: 0 to 2 are polled,  *)
(* 3 is not, and neighbours interfere.  It runs for the placement in which *)
(* a and b stand on wave 0, and d on wave 1.  Bytes and RBs are scaled     *)
(* down so that two rows overrun the RBs, and four packets are enough for  *)
(* the second row of a user to crash on those that the first has left.     *)
(***************************************************************************)
EXTENDS Scheduler, UserTopology

CONSTANTS a, b, d,
          MaxInputs   (* bound on packets and UL requests together *)

(* Both ask for one wave, so they may be exchanged. *)
SameWave == Permutations({a, b})

MCUser == {a, b, d}

MCWave_num == [u \in MCUser |-> IF u = d THEN {1} ELSE {0}]

MCInterference == {<<v, w>> \in (0 .. 3) \X (0 .. 3) : v - w \in -1 .. 1}

(* In units of 5/6 km: corners of the area, the edges at which the beams of
   two or four cells are equally near, and a place inside of a cell. *)
MCPositions == [x : {0, 100, 777, 1200}, y : {48, 96, 590, 1200}]

(* The waves and the matrix above are those that topology.c makes. *)
MatrixIsMade == \A v \in 0 .. 3 : {w \in 0 .. 3 : <<v, w>> \in MCInterference} =
                                   (0 .. 3) \cap Init_Interference_Matrix(v)

WavesAreMade ==
  \A n \in UserIndex : {g_User_Topology[n].Best_Wave_ID} =
                         MCWave_num[CASE n = 0 -> a [] n = 1 -> b [] n = 2 -> d]

MCInit == Init /\ MatchInit

MCNext ==
  \/ Generate_Users_And_Match /\ UNCHANGED vars
  \/ /\ generated = UE_TOTALNUM /\ WavesAreMade /\ MatrixIsMade
     /\ Next
     /\ arrived' + requests' <= MaxInputs
     /\ UNCHANGED matchVars

MCSpec == MCInit /\ [][MCNext]_<<vars, matchVars>>
=============================================================================
