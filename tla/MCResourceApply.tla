-------------------------- MODULE MCResourceApply ---------------------------
(***************************************************************************)
(* ResourceApply for TLC: a subframe that comes again and again, with      *)
(* instants in the guard time, in the last microsecond of a slot and in    *)
(* the last slot, and the pure functions over their whole ranges.  To the  *)
(* next instant it is less than a period from some, and more from others.  *)
(***************************************************************************)
EXTENDS ResourceApply

M == INSTANCE RarMessage

MCInstants == {10, 153, 402}

(***************************************************************************)
(* What the satellite's PRBalloc_to_locationandbandwidth0 encodes,         *)
(* handle_DCI decodes, as long as RBG - 1 is at most half of the 250 RBs,  *)
(* as its comment says, and wrongly for every longer one; the start and    *)
(* length of the symbols are those that the start and length indicator of  *)
(* the standard stands for.                                                *)
(***************************************************************************)
GrantDecodes ==
  now = 10 /\ main = "divide" /\ calls = 0 =>
    /\ \A count \in 1 .. RB_TOTALNUM : \A first \in 0 .. RB_TOTALNUM - 1 :
         first + count <= RB_TOTALNUM =>
           LET RIV == M!PRBalloc_to_locationandbandwidth0(count, first, RB_TOTALNUM)
               grant == handle_DCI(<<RIV \div 256, RIV % 256, 0, 64, 0>>)
           IN  (grant.RBG = count /\ grant.RB = first)
                 <=> count - 1 <= RB_TOTALNUM \div 2
    /\ \A time_domain \in 0 .. 15 :
         LET grant == handle_DCI(<<0, 0, 16 * time_domain, 64, 0>>)
         IN  /\ grant.S + grant.L <= 14
             /\ time_domain = IF grant.L - 1 <= 7
                              THEN 14 * (grant.L - 1) + grant.S
                              ELSE 14 * (15 - grant.L) + 13 - grant.S

(***************************************************************************)
(* The level of a report is that of an amount not below the two groups'    *)
(* data together, and no lower level is, if and only if the sum fits into  *)
(* the u8 of BSR_TABLE: above 255 bytes the report says less than there is.*)
(***************************************************************************)
ReportCoversData ==
  now = 10 /\ main = "divide" /\ calls = 0 =>
    \A a, b \in 0 .. 255 :
      LET level == trigger_BSR(<<a, b>>)
          Covers(l) == IF l = 0 THEN a + b = 0 ELSE a + b <= UpperBound[l]
      IN  a + b <= 255 <=> Covers(level) /\ (level > 0 => ~Covers(level - 1))
=============================================================================
