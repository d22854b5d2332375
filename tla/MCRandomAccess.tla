--------------------------- MODULE MCRandomAccess ---------------------------
(***************************************************************************)
(* RandomAccess for TLC, with the responses that the codec is checked for. *)
(***************************************************************************)
EXTENDS RandomAccess, SequencesExt

(* A response of up to three subPDUs: backoff subheaders, answers to this
   preamble and to another one.  The i-th payload has its own timing advance;
   the fields of the grant are at the edges of their widths. *)
Preambles == BoundedSeq({20, PREAMBLE, Backoff}, 3) \ {<<>>}

MCResponses ==
  {[i \in DOMAIN preambles |->
      [preamble |-> preambles[i], ta |-> 2048 + i, mcs |-> mcs, tda |-> tda,
       f_alloc |-> f, hopping |-> hopping, rnti |-> 4660]] :
     preambles \in Preambles, mcs \in {0, 15}, tda \in {1, 15},
     f \in {0, 15, 16, 4096, 16383}, hopping \in {0, 1}}
=============================================================================
