------------------------------ MODULE Cvector ------------------------------
(***************************************************************************)
(* The linked vector of cvector.c, as operators on a vector value.  cell   *)
(* is the heap: a function from the allocated addresses to list nodes, so  *)
(* that a pointer to a freed node is a pointer outside its domain.  An     *)
(* allocation takes the lowest free address and fails when Cells nodes are *)
(* allocated; the node and its data are one allocation here.               *)
(* total_Data_len, which nothing outside cvector.c reads, is left out.     *)
(***************************************************************************)
EXTENDS Integers, Sequences

CONSTANT Cells   (* bound on the nodes that malloc can serve *)

ASSUME CvectorAssumption == Cells \in Nat \ {0}

NULL == 0

Addr == 1 .. Cells

(* cvector_init *)
NewVector == [size |-> 0, head |-> NULL, tail |-> NULL, cell |-> <<>>]

Free(cell, a) == [b \in DOMAIN cell \ {a} |-> cell[b]]

Exhausted(v) == DOMAIN v.cell = Addr

Malloc(v) == CHOOSE a \in Addr \ DOMAIN v.cell :
               \A b \in Addr \ DOMAIN v.cell : a <= b

(* cvector_llget: the node at index, NULL when there is none. *)
Llget(v, index) ==
  LET node[k \in 0 .. index] ==
        IF k = 0 THEN v.head
        ELSE IF node[k - 1] = NULL THEN NULL
        ELSE v.cell[node[k - 1]].next
  IN  IF index >= v.size THEN NULL ELSE node[index]

(* The data of the vector, first to last. *)
Data(v) == [i \in 1 .. v.size |-> v.cell[Llget(v, i - 1)].data]

-----------------------------------------------------------------------------
Pushback(v, data) ==
  LET a    == Malloc(v)
      node == [data |-> data, pre |-> v.tail, next |-> NULL]
  IN  IF Exhausted(v) THEN v
      ELSE [size |-> v.size + 1,
            head |-> IF v.size > 0 THEN v.head ELSE a,
            tail |-> a,
            cell |-> [b \in DOMAIN v.cell \cup {a} |->
                       IF b = a THEN node
                       ELSE IF v.size > 0 /\ b = v.tail
                         THEN [v.cell[b] EXCEPT !.next = a]
                         ELSE v.cell[b]]]

Pophead(v) ==
  LET second == v.cell[v.head].next
  IN  CASE v.size = 0 -> v
        [] v.size = 1 -> NewVector
        [] OTHER -> [v EXCEPT
             !.size = v.size - 1,
             !.head = second,
             !.cell = [Free(v.cell, v.head) EXCEPT ![second].pre = NULL]]

(* Mutant: the vector keeps its pointer to the freed tail. *)
PopbackKeepsTail(v) ==
  [v EXCEPT !.size = v.size - 1, !.cell = Free(v.cell, v.tail)]

(* The new tail keeps its pointer to the freed node. *)
Popback(v) ==
  CASE v.size = 0 -> v
    [] v.size = 1 -> NewVector
    [] OTHER -> [v EXCEPT !.size = v.size - 1,
                          !.tail = v.cell[v.tail].pre,
                          !.cell = Free(v.cell, v.tail)]

Erase(v, index) ==
  LET a == Llget(v, index)
      l == v.cell[a].pre
      r == v.cell[a].next
  IN  CASE index >= v.size    -> v
        [] index = 0          -> Pophead(v)
        [] index = v.size - 1 -> Popback(v)
        [] OTHER -> [v EXCEPT !.size = v.size - 1,
                              !.cell = [Free(v.cell, a) EXCEPT
                                          ![l].next = r, ![r].pre = l]]

(* In front of the node at index; behind the last one without such a node. *)
Insert(v, index, data) ==
  LET a    == Malloc(v)
      r    == Llget(v, index)
      l    == v.cell[r].pre
      node == [data |-> data, pre |-> l, next |-> r]
  IN  CASE index >= v.size -> Pushback(v, data)
        [] index < v.size /\ Exhausted(v) -> v
        [] OTHER -> [v EXCEPT
             !.size = v.size + 1,
             !.head = IF index = 0 THEN a ELSE v.head,
             !.cell = [b \in DOMAIN v.cell \cup {a} |->
                        IF b = a THEN node
                        ELSE IF b = r THEN [v.cell[b] EXCEPT !.pre = a]
                        ELSE IF index > 0 /\ b = l
                          THEN [v.cell[b] EXCEPT !.next = a]
                          ELSE v.cell[b]]]

-----------------------------------------------------------------------------
(* size, head, tail and the links agree, and no node is lost: from head the
   vector has size different nodes, which are all that is allocated, the pre
   of each is the one before, and the last is tail.  What next of the tail is
   does not matter. *)
WellLinked(v) ==
  /\ v.size = 0 => v = NewVector
  /\ v.size > 0 => v.tail = Llget(v, v.size - 1)
  /\ DOMAIN v.cell = {Llget(v, i) : i \in 0 .. v.size - 1}
  /\ \A i, j \in 0 .. v.size - 1 : Llget(v, i) = Llget(v, j) => i = j
  /\ \A i \in 0 .. v.size - 1 :
       v.cell[Llget(v, i)].pre = IF i = 0 THEN NULL ELSE Llget(v, i - 1)
=============================================================================
