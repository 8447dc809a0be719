---------------------------- MODULE MCVariables ----------------------------
(* Variables for TLC.                                                        *)
EXTENDS Variables

(* Two memories that differ only in which structures they use are the same.  *)
Owner(o) == IF o = NULL THEN NULL ELSE {c \in Cell : cell[c] = o}
View == <<depth, Cardinality({o \in Object : obj[o].State = "free"}),
          [c \in Cell |-> IF cell[c] = NULL THEN NULL
                         ELSE [obj[cell[c]] EXCEPT !.next = Owner(@)]]>>
=============================================================================
