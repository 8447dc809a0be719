------------------------------- MODULE Alias -------------------------------
(* What a BASIC program sees of its variables, without the memory behind     *)
(* them: every variable has a value, and the variables that REF or a call by *)
(* reference made names of one another share it until one leaves the group.  *)
EXTENDS Naturals

CONSTANTS
  Globals, Locals,   \* the variables of the program, and of each call
  MaxDepth,          \* the depth of the calls
  Value, undef

(* <<0, i>> is a global variable, <<d, i>> a local one of the d-th call.     *)
Cell == ({0} \X (1..Globals)) \cup ((1..MaxDepth) \X (1..Locals))

VARIABLES
  depth,   \* how many functions are being executed
  same,    \* the variables that share their value with this one
  val

vars == <<depth, same, val>>

Init == /\ depth = 0
        /\ same = [c \in Cell |-> {c}]
        /\ val = [c \in Cell |-> undef]

(* Some variables of groups of their own.                                    *)
Split(cells) == [c \in Cell |-> IF c \in cells THEN {c} ELSE same[c] \ cells]

Visible == {c \in Cell : c[1] \in {0, depth}}

Assign(c, v) == /\ val' = [d \in Cell |-> IF d \in same[c] THEN v ELSE val[d]]
                /\ UNCHANGED <<depth, same>>

Exchange(a, b) ==
  /\ val' = [c \in Cell |-> CASE c \in same[a] -> val[b]
                              [] c \in same[b] -> val[a]
                              [] OTHER         -> val[c]]
  /\ UNCHANGED <<depth, same>>

Join(a, b) ==
  /\ same' = [c \in Cell |-> IF c \in same[a] \cup same[b]
                             THEN same[a] \cup same[b] ELSE same[c]]
  /\ val' = [c \in Cell |-> IF c \in same[a] THEN val[b] ELSE val[c]]
  /\ UNCHANGED depth

Undefine(c) == /\ same' = Split({c})
               /\ val' = [val EXCEPT ![c] = undef]
               /\ UNCHANGED depth

Detach(c) == same' = Split({c}) /\ UNCHANGED <<depth, val>>

(* A call: an argument that is a variable makes the local one its alias.     *)
Enter(args) ==
  LET arg(c)    == IF c[1] = depth + 1 THEN args[c[2]] ELSE c
      source(c) == IF arg(c) \in Cell THEN arg(c) ELSE c
  IN /\ depth' = depth + 1
     /\ same' = [c \in Cell |-> {d \in Cell : source(d) \in same[source(c)]}]
     /\ val' = [c \in Cell |-> IF arg(c) \in Cell THEN val[arg(c)] ELSE arg(c)]

Exit == LET gone == {c \in Cell : c[1] = depth}
        IN /\ depth' = depth - 1
           /\ same' = Split(gone)
           /\ val' = [c \in Cell |-> IF c \in gone THEN undef ELSE val[c]]

Next == \/ \E c \in Visible : \/ \E v \in Value \cup {undef} : Assign(c, v)
                              \/ Undefine(c)
                              \/ Detach(c)
        \/ \E a, b \in Visible : Exchange(a, b) \/ Join(a, b)
        \/ /\ depth < MaxDepth
           /\ \E args \in [1..Locals -> Visible \cup Value \cup {undef}] : Enter(args)
        \/ depth > 0 /\ Exit

Spec == Init /\ [][Next]_vars
=============================================================================
