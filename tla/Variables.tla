----------------------------- MODULE Variables -----------------------------
(* The variables of a BASIC program in the interpreter's memory (memory.c)   *)
(* and the commands that change them (commands/let.c, function.c, file.c).   *)
(* A variable is a place (a pointer in the array of the global variables or  *)
(* in that of the locals of a call) that is NULL or points to an object. An  *)
(* object of type REF points to the place of another variable, and the       *)
(* objects that refer to one value are on a list: rprev is the place of the  *)
(* next reference, next the object before it, the value's own at the end.    *)
(* Arrays of the program, host calls with arguments and failing allocations  *)
(* are not modelled. An expression is the value it has: a function that it   *)
(* calls runs before the command, and does not see the command half done.    *)
EXTENDS Naturals, FiniteSets, SequencesExt

CONSTANTS
  Globals, Locals,   \* how many variables the program, and each call, has
  MaxDepth,          \* bound on nested calls
  Object,            \* the structures the allocator has
  Number,            \* values that replace one another in place
  Text,              \* values that need an object of their own
  undef, NULL,
  Careless           \* what the program does that memory.c is not made for:

(* "reref"   REF changes a variable that others refer to (let.c releases the *)
(*           structure their list leads back to);                            *)
(* "unknown" a referenced value that has no State (of LINE INPUT or BYVAL)   *)
(*           is released: memory_ReleaseVariable does not give it on;        *)
(* "swap"    SWAP of referenced variables, whose lists it does not change;   *)
(* "input"   LINE INPUT, v -= e and their like change a referenced variable: *)
(*           the references are cut off (a number is changed in place).      *)

(* <<0, i>> is a place of a global variable, <<d, i>> one of the d-th call.  *)
Cell == ({0} \X (1..Globals)) \cup ((1..MaxDepth) \X (1..Locals))

ASSUME Bounds == /\ {Globals, Locals, MaxDepth} \subseteq Nat
                 /\ Cardinality(Object) > Cardinality(Cell)
ASSUME Pitfalls == Careless \subseteq {"reref", "unknown", "swap", "input"}

VARIABLES
  depth,   \* how many functions are being executed
  cell,    \* the object a place points to, or NULL
  obj      \* the structures

vars == <<depth, cell, obj>>

(* The helpers take and return a memory: the places and the structures.      *)
memory == [cell |-> cell, obj |-> obj]
Become(m) == cell' = m.cell /\ obj' = m.obj

Fixed(state, type, data) == [State |-> state, vType |-> type, data |-> data,
                             aValue |-> NULL, rprev |-> NULL, next |-> NULL]
Free      == Fixed("free", "undef", undef)
NewUndef  == Fixed("immortal", "undef", undef)
NewRef    == Fixed("immortal", "ref", undef)
Scalar(v) == Fixed("immortal", "value", v)
(* The string LINE INPUT makes, and the copy BYVAL makes, are never given a  *)
(* State.                                                                    *)
Stateless(v) == [Scalar(v) EXCEPT !.State = "unknown"]

(* Which free structure is taken does not matter: none refers to it.         *)
Put(m, c, r) == LET o == CHOOSE x \in Object : m.obj[x].State = "free"
                IN [cell |-> [m.cell EXCEPT ![c] = o],
                    obj  |-> [m.obj EXCEPT ![o] = r]]

IsRef(m, c) == m.cell[c] # NULL /\ m.obj[m.cell[c]].vType = "ref"

(* DEREFERENCE: from a reference to the place that holds the value. No list  *)
(* is as long as the limit maxderef (1000), here or below.                   *)
Dereference(m, c) ==
  LET to[k \in 0..Cardinality(Cell)] ==
        IF k = 0 THEN c
        ELSE LET d == to[k-1] IN IF IsRef(m, d) THEN m.obj[m.cell[d]].aValue ELSE d
  IN to[Cardinality(Cell)]

(* The places on the list of references that starts with place c, in order;  *)
(* NULL after the last.                                                      *)
Walk(m, c) ==
  LET to[k \in 0..Cardinality(Cell)] ==
        IF k = 0 THEN c
        ELSE LET d == to[k-1] IN IF d = NULL THEN NULL
                                 ELSE IF m.cell[d] = NULL THEN NULL
                                 ELSE m.obj[m.cell[d]].rprev
  IN to

Chain(m, c) == Range(Walk(m, c)) \ {NULL}
LastOf(m, c) == CHOOSE d \in Chain(m, c) : m.obj[m.cell[d]].rprev = NULL

(* The structures on that list. A bug: only the first.                       *)
FirstBehind(m, c) == IF c = NULL THEN {} ELSE {m.cell[c]}
Behind(m, c) == {m.cell[d] : d \in Chain(m, c)}

------------------------------------------------------------------------------
(* Releasing an object. A value other variables refer to moves to the first  *)
(* of them, and the reference that was there is released in its stead; a     *)
(* reference is taken off its list.                                          *)

GiveToFirst(m, p) ==
  LET head   == m.obj[p].rprev
      ref    == m.cell[head]
      second == m.obj[ref].rprev
      others == Behind(m, second)
  IN [cell |-> [m.cell EXCEPT ![head] = p],
      obj  |-> [o \in Object |->
                  CASE o = ref -> Free
                    [] o = p   -> [m.obj[p] EXCEPT !.rprev = second, !.next = NULL]
                    [] OTHER   ->
                       [m.obj[o] EXCEPT
                          !.aValue = IF o \in others THEN head ELSE @,
                          !.next   = IF second # NULL /\ o = m.cell[second] THEN p ELSE @]]]

(* A bug: the references after p on the list still lead back to p.           *)
UnlinkOneWay(m, p) ==
  LET r == m.obj[p]
  IN IF r.next = NULL THEN m ELSE [m EXCEPT !.obj[r.next].rprev = r.rprev]

Unlink(m, p) ==
  LET r == m.obj[p]
  IN [m EXCEPT !.obj = [o \in Object |->
        [m.obj[o] EXCEPT
           !.rprev = IF o = r.next THEN r.rprev ELSE @,
           !.next  = IF r.rprev # NULL /\ o = m.cell[r.rprev] THEN r.next ELSE @]]]

Freed(m, p) == [m EXCEPT !.obj[p] = Free]

ReleaseVariable(m, p) ==
  LET r == m.obj[p]
  IN CASE r.State = "immortal" /\ r.vType # "ref" /\ r.rprev # NULL -> GiveToFirst(m, p)
       [] r.State = "immortal" /\ r.vType = "ref" -> Freed(Unlink(m, p), p)
       [] OTHER -> Freed(m, p)

Released(m, c) == IF m.cell[c] = NULL THEN m ELSE ReleaseVariable(m, m.cell[c])

(* A bug: next is the place of the variable before, and not its structure.   *)
SetRefPlace(m, c, d) ==
  LET v == Dereference(m, d)
  IN [m EXCEPT !.obj[m.cell[c]].aValue = v, !.obj[m.cell[c]].next = v]

(* The reference in place c, with those that are on its list already, comes  *)
(* to the end of the list of the value that d leads to.                      *)
SetRef(m, c, d) ==
  LET v     == Dereference(m, d)
      n     == IF m.cell[v] = NULL THEN Put(m, v, NewUndef) ELSE m
      last  == n.cell[LastOf(n, v)]
      moved == Behind(n, c)
  IN [n EXCEPT !.obj = [o \in Object |->
        [n.obj[o] EXCEPT
           !.rprev  = IF o = last THEN c ELSE @,
           !.next   = IF o = n.cell[c] THEN last ELSE @,
           !.aValue = IF o \in moved THEN v ELSE @]]]

(* A bug: the new value does not inherit the references to the old one.      *)
ReplaceVariableAlone(m, c, v) ==
  LET released == Released(m, c)
  IN IF v = undef THEN [released EXCEPT !.cell[c] = NULL]
     ELSE Put(released, c, Scalar(v))

(* An assignment to a place that is no reference: what it held is released,  *)
(* and the references to it become references to the new value.              *)
ReplaceVariable(m, c, v) ==
  LET old     == m.cell[c]
      isUndef == old = NULL \/ m.obj[old].vType = "undef"
      rprev   == IF old = NULL THEN NULL ELSE m.obj[old].rprev
      fresh   == [(IF v = undef THEN NewUndef ELSE Scalar(v)) EXCEPT !.rprev = rprev]
      handed  == IF v = undef /\ rprev = NULL
                 THEN [m EXCEPT !.cell[c] = NULL] ELSE Put(m, c, fresh)
      hooked  == IF rprev = NULL THEN handed
                 ELSE [handed EXCEPT !.obj[m.cell[rprev]].next = handed.cell[c],
                                     !.obj[old].rprev = NULL]
  IN CASE isUndef /\ v = undef -> m
       [] ~isUndef /\ v \in Number /\ m.obj[old].data \in Number ->
            [m EXCEPT !.obj[old].data = v]
       [] OTHER -> IF old = NULL THEN hooked ELSE ReleaseVariable(hooked, old)

------------------------------------------------------------------------------
Init == /\ depth = 0
        /\ cell = [c \in Cell |-> NULL]
        /\ obj = [o \in Object |-> Free]

Visible == {c \in Cell : c[1] \in {0, depth}}
Referenced(c) == cell[c] # NULL /\ obj[cell[c]].rprev # NULL

LET_(c, v) == /\ Become(ReplaceVariable(memory, Dereference(memory, c), v))
              /\ UNCHANGED depth

(* LINE INPUT, and v -= e, v &= e and their like when they cannot change a   *)
(* number in place: the old value is released and a new one takes the place. *)
Overwrite(c, r) ==
  LET d == Dereference(memory, c)
  IN /\ Referenced(d) => "input" \in Careless
     /\ Become(Put(Released(memory, d), d, r))
     /\ UNCHANGED depth

LINPUT(c, v) == Overwrite(c, Stateless(v))
LETM(c, v)   == Overwrite(c, Scalar(v))

SWAP(a, b) ==
  LET x == Dereference(memory, a)
      y == Dereference(memory, b)
  IN /\ Referenced(x) \/ Referenced(y) => "swap" \in Careless \/ x = y
     /\ cell' = [cell EXCEPT ![x] = cell[y], ![y] = cell[x]]
     /\ UNCHANGED <<depth, obj>>

REF(a, b) ==
  LET x      == Dereference(memory, a)
      y      == Dereference(memory, b)
      old    == cell[x]
      rprev  == IF old = NULL THEN NULL ELSE obj[old].rprev
      made   == Put(memory, x, [NewRef EXCEPT !.rprev = rprev])
      unhung == IF old = NULL THEN made
                ELSE ReleaseVariable([made EXCEPT !.obj[old].rprev = NULL], old)
  IN /\ x # y
     /\ Referenced(x) => "reref" \in Careless
     /\ Become(SetRef(unhung, x, y))
     /\ UNCHANGED depth

(* A bug: the place keeps pointing to what was released.                     *)
CUNDEFStale(c) ==
  cell[c] # NULL /\ Become(Released(memory, c)) /\ UNCHANGED depth

(* UNDEF does not follow references.                                         *)
CUNDEF(c) ==
  /\ cell[c] # NULL
  /\ Referenced(c) /\ obj[cell[c]].State = "unknown" => "unknown" \in Careless
  /\ Become([Released(memory, c) EXCEPT !.cell[c] = NULL])
  /\ UNCHANGED depth

CBYVAL(c) ==
  LET v        == cell[Dereference(memory, c)]
      released == ReleaseVariable(memory, cell[c])
  IN /\ IsRef(memory, c)
     /\ Become(IF v = NULL THEN [released EXCEPT !.cell[c] = NULL]
               ELSE Put(released, c, [obj[v] EXCEPT !.State = "unknown",
                                                    !.rprev = NULL, !.next = NULL]))
     /\ UNCHANGED depth

(* A call: the first k arguments, each in turn, become a reference or a copy  *)
(* of a value, in the locals of the new call.                                *)
Bind(args, k) ==
  LET pass(m, i) == LET c == <<depth + 1, i>>
                    IN CASE args[i] \in Cell -> SetRef(Put(m, c, NewRef), c, args[i])
                         [] args[i] = undef  -> m
                         [] OTHER            -> Put(m, c, Scalar(args[i]))
  IN FoldLeft(pass, memory, [i \in 1..k |-> i])

(* The local variables of the d-th call are released, one after the other.   *)
Leave(mem, d) ==
  LET release(m, i) == Released(m, <<d, i>>)
      left          == FoldLeft(release, mem, [i \in 1..Locals |-> i])
  IN [left EXCEPT !.cell = [c \in Cell |-> IF c[1] = d THEN NULL ELSE @[c]]]

FUNCTIONARG(args) ==
  /\ depth < MaxDepth
  /\ depth' = depth + 1
  /\ Become(Bind(args, Locals))

(* The evaluation of a later argument than the k-th fails: the function is    *)
(* not executed, and the locals that have been made are released.            *)
FailedCall(args, k) ==
  /\ depth < MaxDepth
  /\ \A i \in k+1..Locals : args[i] = undef   \* they do not matter
  /\ Become(Leave(Bind(args, k), depth + 1))
  /\ UNCHANGED depth

ReleaseLocals ==
  /\ depth > 0
  /\ \A c \in Cell : (c[1] = depth /\ Referenced(c) /\ obj[cell[c]].State = "unknown")
                        => "unknown" \in Careless
  /\ depth' = depth - 1
  /\ Become(Leave(memory, depth))

Next ==
  \/ \E c \in Visible : \/ \E v \in Number \cup Text \cup {undef} : LET_(c, v)
                        \/ \E v \in Text : LINPUT(c, v)
                        \/ \E v \in Number \cup Text : LETM(c, v)
                        \/ CUNDEF(c)
                        \/ CBYVAL(c)
  \/ \E a, b \in Visible : SWAP(a, b) \/ REF(a, b)
  \/ \E args \in [1..Locals -> Visible \cup Number \cup Text \cup {undef}] :
       \/ FUNCTIONARG(args)
       \/ \E k \in 1..Locals : FailedCall(args, k)
  \/ ReleaseLocals

Spec == Init /\ [][Next]_vars

------------------------------------------------------------------------------
Live(c) == c[1] <= depth
Refs == {c \in Cell : cell[c] # NULL /\ obj[cell[c]].vType = "ref"}

(* Every place and every structure has the fields memory.h declares.         *)
TypeOK ==
  /\ depth \in 0..MaxDepth
  /\ cell \in [Cell -> Object \cup {NULL}]
  /\ obj \in [Object -> [State  : {"free", "unknown", "immortal"},
                        vType  : {"value", "undef", "ref"},
                        data   : Number \cup Text \cup {undef},
                        aValue : Cell \cup {NULL},
                        rprev  : Cell \cup {NULL},
                        next   : Object \cup {NULL}]]

(* memory_ReleaseVariable and its callers lose no structure and free none    *)
(* twice: each one that is not free belongs to one variable that exists,     *)
(* and a free one to none.                                                   *)
OneOwner ==
  /\ \A c \in Cell : cell[c] # NULL => Live(c) /\ obj[cell[c]].State # "free"
  /\ \A o \in Object : obj[o].State # "free" => \E c \in Cell : cell[c] = o
  /\ \A c, d \in Cell : cell[c] = cell[d] => c = d \/ cell[c] = NULL

(* A reference leads in one step to a variable that exists and holds a value *)
(* (memory_SetRef: it "always points to the final variable"), whatever was   *)
(* released, undefined or left by a return since it was made.                *)
RefsLive ==
  \A c \in Refs : LET d == obj[cell[c]].aValue
                  IN d # NULL /\ Live(d) /\ cell[d] # NULL /\ d \notin Refs

(* memory.h: the fields next and rprev "maintain a linked list of variables  *)
(* referencing the same value": from the value the list visits the           *)
(* references to it, each once, and next leads back the same way.            *)
ChainsMatch ==
  \A c \in {x \in Cell \ Refs : cell[x] # NULL} :
    LET n    == Cardinality(Cell)
        walk == Walk(memory, c)
    IN /\ walk[n] = NULL
       /\ {walk[k] : k \in 1..n} \ {NULL} = {d \in Refs : obj[cell[d]].aValue = c}
       /\ \A k \in 1..n : walk[k] # NULL => obj[cell[walk[k]]].next = cell[walk[k-1]]

(* The program sees aliases: the variables that refer to one another share   *)
(* one value, and a variable that leaves them takes nothing away (REF,       *)
(* UNDEF, BYVAL, calls by reference and returns).                            *)
ValueOf(c) == IF cell[c] = NULL THEN undef ELSE obj[cell[c]].data
Root(c) == IF c \in Refs THEN obj[cell[c]].aValue ELSE c
A == INSTANCE Alias WITH
       Value <- Number \cup Text,
       same  <- [c \in Cell |-> {d \in Cell : Root(d) = Root(c)}],
       val   <- [c \in Cell |-> ValueOf(Root(c))]
AliasSpec == A!Spec
=============================================================================
