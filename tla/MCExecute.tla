----------------------------- MODULE MCExecute -----------------------------
(***************************************************************************)
(* Model-checking instances of Execute.  A program has a main part and one *)
(* function.  A family of programs takes each command of the main part and *)
(* of the body from a set of candidates, in every combination, so that a   *)
(* run checks all the short programs that can be made of those commands.   *)
(***************************************************************************)
EXTENDS Execute

Plain(o) == [op |-> o, target |-> 0, calls |-> <<>>, fails |-> FALSE]
To(o, n) == [Plain(o) EXCEPT !.target = n]
Raise == [Plain("expr") EXCEPT !.fails = TRUE]
Evaluate(cs) == [Plain("expr") EXCEPT !.calls = cs]

\* The program whose main part is m and whose function, with its head on node
\* Len(m) + 1, has the body b.
Program(m, b) ==
  LET size == Len(m) + Len(b) + 2
  IN m \o <<To("function", size)>> \o b \o <<Plain("endfunc")>>

Family(main, i, body, j) ==
  {Program(m, b) : m \in [1 .. i -> main], b \in [1 .. j -> body]}

\* A call of the function at node h, and one with itself as its argument.
Calls(h) == <<[fun |-> h, args |-> <<>>]>>
Nested(h) == <<[fun |-> h, args |-> Calls(h)]>>

\* Main part 1 .. 3, head 4, body 5 .. 6, end 7: errors, handlers and resumes
\* across calls; no GOSUB in the function.
HandlerPrograms ==
  Family({To("onerrorgoto", 2), To("onerrorgoto", 3), Plain("onerrorresumenext"),
          Plain("onerrorgotonull"), Raise, Evaluate(Calls(4)),
          Evaluate(Nested(4)), Plain("resumenext"), To("resumelabel", 3),
          Plain("nop")}, 3,
         {Raise, To("onerrorgoto", 6), Evaluate(Calls(4)), Plain("resume"),
          To("onerrorresumelabel", 6), Plain("onerrorresumenext"),
          Plain("stop")}, 2)

\* Main part 1 .. 2, head 3, body 4 .. 6, end 7: GOSUBs in both.
GosubPrograms ==
  Family({To("gosub", 1), To("gosub", 2), Plain("return"), Plain("pop"),
          Evaluate(Calls(3)), Plain("onerrorresumenext"), To("goto", 1)}, 2,
         {To("gosub", 5), To("gosub", 6), Plain("return"), Plain("pop"),
          Evaluate(Calls(3)), Plain("endfunc"), To("onerrorgoto", 6)}, 3)

JumpPrograms == HandlerPrograms \cup GosubPrograms

\* Main part 1 .. 3, head 4, body 5 .. 6, end 7: loops and recursion that only
\* the limits end, calls by address, errors that are handled on the way out.
LoopPrograms ==
  Family({To("goto", 1), To("icall", 4), To("icall", 1), Evaluate(Calls(4)),
          To("onerrorgoto", 3), Plain("onerrorresumenext"), Plain("nop")}, 3,
         {Evaluate(Calls(4)), To("goto", 5), To("onerrorgoto", 6), Raise,
          Plain("nop")}, 2)

\* Of the same shape: errors that look for a handler.
ErrorPrograms ==
  Family({To("onerrorgoto", 3), Plain("onerrorgotonull"), Raise,
          Evaluate(Calls(4)), Evaluate(Calls(0)), Plain("stop"),
          Plain("resume")}, 3,
         {Raise, To("onerrorgoto", 6), Evaluate(Calls(4)), Plain("nop")}, 2)

EndingPrograms == LoopPrograms \cup ErrorPrograms

-----------------------------------------------------------------------------
\* Single programs that show where the code departs from its documents.  All
\* have the head of their function on node 4.

\* STOP inside a function that is called twice in one expression.
StopTwice == {Program(<<Evaluate(Calls(4) \o Calls(4)), Plain("nop"), Plain("nop")>>,
                      <<Plain("stop"), Plain("nop")>>)}

\* The handler of an error is a RESUME NEXT, which leads to itself.
ResumeTwice ==
  {Program(<<To("onerrorgoto", 3), Raise, Plain("resumenext")>>,
           <<Plain("nop"), Plain("nop")>>)}

\* A function fails while its GOSUB is pending, and the caller executes RETURN.
ReturnIntoFunction ==
  {Program(<<Plain("onerrorresumenext"), Evaluate(Calls(4)), Plain("return")>>,
           <<To("gosub", 6), Raise>>)}
=============================================================================
