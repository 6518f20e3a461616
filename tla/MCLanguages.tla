---------------------------- MODULE MCLanguages -----------------------------
(***************************************************************************)
(* The programs that read a language: a behaviour is one of the Flex and   *)
(* Bison examples (Parsers), of ParaCL of 15-llvm (Paracl) or of its first *)
(* version in the archive (ParaclNaive).  ParaCL's programs use one name:  *)
(* deeply nested ones, and short ones with every operator.  The three      *)
(* share the variables of Parsers, and r1 to r7.                           *)
(***************************************************************************)
EXTENDS Parsers, ParaclNodes

CONSTANTS Names, Fragments, Inputs, MaxSteps

VARIABLES part, r1, r2, r3, r4, r5, r6, r7

registers == <<r1, r2, r3, r4, r5, r6, r7>>
anyVars == <<vars, part, registers>>

P == INSTANCE ParaclNaive
  WITH language <- prog, phase <- status, items <- input, scopes <- stack,
       CurrentScope <- look, interpreted <- printed, pending <- r1, names <- r2,
       NamedValues_ <- r3, selfRead <- r4, accepted <- r5, compiled <- r6, destroyed <- r7

X == Name("x")
Op(l, o, r) == makeOperand(l, o, r)
Two == makeValue(2)
Positive(e) == Op(e, "Greater", makeValue(0))

\* Deeply nested programs, of up to n items.
Scoping(n) == [assigned |-> {StdIn, X},
               printed |-> {X},
               tested |-> {Positive(StdIn)},
               items |-> n]

ArithmeticOps == {Op(X, o, Two) : o \in {"Plus", "Minus", "Mul", "Div", "Mod"}}
Comparisons == {Op(X, o, Two) : o \in Relations}

\* Short programs, with every operator.
Operators == [assigned |-> {StdIn, Op(makeValue(0), "Minus", X)} \cup ArithmeticOps,
              printed |-> {Op(Two, "Div", X), Op(X, "Div", StdIn), Op(Two, "Mod", X)},
              tested |-> Comparisons
                         \cup {X, Op(nullptr, "Not", X), Op(nullptr, "Not", Positive(X)),
                               Op(Positive(X), "And", Op(X, "Less", Two)),
                               Op(Positive(X), "Or", Positive(StdIn)),
                               Op(Positive(X), "And", Op(Op(Two, "Div", X), "Equal", Two))},
              items |-> 3]

MCFragments == {Scoping(6), Scoping(7), Operators}
MCInputs == {<<1, 0, 2, 1, 3, 0>>, <<2, 1, 3>>, <<-1, 3>>}

AnyInit ==
  \/ /\ part = "bison" /\ Init
     /\ r1 = 0 /\ r2 = 0 /\ r3 = 0 /\ r4 = 0 /\ r5 = 0 /\ r6 = 0 /\ r7 = 0
  \/ part = "paracl" /\ P!Init /\ prog \in {Scoping(7), Operators}
  \/ part = "naive" /\ P!Init /\ prog \in {Scoping(6), Operators}

BisonWorks == part = "bison" /\ Work /\ UNCHANGED <<part, registers>>

AnyNext ==
  \/ BisonWorks
  \/ part = "paracl" /\ P!Next /\ UNCHANGED part
  \/ part = "naive" /\ P!NaiveNext /\ UNCHANGED part

\* A parser that can read, shift or reduce does so.
AnySpec == AnyInit /\ [][AnyNext]_anyVars /\ WF_anyVars(BisonWorks)

-----------------------------------------------------------------------------
(* Properties.                                                             *)

\* A ParaCL program reads a variable before anything was assigned to it only if
\* the assignment that declares it reads it: see DefinedBeforeRead of Paracl.
NamesDefined == part # "bison" => P!DefinedBeforeRead

\* Interpreter and compiler print the same: in 15-llvm for all programs, in the
\* archive for what its compiler can generate.
OutputsAgree == /\ part = "paracl" => P!SameOutput
                /\ part = "naive" => P!NaiveSameOutput

\* The destructors of either ParaCL look at a declaration only while it exists,
\* delete nothing twice and forget nothing, but the ones of the archive when the
\* process exits.
TreesFreed == \/ part = "bison"
              \/ part = "naive" /\ P!Exits
              \/ P!DestructorsSafe

\* The Bison programs answer an accepted input as arithmetic has it, or as their
\* conflicts do: see AnswersRight of Parsers.
ParsersRight == part = "bison" => AnswersRight

\* Every parser but the one with a cyclic grammar ends on every input.
ParsersEnd == <>(part = "bison" /\ prog # "bad" => status # "run")
=============================================================================
