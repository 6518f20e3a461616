---------------------------- MODULE ParaclNodes -----------------------------
(***************************************************************************)
(* The nodes of the tree that ParaCL of 15-llvm builds (INode.hpp,         *)
(* Node.hpp and the make functions of Node.cc).                            *)
(***************************************************************************)

nullptr == [op |-> "nullptr"]
makeValue(v) == [op |-> "Value", val |-> v]
Name(x) == [op |-> "Name", name |-> x]          \* before it is looked up
Decl(d) == [op |-> "Decl", decl |-> d]
makeOperand(l, o, r) == [op |-> o, left |-> l, right |-> r]
StdIn == makeOperand(nullptr, "StdIn", nullptr)
ScopeNode(s) == [op |-> "Scope", scope |-> s]
makeIf(c, s) == [op |-> "If", cond |-> c, scope |-> s]
makeWhile(c, s) == [op |-> "While", cond |-> c, scope |-> s]

Leaves == {"nullptr", "Value", "Name", "Decl"}
Relations == {"Greater", "Less", "GreaterEq", "LessEq", "Equal", "NotEqual"}

RECURSIVE Subterms(_)
Subterms(e) ==
  {e} \cup IF e.op \in Leaves THEN {} ELSE Subterms(e.left) \cup Subterms(e.right)
=============================================================================
